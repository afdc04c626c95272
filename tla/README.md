# A TLA+ model of the ECE 391 kernel

This directory holds TLA+ modules for the kernel in `src/student-distrib`, the
TLC configurations that check them on small instances, and TLAPS proofs of their
safety properties for every number of processes and terminals, every screen
size, every file-system image.

The kernel runs on one CPU and has no threads of its own. Everything that is
hard about it comes from interrupts: a timer that switches the kernel stack
under a running system call, a keyboard handler that starts a shell from inside
the interrupt, and system calls that run with interrupts enabled
(`interrupts.S:62`) on tables which those handlers change.

## 1. The system

| Component | State | Operations | Interacts through |
|---|---|---|---|
| Process system calls (`syscalls.c`) | `pid_array`, one PCB per process (parent, terminal, `parent_ksp`, saved `esp`, descriptors) | `execute`, `halt`, `vidmap`, `getargs` | program page at 128 MB, video page at 136 MB, `tss.esp0`, `terminal[]` |
| Scheduler (`scheduler.c`) | `cur_active_terminal`, `next_sched_terminal` | `PIT_scheduling`, `get_next_scheduled`, `process_contextswitch` | reads `active`, `apn`; saves and loads `esp` of PCBs |
| Terminals (`terminal.c`) | `terminal[t]` (`active`, `apn`, buffer, index, `eflag`, screen), `cur_term` | `init_terminal`, `switch_terminal`, `terminal_read`, `terminal_write` | called from the keyboard interrupt; calls `execute` |
| Keyboard (`keyboard.c`) | modifier flags, `key_buffer_idx`, pointer `key_buffer` | the interrupt handler, `handle_key_press`, `clear_buf` | the displayed terminal's buffer and `eflag` |
| Descriptors (`syscalls.c`) | `fds[8]` in each PCB | `sys_open`, `sys_read`, `sys_write`, `sys_close` | jump tables of the file, directory, RTC and terminal drivers |
| File system (`filesys.c`) | the image (read-only), `directoryLoc` | `read_dentry_by_name/index`, `read_data`, `file_read`, `directory_read` | `execute` loads programs through it |
| RTC (`rtc.c`) | `rtc_interrupt_occurred[t]`, registers of the chip | handler, `rtc_open/read/write/close`, `rtc_set_freq` | index port shared by the handler and the calls |
| Exceptions (`idt.c`) | - | every handler prints a blue screen and calls `stop()` | halts everything |
| Screen (`lib.c`) | `screen_x`, `screen_y`, video memory; a cursor and a buffer per terminal | `putc`, `printf`, `backspace`, `scroll_up`, and a second copy of each for hidden terminals | key echo, `terminal_write`, `save_restore` |
| Interrupt controller (`i8259.c`) | masks in memory and in the two chips | `i8259_init`, `enable_irq`, `disable_irq`, `send_eoi` | every handler; boot |
| Boot (`boot.S`, `kernel.c`, `idt.c`, `interrupts.S`) | IDT, interrupt flag | `entry`, `init_idt`, the entry and exit code of handlers and system calls | all drivers |
| Paging (`paging.c`) | page directory and two page tables | `paging_init` | entries rewritten by `execute`, `halt`, the scheduler, `vidmap` |
| User programs (`src/syscalls`, `src/fish`) | their variables and descriptors | `main` of each | system calls |

What makes each component correct:

* **processes** - every terminal's processes form one chain of `execute` calls,
  `halt` returns to the parent in the parent's address space and on the
  parent's stack, and a terminal keeps its shell;
* **scheduler** - it resumes only contexts that are live and belong to the
  process it switches to; no two flows share a kernel stack; no terminal starves;
* **terminals** - the displayed terminal has a shell; a shell launched by Alt-Fn
  opens the terminal that is displayed;
* **line input** - a line goes to the terminal it was typed in, whole and once;
* **screen and keyboard** - every terminal shows its own text, displayed or
  hidden; a modifier counts as pressed while its key is held;
* **descriptors and files** - reading a file through its descriptor yields the
  file; descriptors do not interfere;
* **RTC** - the frequency that was set is in force, and every tick wakes every
  waiting reader;
* **interrupts** - every handler ends its interrupt at the controller before it
  lets others in, programs always run with interrupts enabled, no vector
  without a handler is reached, and no device falls silent;
* **drawing** - a program that has called `vidmap` draws on its own terminal,
  displayed or not;
* **a session** - the shell reports the status that the typed line deserves,
  whatever ran before, and the prompt comes back.

What is hard to test in it is listed under `hazards` in `PROJECT.json`, at the
line where it bites, with the properties that cover it.

## 2. Modules

| Module | Models |
|---|---|
| `KernelState` | the shared tables and CPU state, the helpers that write `tss.esp0`, the page directory and the saved ESP |
| `Scheduler`, `Syscalls`, `Terminal` | the actions of `scheduler.c`, `syscalls.c`, `terminal.c` on that state |
| `Kernel` | their composition, the fairness, the properties, the inductive invariant |
| `ProcessStacks` | the abstract specification: a stack of processes per terminal |
| `KernelRefinement` | the refinement mapping from `Kernel` to it |
| `KernelProofs` | the theorems about `Kernel` |
| `TermInput`, `MCTermInput` | key presses, terminal switch and `terminal_read` on the line buffers |
| `TermInputProofs` | the theorems about `TermInput` |
| `Screen` | cursor, scrolling and output of the displayed and the hidden terminals |
| `Keyboard`, `MCKeyboard` | scan codes and modifier keys, composed with `Screen` |
| `KeyboardProofs` | the theorems about `Screen` and `Keyboard` |
| `Files`, `MCFiles` | descriptors, `read_data`, `directory_read` |
| `FilesProofs` | the theorems about `Files` |
| `Rtc`, `RtcProofs` | the RTC driver and its chip, and the theorems about them |
| `MCKernel` | `Kernel` as TLC runs it |
| `Video` | `Kernel` with the programs that draw |
| `KernelRefinementProofs` | the theorems about `Video` and `KernelRefinement` |
| `KernelStack` | how deep in a kernel stack `tss.esp0` lies, over sequences of commands |
| `Pic` | the two cascaded 8259 controllers |
| `Interrupts` | boot, IDT, handlers and the interrupt flag, composed with `Pic` |
| `InterruptsProofs` | the theorems about `Interrupts` and `Pic` |
| `Session`, `MCSession` | the shell, the command line and the user programs, composed with `Files` |
| `SessionProofs` | the theorems about `Session` |

### Kernel: how state and actions correspond to the code

*Contexts.* A saved ESP/EBP pair is a record: on whose kernel stack it lies
(`stk`), what the flow does when it is resumed there (`at`), for which process
(`of`), and how many `execute("shell")` calls of `switch_terminal` are pending on
top (`nested`). `cpu` is the context that runs. `process_contextswitch` stores
`cpu` in the old PCB and makes the new PCB's `esp` the running context;
`execute` stores its caller's context in `parent_ksp`; `halt` resumes it. A
context that was never written is `Stopped`: loading it is a fault.

*Steps.* A stretch of code between `cli` and `sti` is one action. `execute` is
two (`execute`, up to its `sti`; `execute_iret`, the `iret`), `halt` is two
(`halt_child` and `halt_return`), Alt-Fn to an empty terminal is two
(`switch_to_inactive` and `launch_shell`). The handlers' gates are interrupt
gates, so a handler is not interrupted before its own `sti`.

*Windows.* Between the `sti` and the next instruction that matters, the code is
unprotected in five places. The constant `Windows` says in which of them a run
lets events strike:

| Window | Where | What goes wrong there |
|---|---|---|
| `halt` | `syscalls.c:260-271` | Alt-Fn launches a shell that reuses the freed process number, and `halt` loads that shell's `parent_ksp`: `HaltReturnsToParent` fails |
| `start` | `syscalls.c:465-471` | the first shell of a terminal is published while its flow is still on the interrupted process's stack: `KernelStacksExclusive` fails. The window exists because the build is unoptimised (`Makefile`, `CFLAGS`): the operand `entry_location` is loaded between `sti` and `cli` |
| `launch` | `terminal.c:123-126` | a second Alt-Fn nests, and the pending shell opens in another terminal than intended: `LaunchOpensTerminal` fails with `MAX_NESTED = 2` |
| `background` | `syscalls.c:417-458, 250-251` | `execute` and the exit of a first shell work on the displayed terminal, not on the caller's: `RunningProcess`, `TerminalsStayActive` fail |
| `empty` | `keyboard.c:220` | ENTER in a terminal whose shell could not be started (the process table was full) dereferences the PCB of process -1: `NoKernelFault` fails |

`Windows = {}` is the kernel as long as none of these coincidences happens: every
safety property below holds, and is proved. The run `kernel_halt_window` opens
`halt`; any other window, put into `Windows` of `kernel_core.cfg`, breaks the
property named in its row. `kernel_promises` opens `empty`, whose fault stops the
machine and changes no table.

*Abstracted:* addresses within a stack (`KernelStack`), command parsing (here a
call of `execute` either names an executable or changes nothing; `Session`),
screen contents (`Screen`), the interrupt controller and the flag (`Interrupts`),
and descriptors (`Files`).

### Video

`page136` of `KernelState` is where the page at 136 MB points: the screen, or the
buffer of a terminal. `vidmap`, the scheduler, and `switch_terminal` to a terminal
that has a shell write it; `execute` and `halt` leave it. `Video` adds the history variable `mapped`, the programs that rely on
it. Two moments leave the page wrong until the next context switch; with
`VideoWindows = {}` a program that meets one relies on the page no more:

| Window | Where | What goes wrong there |
|---|---|---|
| `vidmap` | `syscalls.c:535` | `vidmap` of a program whose terminal is not displayed maps the screen |
| `full` | `terminal.c:123-126` | Alt-Fn to an empty terminal when no process number is free: `execute` returns -1 and nobody maps the page anew |

With either open `DrawsOnOwnTerminal` fails.

### KernelStack

`execute` saves in `parent_ksp` an ESP that lies below its own frames, and `halt`
loads it into `tss.esp0`. The next system call of the parent starts there, and so
on: each command costs `FRAMES` bytes, until a context switch sets `tss.esp0` to
the top again. With only the first terminal open there is none. `FRAMES` = 488 is a
lower bound of what one round pushes (the two local arrays and the saved
registers), `STACK_ROOM` = 7584 is the 8 KB less the PCB at the end.

### Interrupts

A kernel stack is a sequence of frames (which handler, how far, what flag it
returns to); code with the flag clear is one step, with the `sti` or `iret` that
ends it. `Pic` has the masks twice, as the code has them (`master_mask`,
`slave_mask` in memory, `imr` in the chips), the requests (`irr`) and the lines in
service (`isr`). A device raises a request only after its data has been read,
which is why the RTC handler has to read register C. `MAX_DEPTH` bounds the frames;
the code has no bound. `execute` called by Alt-Fn, inside the keyboard handler,
leaves its frame on the interrupted stack, and the scheduler comes back to it
later, in the middle of that handler. `disable_irq` has no caller and is left out;
so is Alt-Fn during boot.

Boot is interruptible from the `sti` in `entry` on (`kernel.c:164`; the comment
there says "Disable interrupts"). Two things can strike: a line without a handler
while the chips have forgotten their masks (`NoStrayVector` says that this moment
ends with the first `enable_irq`), and a key between `paging_init` and
`init_terminal`, which is stored through the null `key_buffer`. In both cases
`fault` stops the machine.

### Session

One terminal, from the prompt to the report: a typed line is its words and where
it has more than one space; `execute` takes it apart, looks the name up and starts
the program; `shell`, `cat`, `ls`, `grep`, `hello`, `counter`, `testprint` and
`syserr` are modelled one system call at a time over the actions of `Files`; the
value of `halt` is what the shell reports. `last` is the history of that report.
Programs are not assumed to keep any discipline over `directoryLoc`: that these
programs do is what `PrintsAll` shows.

`Spaces` opens what `execute` does not parse (`syscalls.c:318`): with `"leading"`
spaces the name's terminator is put too far to the right, with a `"double"` space
the argument is empty. With either, `ReportsRight` fails. A line whose argument
exceeds the arrays of `execute` is a listed hazard and not modelled.

Three places are narrower than the code. The ELF check of an empty or short file,
of `.` or of `rtc` looks at bytes of an uninitialised buffer or of inode 0
(`syscalls.c:366-370`); the model refuses such a file, which assumes that those
bytes are not the ELF magic. `wrote` is what a program passes to `write`;
`terminal_write` ignores the length (`terminal.c:219`), so the terminal may show
stale bytes after it. `grep` skips every name that begins with a dot
(`ece391grep.c:89`); `.` is the only one in an image.

### TermInput

One process per terminal calls `terminal_read` again and again; every iteration
of its wait, copy and clear loops is a step, because the call runs with
interrupts enabled. Keys and Alt-Fn come at any step that the constant `Races`
allows: `"typeahead"` lets keys in after ENTER until the line is returned,
`"switch"` lets Alt-Fn in. Both races are real and break the properties;
without them the line discipline is correct. `pending` is the history of what was
typed.

### Screen and Keyboard

A screen is a cursor and a grid of characters. `screen` is video memory with
`screen_x`, `screen_y`; `terminal[t]` is the buffer and `pos_x`, `pos_y` of a
terminal; `switch_terminal` moves one to the other. The output functions exist
twice in `lib.c`, and so they do here. `text` is the history that the screens are
compared with: the last lines of a typewriter with a right margin.

`Keyboard` puts the interrupt handler in front: `stat` holds the four `.._stat`
variables, `held` is the history of what the user's fingers do. There are two shift
keys but one Control and one Alt key: the right-hand ones send the same code (after a
prefix that the handler does not know), and holding both would go wrong as two
shifts do. Two windows are
closed in the `console` run, because the code does not survive them:

| Window | Where | What goes wrong there |
|---|---|---|
| `ctrl_l` | `keyboard.c:207`, `lib.c:170` | Ctrl-L in the middle of a line leaves the line in the buffer and the cursor at the top; BACKSPACE then computes row -1, which scrolls the screen and puts the cursor in the last row: `ScreenShowsText` fails |
| `two_shifts` | `keyboard.c:110` | releasing one of two held shift keys ends the shift: `ModifiersFollowKeys` fails |

What programs write is the format of `printf` (`terminal.c:219`): `Printed` drops
a percent sign and the character after it, and with such a text among `Texts`
`ScreenShowsText` fails as well. Directives that take an argument would print
whatever lies on the stack; they are left out.

### Files

A byte is named by the data block and offset it is stored at, so "the read
returns the file" needs no contents. `read_data` is one step per block;
`directory_read` is two (it reads `directoryLoc`, copies, and increments).
`Listings` opens the two uses that the single `directoryLoc` cannot support:
`"shared"` listings and `"abandoned"` ones; with either, `ListingInOrder` fails.
The model keeps the word size (`WORD`) of offsets: the position -1 that a failed
read leaves is the largest unsigned word.

That `length + offset` (`filesys.c:229-230`) does not wrap around is assumed, in
`FilesAssumption`, not checked: the code takes any `nbytes`. The programs pass the
sizes of their buffers (1024 at most) and files are far below 2^31 bytes, so the
sum stays below 2^32. With a negative `nbytes` -k, at position k or later, the
sum would wrap and the request would not be cut to the end of the file.

### Rtc

The port accesses of `rtc_set_freq` are separate steps, since the driver selects
a register and then accesses it with interrupts on, and the handler selects
register C. `Races = {"tick"}` lets the handler run in between, and then the rate
goes to the wrong register: `FrequencyInForce` fails (`rtc.c:153`). An unsupported
frequency leaves the local `rate` uninitialised; `NewA` has every outcome, and
the runs use supported frequencies and ignored ones (2048 and up). That `init_rtc`
writes the value of register A, with bit 0x40 set, into register B is left out: no
property depends on B.

## 3. Runs

| Run | Bounds | Shows |
|---|---|---|
| `kernel_core` | 4 processes, 3 terminals, no windows | types, `KernelInv`, and the safety and action properties of `Kernel` |
| `kernel_promises` | 3 processes, 3 terminals, `empty` open, fair | `Kernel` implements `ProcessStacks`; every terminal with a shell is scheduled; programs draw on their own terminal |
| `kernel_halt_window` | `halt` | **violated** `HaltReturnsToParent`: Alt-Fn reuses the freed process number before `halt` has read its `parent_ksp` |
| `kernel_stack` | 3 processes, the real sizes | **violated** `EntersAbovePcb`: 15 commands in the only open terminal |
| `interrupts` | 2 terminals, the lines of timer, keyboard, RTC and one more, 2 frames, fair | EOI before `sti`, preemptible programs, masks, and every request served |
| `session` | 3 processes, the real 8 descriptors, 8 programs, a text of 3 bytes in blocks of 2, fair | status and output of every command line; the prompt returns |
| `input_line` | 2 terminals, 2 keys, buffer of 2 | every line reaches its own reader |
| `input_wakeup` | 2 terminals, buffer of 1, both races, fair | ENTER wakes the reader |
| `input_switch_race` | Alt-Fn after ENTER | **violated** `OwnInput` |
| `console` | 2 terminals of 2 x 2 characters, a line of 1 key, control, alt, two shift keys, Caps Lock | every terminal shows its own text; no modifier is lost or stuck |
| `files` | 2 processes with 2 free descriptors, a good and a damaged file of 5 bytes in blocks of 2 | reads follow the file, listings are in order, descriptors do not interfere |
| `rtc_clock` | 2 terminals, 3 frequencies, fair | the frequency set last is in force; ticks end reads |

Why the bounds are enough. Four processes on three terminals have a chain of
two next to two single shells, a full table, and a chain of four in one
terminal; three terminals are the system's own number (`MAX_TERM`), so the round
robin is the real one. `MAX_NESTED = 1` loses nothing when the `launch` window is
closed (the invariant shows `nested <= 1`). A buffer of two keys has an empty, a
partly filled and a full state, and the newline's extra cell; two terminals have
all the combinations of displayed and not displayed, reading and not. `input_wakeup`
asks for `num_bytes = 1`: what is copied does not influence who is woken. The
files span three blocks and the requests of 3 bytes start and end inside blocks,
cross them, and overrun the end.

A screen of two rows of two characters wraps, scrolls and, over ENTER and
BACKSPACE, goes back to the row above. `ScreenAssumption` keeps the proportion
that matters: a line is too short to be erased back beyond the first row, as 24
rows of 80 cells are for the keys a line may hold. The copy of its screen that
a displayed terminal has in its own buffer is overwritten before it is read, so
the run's `VIEW` leaves it out.

Two frames on a stack have a handler inside a handler's tail and inside a system
call; two terminals have a shell launched from the keyboard handler and the switch
back into it. One line of the slave without a handler (14) next to the RTC covers
the stray vectors and the cascade. In `session` three processes are a shell, a
shell run from it and a program, and the table full. Its lines are every pair of a
name (programs, a text, the directory, the clock, a missing file, `exit`) and an
argument; `hello`, `counter` and `syserr` wait for input of their own.

The process numbers and terminals of `Kernel` are ordered by the code (lowest
free slot, round robin), so no symmetry is used there; terminals, keys and
processes are interchangeable in `TermInput` and `Files`.

Fairness. *Kernel*: the PIC latches the timer request until interrupts are
enabled, so a tick that is enabled again and again is taken (strong fairness).
Leaving `execute` is a handful of instructions, far shorter than the time between
ticks or keystrokes, so each terminal gets to its `iret`. Straight-line kernel
code makes progress. Programs and the user owe nothing. *TermInput*: the round
robin gives every reader its steps; nobody owes a key. *Rtc*: every process gets
its steps, and the chip ticks as long as its divider runs; the request is latched.
*Interrupts*: handler and boot code goes on, also when other interrupts come again
and again in between, since they are milliseconds apart; the RTC is periodic; a
request that the controller presents again and again is taken. Priorities are
fixed, so `RequestsServed` promises the timer service unconditionally, and the
keyboard and the RTC only if no line above them asks for ever. How long a program
stays in a system call is left open. *Session*: the terminal gets its turns; the
user owes no line.

Every property of a passing run has a mutant, an operator defined in the module
before the one it replaces and commented "Mutant", that makes TLC find the
property violated.

## 4. Proofs

`KernelProofs` proves, for all values of the constants that satisfy
`ConstantsAssumption` (any number of processes, at least two terminals):

* `TypeCorrect`: `TypeOK`, for any choice of `Windows`;
* `ShellsStay`: `TerminalsStayActive`, whenever `"background"` is not in
  `Windows` - so it survives the other four races (so no run repeats
  it with them open);
* for `Windows = {}`: `KernelInv`, `RunningProcess`, `ProcessForest`,
  `KernelStacksExclusive`, `SavedContextsLive`, `NoKernelFault`,
  `HaltReturnsToParent`, `LaunchOpensTerminal`.

The argument. None of these properties is inductive. `HaltReturnsToParent`, say,
needs that `parent_ksp` of the halting process is the parent's program context,
which needs that the parent has been waiting in `execute` ever since, which needs
that it is not the active process of any terminal. The invariant therefore joins
three things: `ProcessForest` (the tables), `FlowInv` (what the CPU is doing, and
that paging and TSS agree with it) and `SavedFlow` (what each switched-out
terminal will resume). `LaunchInv` adds that a pending launch is for an empty
terminal. In `ProcessForest`, "a first shell that is the active process is the
only process of its terminal" is an induction along the chain of parents, which a
step cannot see; `IInv` hides a ghost `depth` in an existential, a strictly
increasing rank along parents (`KernelForest(depth)`), and each step that changes
the tables provides the new ranking (lemmas `ForestFirst`, `ForestCall`,
`ForestReturn`, `ForestExit`). One lemma per action then shows that it preserves
the flow part, and the theorems follow from `IInv`.

`KernelRefinementProofs` proves `DrawsOnOwnTerminalHolds` for `Windows = {}` and
`VideoWindows = {}`: `DrawsOnOwnTerminal`, for any number of processes and
terminals. The property alone is not inductive, because the kernel sets the page
long before the program runs again: `PageInv` says that the page is right for the
executing terminal as soon as one of its processes relies on it, whatever the CPU
is doing, and that only allocated processes rely on it. The steps that change the
page or the displayed terminal have a lemma each (`ExecutePage`, `LaunchPage`,
`TimerPage`), the others share `OtherPage`; `IInv` of `KernelProofs` supplies which
terminal a flow belongs to.

It also proves `StacksImplemented`: for `Windows = {}`, and any
number of processes and terminals, `Spec => ImplementsProcessStacks`
(`VideoStacksImplemented` says it of the specification with the history variable,
which the run checks). The mapping walks the parents of an active process with the
recursive function `ancestry`, and the proof first gets rid of the recursion:
`GenerationsExist` shows that it has a solution, `PrefixOfChain` that from any process
of a sequence linked by parents it gives the part of the sequence up to that process
(both by a least counterexample), `ChainFits` that no such sequence is longer than the
process table (pigeonhole), so that `ancestry` goes back far enough. Hence
`StackIsChain`: any sequence that satisfies `Chain` is the stack of its terminal.
The invariant `ChainsInv`, every terminal in use has one, is added to `IInv`.
`ChainFirst`, `ChainCall`, `ChainReturn` and `ChainKept` say what execute and halt do to
chains, and one lemma per kind of step (`CallRefines`, `ReturnRefines`,
`RestartRefines`, `LaunchRefines`, `TimerRefines`, `SwitchRefines`, `EnterRefines`,
`CrashRefines`) finds the abstract action. `stop` and ENTER are stuttering steps. The
run has the window `empty` open too, whose page fault is the abstract `Crash`; that
case is only model-checked.

`InterruptsProofs` proves all five safety properties of the run for every set of
terminals, lines and depth of frames, with no further hypothesis: `TypeOK`,
`InterruptsUnblocked`, `ProgramsPreemptible`, `NoStrayVector`, `MasksAgree`. The
invariant `IInv` has to say what the interrupt flag is at every point of every
frame, on the stack that runs (`FlowInv`) and on those that are switched out
(`SavedInv`): each frame below the top was interrupted where the flag was set, and
the frame on top tells whether its EOI has been sent and whether the flag is
clear. `MaskInv` follows the masks through boot. A flow that leaves one stack for
another (the tick, the launch of a shell inside the keyboard handler) moves from
`FlowInv` to `SavedInv` and back; those steps are the long ones.

`TermInputProofs` proves `TypeOK` with any races, and with `Races = {}`
`BufferMatchesTyped`, `IndexInBuffer`, `OwnInput` and the action property
`LineDelivered`, for any terminals, keys, buffer size and `num_bytes`. Closed races
are what makes "the displayed terminal is the reader's own" an invariant between
ENTER and the return of the line; `ReadInv` says it for each point of
`terminal_read`, with how far the copy and the clear loop have come, and `LineInv`
relates the buffers and indices to the history. `InputAssumption` has that the
newline is not one of the `Keys`, which the key table guarantees.

`FilesProofs` proves for every image and every set of processes:
`ReadsFollowFile` and the action property `OpenFilesKept` whatever is done to the
directory; `TypeOK` unless two descriptors list at a time; `ListingInOrder` for
`Listings = {}`. `FileInv` says where a read in progress stands: which bytes it has
copied, that they continue what the descriptor has read before, and that block and
offset are the quotient and remainder of the position. `StdOK` keeps descriptors 0
and 1, `DirInv` says who is listing, `OrderInv` that its history is the first
`directoryLoc` names. `FilesAssumption` has the types that the image gives the
numbers, and that the unsigned sum `length + offset` does not wrap around (see Files
in section 2): the theorems say nothing of a negative `nbytes`.

`RtcProofs` proves `TypeOK`, and `FrequencyInForce` for `Races = {}` and
`Freqs \subseteq Supported` (any number of terminals): `ClockInv` follows the bits of
register A through the port accesses of `rtc_set_freq`, whose calls do not overlap
with the handler.

`KeyboardProofs` proves for screens of every size, any terminals and any output:
`TypeOK` (every cursor stays on its screen) and the action property
`NothingTypedWithAltOrCtrl` without hypothesis; `ModifiersFollowKeys` when
`"two_shifts"` is not among the `Windows`; and `ScreenShowsText` when `"ctrl_l"` is
not and no glyph is a percent sign. For the last, `ShowInv` adds to the property
that a text always fits its screen, and that the cells before the cursor are at
least the keys of the line (`Room`), so that BACKSPACE is never at the top left
corner; there is one lemma per output function (`NewLineShows`, `GlyphShows`,
`EraseInLine`, `EraseAtMargin`, ...). What a program writes is a fold over its
text. An induction theorem cannot be instantiated by the provers, but a least
counterexample can be taken (`LeastNumber`): so `IterateExists` shows that the
recursion of `FoldLeft` has a solution, `IterateRuns` turns it into a run, and
`RunStays` is the invariance rule for runs. `KeyboardAssumption` has that Control and
Alt are not shift keys.

`SessionProofs` proves `ReportsRight` and `PrintsAll` for `Spaces = {}`, every image,
set of words and arguments, number of processes and number of descriptors above
three. `SessionInv` adds to `FdInv` of `FilesProofs` the chain of processes
(`ChainInv`: whoever waits is a shell that holds nothing, and process numbers that
are free hold nothing) and, for the program that runs, where it stands
(`ProgramOK`): `Printing` says of `cat` and `ls` that what they have written is what
their one descriptor has returned, and that a listing has come as far as
`directoryLoc`; `Grepping` that descriptor 2 lists the directory and 3, when it is
open, is the entry before `directoryLoc`, and that the names searched are those of
the files before it; `Calling` that what is left of a script of `syserr` is a
sequence of calls that must be refused to a process that holds nothing, with what is
left of `err_open_lots` in between, and `LotsAt` which descriptors that test holds
after each of its calls. Every state but the middle of a listing has
`directoryLoc = 0`, and that is why the programs get along with the one variable.
`StepOfOthers` and `GoOn` say once what a step of the running program leaves alone;
then one lemma per action (`ShellOK`, `CatMainOK`, `GrepCloseOK`, `SyserrCallOK`, ...)
shows that it keeps `SessionInv`. What `grep` has to search is a recursive function
of the directory, unfolded with a least counterexample (`FilesAmongUnfolds`).
`ImageAssumption` has what the proof needs of the image, and TLC evaluates it on the
run's: names are distinct, the directory is the entry `"."`, every file is
consistent, and the three names that `syserr` expects not to find are missing.

The inductive invariants of `Interrupts`, `Files`, `Keyboard` and `Session` were checked
by TLC on the run's instance before they were proved. The hypotheses are the closed windows of section 2, under which the
runs check the same properties; opened, each breaks the property named there.

Only model-checked: the liveness properties (`EveryTerminalScheduled`,
`EnterWakesReader`, `TickEndsRead`, `RequestsServed`, `RtcKeepsTicking`,
`PromptReturns`), since the prover has no rule for fairness; and `KernelStack`, whose
property fails. Every invariant and every action property of a passing run is the
statement of a theorem.

## 5. Not modelled

* `pingpong` and `fish`, which never end, and `sigtest`, which ends in the page
  fault that `Kernel` has as `exception`; in `Kernel` every process may make any
  system call at any time. The emulation layer is for running programs on Linux.
* `set_handler` and `sigreturn` (return -1), `disable_irq` (no caller).
* What `entry` prints, the multiboot information, and the loading of the segment
  descriptors; the static page and descriptor tables are data.
* The string and memory helpers of `lib.c`, which keep no state, and the `printf`
  directives that take an argument.
* `tests.c`, and the host tools `createfs` and `elfconvert`.

## 6. Plan

1. The depth of `tss.esp0` once another terminal is open: how many commands fit
   between two ticks.
