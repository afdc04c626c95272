------------------------------- MODULE Session -------------------------------
(***************************************************************************)
(* A terminal's session: the shell reads a line, execute parses it and runs *)
(* the program it names, the program makes its system calls and its halt    *)
(* gives the shell a status to report.  The programs are those of           *)
(* src/syscalls, each step up to and including a system call of theirs; the *)
(* calls themselves are the actions of Files.  With one terminal the        *)
(* processes form a chain, and process k - 1 is the k-th of it.             *)
(*                                                                          *)
(* A line is its words and where it has more than one space.  What programs *)
(* print is left out but for the names and the bytes that they got from the *)
(* file system.  Nothing is assumed of how they use the directory: both of  *)
(* the Listings are allowed.                                                *)
(***************************************************************************)
EXTENDS Files, FiniteSets

CONSTANTS
    NUM_MAX_PROCESSES,
    Words,          \* the first words of the lines that are typed
    Arguments,      \* their second words, shorter than MAX_BUFFER_SIZE
    ExitWords,      \* the words that begin with "exit"
    Executables,    \* the names of the files that begin with the ELF magic
    Spaces          \* subset of {"leading", "double"}: see Lines

VARIABLES
    chain,      \* the running programs, the shell of the terminal first
    last        \* history: the latest status that a shell got from execute

sessionVars == <<vars, chain, last>>

Garbled == "?"
Empty   == ""

ASSUME SessionAssumption ==
    /\ NUM_MAX_PROCESSES \in Nat \ {0}
    /\ Procs = 0 .. NUM_MAX_PROCESSES - 1
    /\ "exit" \in ExitWords /\ ExitWords \subseteq Words \ Names
    /\ {"shell"} \subseteq Executables /\ Executables \subseteq Names
    /\ Listings = {"shared", "abandoned"}
    /\ Garbled \notin Names \cup ExitWords
    /\ Spaces \subseteq {"leading", "double"}

\* The image that createfs builds from a directory: names are distinct, the
\* directory is the entry ".", the blocks of every file are there, and the
\* three names that syserr expects not to find are not.  A process can hold
\* two descriptors besides stdin and stdout.
ASSUME ImageAssumption ==
    /\ \A d, e \in DOMAIN Dentries : Dentries[d].fileName = Dentries[e].fileName => d = e
    /\ "." \in Names
    /\ \A e \in DOMAIN Dentries :
          /\ Dentries[e].filetype = "dir" <=> Dentries[e].fileName = "."
          /\ Dentries[e].filetype = "file" => Consistent(Dentries[e].inodeNumber)
    /\ Empty \notin Names /\ "helloo" \notin Names /\ "shel" \notin Names
    /\ NUM_MAX_OPEN_FILES > 3

-----------------------------------------------------------------------------
(***************************************************************************)
(* Lines and how execute takes them apart.                                  *)
(***************************************************************************)
Lines ==
    [words : {<<>>} \cup {<<w>> : w \in Words} \cup (Words \X Arguments),
     leading : BOOLEAN \ (IF "leading" \in Spaces THEN {} ELSE {TRUE}),
     double : BOOLEAN \ (IF "double" \in Spaces THEN {} ELSE {TRUE})]

Word(l, k) == IF k <= Len(l.words) THEN l.words[k] ELSE Empty

\* The word is copied to the start of parsed_cmd, but the index of its
\* terminator counts the leading spaces: between them the name may go on with
\* what is on the stack.  "exit" is recognised by its first four characters.
parsed_cmd(l) ==
    {Word(l, 1)} \cup (IF l.leading /\ Word(l, 1) \notin ExitWords THEN {Garbled} ELSE {})

\* The argument is what follows one separator up to the next.
arg(l) == IF l.double THEN Empty ELSE Word(l, 2)

\* A program as execute starts it: at main, with the argument in argbuf.
Program(name, argbuf, l) ==
    [name |-> name, argbuf |-> argbuf, line |-> l, at |-> "main", status |-> 0,
     dir |-> -1, file |-> -1, wrote |-> <<>>, todo |-> <<>>, cnt |-> 0, failed |-> {}]

Shell    == Program("shell", Empty, [words |-> <<>>, leading |-> FALSE, double |-> FALSE])
NoReport == [line |-> Shell.line, rval |-> 0, wrote |-> <<>>]

SessionInit == Init /\ chain = <<Shell>> /\ last = NoReport

Top  == chain[Len(chain)]
Self == Len(chain) - 1

Running(name, at) == Top.name = name /\ Top.at = at

\* The running program goes on as prog.
Goto(prog) == chain' = [chain EXCEPT ![Len(chain)] = prog] /\ UNCHANGED last

\* halt: the program's shell gets the status; the first shell is started anew.
halt(status) ==
    /\ halt_execute(Self)
    /\ IF Len(chain) = 1
       THEN chain' = <<Shell>> /\ last' = NoReport
       ELSE /\ chain' = SubSeq(chain, 1, Len(chain) - 1)
            /\ last' = [line |-> Top.line, rval |-> status, wrote |-> Top.wrote]

\* execute: "exit" halts its caller, the shell; a name that is not a program,
\* and a process table that is full, are refused.
execute(l, name) ==
    \/ name \in ExitWords /\ halt(0)
    \/ /\ name \notin ExitWords
       /\ name \in Executables /\ Len(chain) < NUM_MAX_PROCESSES
       /\ chain' = Append(chain, Program(name, arg(l), l))
       /\ last' = NoReport
       /\ UNCHANGED vars
    \/ /\ name \notin ExitWords
       /\ name \notin Executables \/ Len(chain) = NUM_MAX_PROCESSES
       /\ last' = [line |-> l, rval |-> -1, wrote |-> <<>>]
       /\ UNCHANGED <<vars, chain>>

\* The shell hands every line to execute: its newline is still there, so that
\* it is neither empty nor the "exit" the shell looks for.
shell == Running("shell", "main") /\ \E l \in Lines : \E name \in parsed_cmd(l) : execute(l, name)

-----------------------------------------------------------------------------
(***************************************************************************)
(* Calls that several programs make.                                        *)
(***************************************************************************)
\* The program stops with a status: main returns, and _start calls halt.
Exit(prog, status) == [prog EXCEPT !.at = "exit", !.status = status]

exit == Top.at = "exit" /\ halt(Top.status)

\* ece391_open: the program goes on at the label with the descriptor in its
\* variable held, or stops with error.
Open(name, error, label, held) ==
    \/ \E fd \in Fds :
          /\ name \in Names /\ FreeFd(Self, fd)
          /\ sys_open(Self, name)
          /\ Goto([Top EXCEPT !.at = label, ![held] = fd])
    \/ /\ name \notin Names \/ \A fd \in Fds : ~FreeFd(Self, fd)
       /\ Goto(Exit(Top, error))
       /\ UNCHANGED vars

\* ece391_getargs copies argbuf, or returns -1 if it is empty.
NoArgs == Top.argbuf = Empty /\ Goto(Exit(Top, 3)) /\ UNCHANGED vars

\* Mutant: a read of 0 bytes is not taken for the end of the file.
AfterRead_no_end(prog, fd, end) ==
    IF call'[Self] # Idle THEN [prog EXCEPT !.at = "copy"]
    ELSE IF fds'[Self][fd].file_position < fds[Self][fd].file_position THEN Exit(prog, 3)
    ELSE prog

\* Where a program goes on after ece391_read of fd: in the kernel that copies,
\* at its end if 0 was returned, out of main if it was -1.
AfterRead(prog, fd, end) ==
    IF call'[Self] # Idle THEN [prog EXCEPT !.at = "copy"]
    ELSE IF fds'[Self][fd].file_position < fds[Self][fd].file_position THEN Exit(prog, 3)
    ELSE end

\* ece391_read of fd until it returns or copies; rtc_read returns 0 after a
\* tick.
Read(fd, end) ==
    /\ \/ \E n \in NBYTES : sys_read(Self, fd, n)
       \/ fds[Self][fd].ops = "rtc" /\ UNCHANGED vars
    /\ Goto(AfterRead(Top, fd, end))

\* What the read in progress has added.
New(fd) == SubSeq(seen'[Self][fd], Len(seen[Self][fd]) + 1, Len(seen'[Self][fd]))

\* The read goes on in the kernel, and the program writes what it returns;
\* grep goes on to search the file that it got the name of.
copy ==
    /\ Top.at = "copy"
    /\ copy_block(Self) \/ directory_next(Self)
    /\ LET fd == call[Self].fd IN
       Goto(IF call'[Self] # Idle THEN Top
            ELSE IF fds'[Self][fd].file_position < fds[Self][fd].file_position
                 THEN Exit(Top, 3)
            ELSE IF Top.name = "grep"
                 THEN [Top EXCEPT !.at = IF fd = Top.dir THEN "file" ELSE "data"]
            ELSE [Top EXCEPT !.at = "data", !.wrote = @ \o New(fd)])

-----------------------------------------------------------------------------
(***************************************************************************)
(* cat, ls and grep.                                                        *)
(***************************************************************************)
cat_main ==
    /\ Running("cat", "main")
    /\ \/ NoArgs
       \/ /\ Top.argbuf # Empty
          /\ Open(Top.argbuf, 2, "data", "file")

cat_data == Running("cat", "data") /\ Read(Top.file, Exit(Top, 0))

ls_main ==
    /\ Running("ls", "main")
    /\ Open(".", 2, "data", "dir")

ls_data == Running("ls", "data") /\ Read(Top.dir, Exit(Top, 0))

grep_main ==
    /\ Running("grep", "main")
    /\ \/ NoArgs
       \/ /\ Top.argbuf # Empty
          /\ Open(".", 2, "entry", "dir")

grep_entry == Running("grep", "entry") /\ Read(Top.dir, Exit(Top, 0))

\* The entry that was read is searched by do_one_file, unless it begins with a
\* dot, as only the directory does.
grep_file ==
    LET name == Last(seen[Self][Top.dir]) IN
    /\ Running("grep", "file")
    /\ \/ name = "." /\ Goto([Top EXCEPT !.at = "entry"]) /\ UNCHANGED vars
       \/ /\ name # "."
          /\ Open(name, 3, "data", "file")

grep_data == Running("grep", "data") /\ Read(Top.file, [Top EXCEPT !.at = "close"])

\* The file has been searched to its end.
Searched == [Top EXCEPT !.at = "entry", !.wrote = Append(@, Last(seen[Self][Top.dir]))]

\* Mutant: do_one_file returns without closing.
grep_close_not == Running("grep", "close") /\ Goto(Searched) /\ UNCHANGED vars

grep_close == Running("grep", "close") /\ sys_close(Self, Top.file) /\ Goto(Searched)

\* hello and counter read a line and print; testprint only prints.
hello     == Running("hello", "main") /\ Goto(Exit(Top, 0)) /\ UNCHANGED vars
counter   == Running("counter", "main") /\ Goto(Exit(Top, 0)) /\ UNCHANGED vars
testprint == Running("testprint", "main") /\ Goto(Exit(Top, 0)) /\ UNCHANGED vars

-----------------------------------------------------------------------------
(***************************************************************************)
(* syserr: each of its tests is a sequence of calls that have to fail;      *)
(* err_open_lots counts those that do.                                      *)
(***************************************************************************)
NEG_FD == -1
BIG_FD == NUM_MAX_OPEN_FILES

Call(name, x) == <<[call |-> name, on |-> x]>>
OnEach(name, a, b) == [i \in 1 .. b - a + 1 |-> [call |-> name, on |-> a + i - 1]]

err_neg_fd      == Call("read", NEG_FD) \o Call("write", NEG_FD) \o Call("close", NEG_FD)
err_big_fd      == Call("read", BIG_FD) \o Call("write", BIG_FD) \o Call("close", BIG_FD)
err_open_lots   == [i \in 1 .. NUM_MAX_OPEN_FILES - 1 |-> [call |-> "open_lots", on |-> "."]]
                       \o OnEach("close_lots", 2, NUM_MAX_OPEN_FILES - 1)
                       \o Call("count", 1)
err_open        == Call("open", "helloo") \o Call("open", "shel") \o Call("open", Empty)
err_unopened    == OnEach("close", 0, NUM_MAX_OPEN_FILES - 1)
                       \o OnEach("read", 2, NUM_MAX_OPEN_FILES - 1)
                       \o OnEach("write", 2, NUM_MAX_OPEN_FILES - 1)
err_vidmap      == Call("vidmap", "NULL") \o Call("vidmap", "_4MB")
err_stdin_out   == Call("write", 0) \o Call("read", 1)
err_syscall_num == Call("int80", 9) \o Call("int80", -1) \o Call("int80", 0)

Tests == <<err_neg_fd, err_big_fd, err_open_lots, err_open, err_unopened, err_vidmap,
           err_stdin_out, err_syscall_num>>

\* The calls of a test, each with the number of the test.
Numbered(k) == [i \in DOMAIN Tests[k] |-> [test |-> k, do |-> Tests[k][i]]]

AllTests == Numbered(1) \o Numbered(2) \o Numbered(3) \o Numbered(4)
                \o Numbered(5) \o Numbered(6) \o Numbered(7) \o Numbered(8)

\* The calls of the chosen test, or of all.
Script(select) ==
    CASE select = 0 -> AllTests
      [] select \in DOMAIN Tests -> Numbered(select)
      [] OTHER -> <<>>

syserr_main ==
    /\ Running("syserr", "main")
    /\ \E select \in 0 .. Len(Tests) + 1 :
          Goto([Top EXCEPT !.at = "calls", !.todo = Script(select)])
    /\ UNCHANGED vars

InTable(fd) == fd \in Fds /\ IsOpen(Self, fd)

Closes(fd) == fd >= 2 /\ InTable(fd)

\* The operations of a descriptor that are not has_error or a constant -1.
CanRead(fd)  == InTable(fd) /\ fds[Self][fd].ops \in {"stdin", "rtc", "dir", "file"}
CanWrite(fd) == InTable(fd) /\ fds[Self][fd].ops \in {"stdout", "rtc"}

\* The call does not return -1.
Succeeds(c) ==
    CASE c.call \in {"open", "open_lots"} ->
            c.on \in Names /\ \E fd \in Fds : FreeFd(Self, fd)
      [] c.call \in {"close", "close_lots"} -> Closes(c.on)
      [] c.call = "read"   -> CanRead(c.on)
      [] c.call = "write"  -> CanWrite(c.on)
      [] c.call = "vidmap" -> c.on \notin {"NULL", "_4MB"}
      [] c.call = "int80"  -> c.on \in 1 .. 8
      [] c.call = "count"  -> Top.cnt # c.on

\* What the call changes: the reads and writes of the tests are refused.
Effect(c) ==
    IF c.call \in {"open", "open_lots"} /\ Succeeds(c) THEN sys_open(Self, c.on)
    ELSE IF c.call \in {"close", "close_lots"} /\ Succeeds(c) THEN sys_close(Self, c.on)
    ELSE UNCHANGED vars

syserr_call ==
    LET c == Head(Top.todo).do IN
    /\ Running("syserr", "calls") /\ Top.todo # <<>>
    /\ Effect(c)
    /\ Goto([Top EXCEPT !.todo = Tail(@),
                !.cnt = IF c.call = "open_lots" /\ ~Succeeds(c) THEN @ + 1 ELSE @,
                !.failed = IF c.call \notin {"open_lots", "close_lots"} /\ Succeeds(c)
                           THEN @ \cup {Head(Top.todo).test} ELSE @])

\* Every test that failed adds 2 to the status.
syserr_end ==
    /\ Running("syserr", "calls") /\ Top.todo = <<>>
    /\ Goto(Exit(Top, 2 * Cardinality(Top.failed)))
    /\ UNCHANGED vars

-----------------------------------------------------------------------------
\* Steps that wait for the user to type a line, and all others.
Typed == shell \/ hello \/ counter \/ syserr_main

Step ==
    \/ exit \/ copy
    \/ cat_main \/ cat_data \/ ls_main \/ ls_data
    \/ grep_main \/ grep_entry \/ grep_file \/ grep_data \/ grep_close
    \/ testprint \/ syserr_call \/ syserr_end

SessionNext == Typed \/ Step

\* The scheduler gives every terminal its turns, and an RTC tick comes.
SessionSpec == SessionInit /\ [][SessionNext]_sessionVars /\ WF_sessionVars(Step)

-----------------------------------------------------------------------------
Reported == last # NoReport
Typo(w)  == w \notin Executables

\* What the shell should be told of a line: -1 for what is not a program, 2 or
\* 3 for an argument that is missing or not the name of a file, otherwise 0.
Expected(l) ==
    IF Typo(Word(l, 1)) THEN -1
    ELSE IF Word(l, 1) \in {"cat", "grep"} /\ Word(l, 2) = Empty THEN 3
    ELSE IF Word(l, 1) = "cat" /\ Word(l, 2) \notin Names THEN 2
    ELSE 0

\* The status that a shell reports is the right one for the line that was
\* typed, whatever ran before in the same process numbers and descriptors: in
\* particular syserr finds nothing to complain of, and grep does not run out
\* of descriptors.
ReportsRight ==
    Reported => last.rval = IF Len(chain) = NUM_MAX_PROCESSES THEN -1 ELSE Expected(last.line)

AllNames == [e \in DOMAIN Dentries |-> Dentries[e].fileName]

\* The files among the first e entries that grep searches.
FilesAmong[e \in 0 .. Len(Dentries)] ==
    IF e = 0 THEN <<>>
    ELSE IF Dentries[e].fileName = "." THEN FilesAmong[e - 1]
    ELSE Append(FilesAmong[e - 1], Dentries[e].fileName)

Contents(name) ==
    LET d == Dentries[CHOOSE e \in DOMAIN Dentries : Dentries[e].fileName = name] IN
    CASE d.filetype = "file" -> [x \in 1 .. file_size[d.inodeNumber] |-> FileByte(d.inodeNumber, x - 1)]
      [] d.filetype = "dir"  -> AllNames
      [] d.filetype = "rtc"  -> <<>>

\* A cat, ls or grep that reports success has gone through the whole file, the
\* whole directory or every file but the directory, once and in order, though
\* all of them list the directory through the one directoryLoc.
PrintsAll ==
    Reported /\ last.rval = 0 =>
        CASE Word(last.line, 1) = "cat"  -> last.wrote = Contents(Word(last.line, 2))
          [] Word(last.line, 1) = "ls"   -> last.wrote = AllNames
          [] Word(last.line, 1) = "grep" -> last.wrote = FilesAmong[Len(Dentries)]
          [] OTHER -> TRUE

WaitsForUser == Top.at = "main" /\ Top.name \in {"shell", "hello", "counter", "syserr"}

\* The user gets to type again and again: no loop of a program over a file, the
\* directory or its tests goes on for ever.
PromptReturns == []<>WaitsForUser
=============================================================================
