------------------------------ MODULE MCSession ------------------------------
(***************************************************************************)
(* Session for TLC: the directory, the clock, the programs and a text of    *)
(* three bytes in two blocks.                                               *)
(***************************************************************************)
EXTENDS Session

Programs == <<"shell", "cat", "ls", "grep", "hello", "counter", "testprint", "syserr">>

Entry(n, t, i) == [fileName |-> n, filetype |-> t, inodeNumber |-> i]

ImageDentries ==
    <<Entry(".", "dir", 0), Entry("rtc", "rtc", 0), Entry("text", "file", 1)>>
        \o [i \in DOMAIN Programs |-> Entry(Programs[i], "file", 2)]
ImageSizes    == [n \in 0 .. 2 |-> CASE n = 0 -> 0 [] n = 1 -> 3 [] n = 2 -> 1]
ImageBlocks   == [n \in 0 .. 2 |-> [k \in 0 .. 1 |-> IF n = 1 THEN 1 - k ELSE 2]]
ImagePrograms == {Programs[i] : i \in DOMAIN Programs}

TypedWords == ImagePrograms \cup {"exit", "text", ".", "rtc", "none"}
=============================================================================
