------------------------------ MODULE MCReport ------------------------------
(***************************************************************************)
(* Catalogues of up to three entries, whose paths are plain, absolute,     *)
(* climbing, full of bars and backslashes, broken by a control character   *)
(* or not UTF-8, and one entry of every mode and kind.                     *)
(***************************************************************************)
EXTENDS Report

MCCode == [LF |-> 10, ESC |-> 27, DEL |-> 127]
MCInvalid == {"bad1", "bad2"}
MCFarFuture == 2
MCToText == [n \in 0..4 |-> ToString(n)]

Plain(path) ==
    [path |-> path, kind |-> "File", mode |-> 420, uid |-> 1, gid |-> 2, size |-> 3,
     atime |-> 1, mtime |-> 2, ctime |-> None, target |-> None]

MCEntries ==
    {Plain(path) : path \in {
        <<"a">>, <<"/", "a", "|">>, <<"a", "/", ".", ".">>, <<".", ".", "\\">>,
        <<"a", "LF", "\\", "x">>, <<"bad1">>, <<"bad2">>, <<"?">>}}
    \cup {[Plain(<<"a">>) EXCEPT !.atime = 3, !.ctime = 4],
          [Plain(<<".", ".", "/", "ESC">>) EXCEPT !.mtime = 3, !.ctime = 2],
          [Plain(<<"DEL">>) EXCEPT !.kind = "Symlink", !.mode = 511, !.target = <<"|", "bad1">>]}

Alone == {[Plain(<<"a">>) EXCEPT !.mode = mode] : mode \in 0..4095}
         \cup {[Plain(<<"a">>) EXCEPT !.mode = 65535, !.kind = kind] : kind \in Kinds}

MCListings ==
    [entries : UNION {[1..n -> MCEntries] : n \in 0..3}, complete : BOOLEAN]
        \cup [entries : [1..1 -> Alone], complete : {TRUE}]
=============================================================================
