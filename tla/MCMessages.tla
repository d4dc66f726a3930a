----------------------------- MODULE MCMessages -----------------------------
(* Messages with strings of 24 characters instead of 260, and files on both *)
(* sides of every limit and filter: "v" is the volume, "t" an extension     *)
(* that gets no backup, ".p." a protected word and "/T/" a directory that   *)
(* gets no backup.                                                          *)
EXTENDS Messages, TLC

CONSTANTS b1, b2

MCChar == {".", "^", "~", "/", "B", "D", "v", "d", "m", "n", "a", "b", "p", "t",
           "T"}
MCVolume == <<"v", "v", "v", "v">>
MCProtectedWords == {<<".", "p", ".">>}
MCIgnoredExtensions == {<<"t">>}
MCIgnoredSubdirs == {<<"/", "T", "/">>}

Root == <<"/">>
Sub == <<"/", "d", "/">>
Temp == <<"/", "T", "/">>
MarkedDir == <<"/", ".", "^", "^", "^", ".", "/">>
Music == <<"/", "m", "m", "m", "m", "m", "/">>
Notes == <<"/", "n", "n", "n", "n", "n", "/">>
Deep(n) == [i \in 1 .. n |-> IF i \in {1, n} THEN "/" ELSE "d"]

Long(n) == [i \in 1 .. n |-> IF i = n - 1 THEN "." ELSE "a"]
Plain == <<"a", ".", "a">>

File(dir, name) == [dir |-> dir, name |-> name]

\* Files with nothing odd about them, in each kind of directory.
PlainFile ==
    {File(Root, Plain), File(Sub, Plain), File(Temp, Plain),
     File(Deep(22), Plain)}

\* In Music and Notes a name of three fits, one of four does not: its message
\* ends with the directory, and what follows in the block is from an earlier
\* message.
TightFile ==
    {File(Music, Plain), File(Music, Long(4)), File(Notes, Long(4))}

\* Files whose held path fills the message, does not fit it, or whose held
\* name does not fit NTFS; with marks at the end, inside and at the start.
OddFile ==
    {File(Root, Long(9)), File(Root, Long(10)), File(Root, Long(14)),
     File(Root, Plain \o RenameSuffix),
     File(Root, Plain \o RenameSuffix \o <<".", "a">>),
     File(Root, <<"^", "^", "^", ".", "a">>),
     File(Root, RenamePrefix \o <<"a">>),
     File(MarkedDir, Plain)}

\* Files that a filter picks out, before or after they have the marks.
FilteredFile ==
    {File(Root, <<"a", ".", "t">>), File(Root, <<"a", ".", "p", ".", "a">>),
     File(Root, <<"p", ".", "a">>), File(Root, <<"a", ".", "a", "~">>),
     File(Root, <<"a", "a">>)}

MCUserFile == PlainFile \cup TightFile \cup OddFile \cup FilteredFile

Symmetry == Permutations(Block)
=============================================================================
