---------------------------- MODULE MCFfiLibrary ----------------------------
(* Every place may hold nothing, a library of this source tree, or one     *)
(* that does not load; the override may name a file that is not there, and *)
(* the build tree may hold an older build, without the last entry point or *)
(* with a shorter struct.                                                  *)
EXTENDS FfiLibrary, TLC

File(set, file, absolute, loads, exports, structs) ==
    [set |-> set, file |-> file, absolute |-> absolute, loads |-> loads,
     exports |-> exports, structs |-> structs, table |-> <<"armv7m", "m7", None>>]

All == {Symbols[i] : i \in 1 .. Len(Symbols)}
Older == [Headers EXCEPT ![3] = SubSeq(@, 1, 10)]

Nothing == File(FALSE, FALSE, TRUE, FALSE, {}, Headers)
Missing == File(TRUE, FALSE, TRUE, FALSE, {}, Headers)
Broken == File(TRUE, TRUE, TRUE, FALSE, {}, Headers)
Good == File(TRUE, TRUE, TRUE, TRUE, All, Headers)
ByName == File(TRUE, FALSE, FALSE, TRUE, All, Headers)
OldCode == File(TRUE, TRUE, TRUE, TRUE, {Symbols[1]}, Headers)
OldStructs == File(TRUE, TRUE, TRUE, TRUE, All, Older)

AllDisks ==
    [override : {Nothing, Missing, Good}, tree : {Nothing, Good, OldCode, OldStructs},
     bundled : {Nothing, Broken}, system : {Nothing, ByName}]

TwoSymbols == <<"hw_connect", "hw_state_db">>
Alike == Permutations(Threads)
=============================================================================
