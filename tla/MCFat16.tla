------------------------------ MODULE MCFat16 ------------------------------
(* Instances of Fat16 for TLC.  Bytes are small numbers, clusters hold two.  *)
EXTENDS Fat16, TLC

(* Characters: the letter a in its two cases *)
A == <<"A">>
AA == <<"A", "A">>
AdotA == <<"A", ".", "A">>
AAdotA == <<"A", "A", ".", "A">>

File(n, c, s) == [name |-> format_83(n), attr |-> "file", first |-> c, size |-> s]
Dir(n, c) == [name |-> format_83(n), attr |-> "dir", first |-> c, size |-> 0]
Label == [name |-> format_83(A), attr |-> "skip", first |-> 0, size |-> 0]
Deleted == [name |-> DeletedName, attr |-> "file", first |-> 0, size |-> 0]
End == NoEntry

(* The volume label is called A, file A has two clusters out of order, AA is *)
(* a directory of two clusters whose second holds A.A, and one root entry is *)
(* deleted.  Two clusters are free, and no root entry beyond the deleted.    *)
Crowded ==
    [fat |-> (0 :> EOC @@ 1 :> EOC @@ 2 :> EOC @@ 3 :> 6 @@ 4 :> EOC @@ 5 :> 2
              @@ 6 :> EOC @@ 7 :> 0 @@ 8 :> 0),
     root |-> <<Label, File(A, 5, 3), Deleted, Dir(AA, 3)>>,
     data |-> (2 :> <<3, 0>> @@ 3 :> <<Deleted, Deleted>> @@ 4 :> <<9, 0>> @@ 5 :> <<1, 2>>
               @@ 6 :> <<File(AdotA, 4, 1), End>> @@ 7 :> <<0, 0>> @@ 8 :> <<0, 0>>),
     files |-> (Spelled(A) :> <<1, 2, 3>> @@ Spelled(AA \o <<"/">> \o AdotA) :> <<9>>)]

(* Nothing but the start of the root directory *)
Empty ==
    [fat |-> [c \in 0 .. 8 |-> IF c < 2 THEN EOC ELSE FREE],
     root |-> <<End, End, End, End>>,
     data |-> [c \in 2 .. 8 |-> <<0, 0>>],
     files |-> [file \in {} |-> <<>>]]

BothImages == {Crowded, Empty}
CrowdedOnly == {Crowded}

W(n, d) == [name |-> n, data |-> d]
SomeWrites == {W(A, <<5>>), W(<<"a">>, <<6, 7, 8>>), W(AAdotA, <<4, 4, 4>>), W(AAdotA, <<>>),
               W(AdotA, <<1, 1, 1, 1>>)}
FewWrites == {W(A, <<6, 7, 8, 9, 9>>), W(A, <<5>>), W(AAdotA, <<4, 4, 4>>), W(AdotA, <<1>>)}
DirWrites == {W(AA, <<1>>), W(AAdotA, <<2, 2, 2, 2, 2>>)}

R(op, path, max) == [op |-> op, path |-> path, max |-> max]
SomeReads == {R("vfs_read_file", A, 0), R("vfs_read_file", AAdotA, 0),
              R("vfs_read_file_into", <<"a", "a", ".", "A">>, 2),
              R("vfs_read_file", <<"a", "a", "/", "/", "a", ".", "a">>, 0),
              R("vfs_list_dir", <<"A", "a", "/">>, 5)}
EmptyReads == {R("vfs_read_file", AAdotA, 0)}
FewReads == {R("vfs_read_file_into", AA \o <<"/">> \o AdotA, 2), R("vfs_read_file_into", A, 5)}
=============================================================================
