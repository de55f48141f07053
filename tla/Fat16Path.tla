----------------------------- MODULE Fat16Path -----------------------------
(* How kernel/src/fat16.c splits a path and turns a component into the 8.3   *)
(* name of a directory entry, and how a listing turns it back.  A path is a  *)
(* sequence of characters.                                                   *)
EXTENDS Integers, Sequences, SequencesExt

CONSTANTS
    Lower, Upper,    \* letters: Upper is the upper case of Lower
    BASE, EXT        \* characters of a name (8) and of an extension (3)

ASSUME PathAssumption == Lower # Upper /\ BASE \in Nat \ {0} /\ EXT \in Nat \ {0}

Chars == {Lower, Upper, ".", "/"}
Component == BASE + 1 + EXT    \* what component[13] holds

-----------------------------------------------------------------------------
Before(s, stops) ==
    LET i == SelectInSeq(s, LAMBDA c : c \in stops)
    IN  IF i = 0 THEN s ELSE SubSeq(s, 1, i - 1)
First(s, n) == SubSeq(s, 1, IF Len(s) < n THEN Len(s) ELSE n)
Drop(s, n) == SubSeq(s, n + 1, Len(s))
Upcase(s) == [i \in 1 .. Len(s) |-> IF s[i] = Lower THEN Upper ELSE s[i]]

(* The name: what is before the first dot, cut at 8.  The extension: what    *)
(* follows that dot, further dots included, cut at 3.                        *)
format_83(name) ==
    LET base == Before(name, {"."})
    IN  [base |-> Upcase(First(base, BASE)),
         ext |-> Upcase(First(Drop(name, Len(base) + 1), EXT))]

(* A line of fat16_list_dir() *)
Line(entry) == entry.base \o IF entry.ext = <<>> THEN <<>> ELSE <<".">> \o entry.ext

(* The loop that fills component[] stops at '/' or when it is full *)
NextComponent(p) == First(Before(p, {"/"}), Component)

(* Mutant: one '/' is skipped where there may be more *)
MutSkipOneSlash(p) ==
    LET rest == Drop(p, Len(NextComponent(p)))
    IN  IF rest # <<>> /\ rest[1] = "/" THEN Tail(rest) ELSE rest

(* ... and the loop after it skips every '/' *)
AfterComponent(p) ==
    LET rest == Drop(p, Len(NextComponent(p)))
        i == SelectInSeq(rest, LAMBDA c : c # "/")
    IN  IF i = 0 THEN <<>> ELSE Drop(rest, i - 1)

(* resolve_parent_dir(): the components looked up as directories, then the leaf *)
RECURSIVE ParentComponents(_)
ParentComponents(p) ==
    LET rest == AfterComponent(p)
    IN  <<NextComponent(p)>> \o IF rest = <<>> THEN <<>> ELSE ParentComponents(rest)

(* resolve_directory(): the components looked up as directories; an empty    *)
(* one ends the walk                                                         *)
RECURSIVE DirectoryComponents(_)
DirectoryComponents(p) ==
    LET rest == AfterComponent(p)
    IN  IF NextComponent(p) = <<>> THEN <<>>
        ELSE <<NextComponent(p)>> \o IF rest = <<>> THEN <<>> ELSE DirectoryComponents(rest)

-----------------------------------------------------------------------------
(* The components of p: the longest runs without '/' *)
Components(p) ==
    LET starts == SelectSeq([i \in 1 .. Len(p) |-> i],
                            LAMBDA i : p[i] # "/" /\ (i = 1 \/ p[i - 1] = "/"))
    IN  [k \in 1 .. Len(starts) |-> Before(Drop(p, starts[k] - 1), {"/"})]

Fitting(p) == \A k \in 1 .. Len(Components(p)) : Len(Components(p)[k]) <= Component

(* The 8.3 names that p spells *)
Spelled(p) == [k \in 1 .. Len(Components(p)) |-> format_83(Components(p)[k])]
=============================================================================
