---------------------------- MODULE MCFsNotifier ----------------------------
\* Values for the instances of FsNotifier that TLC checks: a root r with the
\* names a and b below it, a directory o outside, and a link l to r.
EXTENDS FsNotifier

OneLevel == {<<"r">>, <<"r", "a">>, <<"r", "b">>}
OneLevelAndA == OneLevel \cup {<<"r", "a", "a">>}
TwoLevels == OneLevel \cup {<<"r", "a", "b">>, <<"r", "b", "a">>, <<"r", "b", "b">>}
AndOutside == TwoLevels \cup {<<"o">>}
AndLinked == OneLevelAndA \cup {<<"l">> \o Tail(p) : p \in OneLevelAndA} \cup {<<"o">>}
RandA == {<<"r">>, <<"r", "a">>}
RandB == {<<"r">>, <<"r", "b">>}
JustR == {<<"r">>}
TwelveWds == 1..12

None == {}
NoLinks == [n \in {} |-> n]
LinkToR == [n \in {"l"} |-> "r"]
AIsPrefixOfB == {<<"a", "b">>}   \* think of a as "foo" and b as "foobar"
MountAtB == {<<"r", "b">>}

R == [path |-> <<"r">>, flat |-> FALSE]
FlatR == [path |-> <<"r">>, flat |-> TRUE]
RA == [path |-> <<"r", "a">>, flat |-> FALSE]
RB == [path |-> <<"r", "b">>, flat |-> FALSE]
L == [path |-> <<"l">>, flat |-> FALSE]
O == [path |-> <<"o">>, flat |-> FALSE]
OneRoot == {<<R>>}
NestedRoots == {<<R, RA>>, <<RA, R>>, <<FlatR, RA>>}
ManyRoots == {<<RB, R>>, <<RA, R>>, <<FlatR, RA>>, <<L, R>>, <<O, RB>>, <<>>}
=============================================================================
