----------------------------- MODULE FileNames -----------------------------
(***************************************************************************)
(* Path names as fsNotifier handles them.  A path is the sequence of its   *)
(* components; <<>> is "/".  The code compares paths as C strings, so      *)
(* besides the component-wise test the model needs the string-prefix test: *)
(* NameExt holds the pairs <<n, m>> of names such that n is a proper       *)
(* string prefix of m ("foo" and "foobar").                                *)
(***************************************************************************)
EXTENDS Integers, Sequences

CONSTANTS
  Paths,     \* the directories that can exist, as sequences of names
  NameExt,   \* pairs <<n, m>> of names, n a proper string prefix of m
  Links      \* top-level symbolic links: a function from name to name

\* util.c is_parent_path: equal, or the parent is followed by a '/'.
IsParentPath(q, p) == Len(q) <= Len(p) /\ SubSeq(p, 1, Len(q)) = q

\* strncmp(q, p, strlen(q)) == 0, the test walk_tree and the DELETE handler use.
StrPrefix(q, p) ==
  /\ Len(q) \in 1..Len(p)
  /\ \A i \in 1..(Len(q) - 1) : q[i] = p[i]
  /\ q[Len(q)] = p[Len(q)] \/ <<q[Len(q)], p[Len(q)]>> \in NameExt

ParentOf(p) == SubSeq(p, 1, Len(p) - 1)
NameOf(p) == p[Len(p)]
Child(p, n) == Append(p, n)
\* Whatever is in S is there with every directory above it.
PrefixClosed(S) == \A p \in S : \A k \in 1..Len(p) : SubSeq(p, 1, k) \in S
PathsUnder(p) == {q \in Paths : IsParentPath(p, q)}

\* The path the kernel resolves p to, and what realpath prints for it.
Resolve(p) ==
  IF p # <<>> /\ Head(p) \in DOMAIN Links THEN <<Links[Head(p)]>> \o Tail(p) ELSE p
=============================================================================
