----------------------------- MODULE Restarter -----------------------------
(***************************************************************************)
(* The restarter on Linux: it splits its arguments into commands, waits    *)
(* until the process that started it is gone, runs all commands but the    *)
(* last, and becomes the last.                                             *)
(***************************************************************************)
EXTENDS Integers, Sequences

CONSTANTS
  ArgLists,  \* what it may be started with: after the pid, numbers, and -1 for a word
  Usize      \* 2^w, for indices of w bits
ASSUME ArgsAssumption ==
  /\ Usize \in Nat
  /\ \A a \in ArgLists : a \in Seq(-1..Usize - 1) /\ Len(a) >= 2 /\ Len(a) + 2 < Usize

VARIABLES
  args,      \* after the pid
  rpc,       \* where the restarter is
  idx,       \* args_idx, from 1: the number of the next group
  commands,  \* the groups found so far, as first and last index
  ran        \* how many commands have been started
rvars == <<args, rpc, idx, commands, ran>>

RestarterInit == args = <<>> /\ rpc = "none" /\ idx = 1 /\ commands = <<>> /\ ran = 0

Start ==
  /\ rpc = "none" /\ rpc' = "parse" /\ args' \in ArgLists /\ idx' = 1 /\ commands' = <<>> /\ ran' = 0

\* The last index of a group of n; in the program indices are greater by one, and wrap around.
GroupEnd(n) == ((idx + n + 1) % Usize) - 1
Accepted(n) == n > 0 /\ GroupEnd(n) <= Len(args)

\* Mutant: the number of the next group is skipped too.
GroupAfterNext(last) == last + 2

GroupAfter(last) == last + 1

\* One round of the loop over the groups; a group whose end has wrapped around is no slice.
ParseGroup ==
  /\ rpc = "parse" /\ idx <= Len(args)
  /\ LET n == args[idx] last == GroupEnd(n)
     IN \/ ~Accepted(n) /\ rpc' = "failed" /\ UNCHANGED <<idx, commands>>
        \/ Accepted(n) /\ last <= idx /\ rpc' = "panicked" /\ UNCHANGED <<idx, commands>>
        \/ Accepted(n) /\ last > idx /\ idx' = GroupAfter(last)
           /\ commands' = Append(commands, [first |-> idx + 1, last |-> last]) /\ UNCHANGED rpc
  /\ UNCHANGED <<args, ran>>

\* The pid may be no number, or the restarter's own.
ParsePid == rpc = "parse" /\ idx = 1 /\ rpc' = "failed" /\ UNCHANGED <<args, idx, commands, ran>>
Parsed == rpc = "parse" /\ idx > Len(args) /\ rpc' = "wait" /\ UNCHANGED <<args, idx, commands, ran>>

\* Mutant: the comparison of getppid with the pid is the wrong way round.
WaitForNoExit(gone) == rpc = "wait" /\ ~gone /\ rpc' = "run" /\ UNCHANGED <<args, idx, commands, ran>>

\* getppid differs from the pid once the parent is gone.
WaitForExit(gone) == rpc = "wait" /\ gone /\ rpc' = "run" /\ UNCHANGED <<args, idx, commands, ran>>

RunCommand ==
  /\ rpc = "run" /\ ran < Len(commands) - 1
  /\ \/ ran' = ran + 1 /\ UNCHANGED rpc
     \/ rpc' = "failed" /\ UNCHANGED ran
  /\ UNCHANGED <<args, idx, commands>>
ExecCommand ==
  /\ rpc = "run" /\ ran = Len(commands) - 1
  /\ \/ ran' = ran + 1 /\ rpc' = "execd"
     \/ rpc' = "failed" /\ UNCHANGED ran
  /\ UNCHANGED <<args, idx, commands>>

RestarterTypeOK ==
  /\ args \in ArgLists \cup {<<>>} /\ idx \in 1..Len(args) + 1
  /\ commands \in Seq([first : Nat, last : Nat]) /\ ran \in 0..Len(commands)
  /\ rpc \in {"none", "parse", "wait", "run", "execd", "failed", "panicked"}

\* The groups take up the arguments exactly: each follows the number that announces it, and
\* the last ends with them.
Tiling ==
  /\ commands # <<>> => commands[1].first = 2
  /\ \A i \in DOMAIN commands :
       /\ args[commands[i].first - 1] = commands[i].last - commands[i].first + 1
       /\ commands[i].first <= commands[i].last /\ commands[i].last <= Len(args)
       /\ i > 1 => commands[i].first = commands[i - 1].last + 2
=============================================================================
