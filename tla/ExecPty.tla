------------------------------ MODULE ExecPty ------------------------------
(***************************************************************************)
(* native/pty4j: exec_pty starts a program on the slave of a terminal      *)
(* whose master the JVM holds.  The child between fork and execve owns a   *)
(* copy of the JVM's descriptors; the caller goes on meanwhile and, in     *)
(* console mode, changes the modes of the same terminal; other threads     *)
(* wait for the child.                                                     *)
(***************************************************************************)
EXTENDS Integers

CONSTANTS
  Fds,      \* descriptor numbers below the limit on open files
  Waiters,  \* threads in wait_for_child_process_exit
  Codes     \* exit codes and signal numbers the program may end with

\* The JDK never closes descriptors 0, 1 and 2: closing System.in, out or err puts
\* /dev/null there.
Std == 0..2
ASSUME FdsAssumption == Fds \subseteq Nat /\ Std \subseteq Fds
ASSUME CodesAssumption == Codes \subseteq 1..127

VARIABLES
  console, fdm, errFdm,  \* arguments of exec_pty; errFdm is -1 when there is none
  caller,                \* where the caller of exec_pty is
  child,                 \* where the child is
  fd,                    \* the child's descriptors: number -> what it is open on
  fds, errFds,           \* the child's variables of those names
  modes,                 \* of the terminal: echo, and the ones no set_noecho is about
  got,                   \* what tcgetattr returned to the caller and to the child
  failed,                \* whose set_noecho has failed and said nothing
  own,                   \* the program has set its modes
  status,                \* what the kernel keeps of the child for waitpid
  waited                 \* what each waiter was told

args == <<console, fdm, errFdm>>
table == <<fd, fds, errFds>>
term == <<modes, got, failed, own>>
vars == <<args, caller, child, table, term, status, waited>>

Parties == {"caller", "child"}
Modes == [echo : BOOLEAN, other : {"cooked", "raw"}]
Cooked == [echo |-> TRUE, other |-> "cooked"]
Objects == {"jvm", "master", "errMaster", "slave", "errSlave"}
None == [how |-> "none", code |-> 0]
HasErr == console /\ errFdm >= 0

Init ==
  /\ console \in BOOLEAN /\ fdm \in Fds \ Std
  /\ errFdm \in (Fds \ (Std \cup {fdm})) \cup {-1}
  /\ \E others \in SUBSET (Fds \ (Std \cup {fdm, errFdm})) :
       fd = [f \in Std \cup others \cup ({fdm, errFdm} \cap Fds) |->
               IF f = fdm THEN "master" ELSE IF f = errFdm THEN "errMaster" ELSE "jvm"]
  /\ caller = "fork" /\ child = "none" /\ fds = -1 /\ errFds = -1
  /\ modes = Cooked /\ got = [p \in Parties |-> Cooked] /\ failed = {} /\ own = FALSE
  /\ status = None /\ waited = [w \in Waiters |-> -1]

----------------------------------------------------------------------------
\* pfind and fork; either may fail.
Fork ==
  /\ caller = "fork"
  /\ \/ caller' = "failed" /\ UNCHANGED child
     \/ caller' = (IF console THEN "get" ELSE "returned") /\ child' = "open"
  /\ UNCHANGED <<args, table, term, status, waited>>

\* set_noecho reads the modes and writes them back without echo: two system calls.  Either
\* may fail, and set_noecho returns as if it had not.
NoEchoGet(who) == got' = [got EXCEPT ![who] = modes] /\ UNCHANGED <<modes, failed, own>>
\* Mutant: the modes are written back as they were.
NoEchoSetNothing(who) == modes' = got[who] /\ UNCHANGED <<got, failed, own>>

NoEchoSet(who) == modes' = [got[who] EXCEPT !.echo = FALSE] /\ UNCHANGED <<got, failed, own>>
NoEchoFails(who) == failed' = failed \cup {who} /\ UNCHANGED <<modes, got, own>>

CallerNoEcho ==
  /\ \/ caller = "get" /\ caller' = "set" /\ NoEchoGet("caller")
     \/ caller = "set" /\ caller' = "returned" /\ NoEchoSet("caller")
     \/ caller \in {"get", "set"} /\ caller' = "returned" /\ NoEchoFails("caller")
  /\ UNCHANGED <<args, child, table, status, waited>>

----------------------------------------------------------------------------
\* The child.  open takes the lowest free number, if there is one.
LowestOf(f, S) == f \in S /\ \A g \in S : f <= g
Lowest(f) == LowestOf(f, Fds \ DOMAIN fd)
Opened(f, object) == [g \in DOMAIN fd \cup {f} |-> IF g = f THEN object ELSE fd[g]]
Keeping(S) == fd' = [f \in DOMAIN fd \cap S |-> fd[f]]

\* setsid, outside console mode, and ptys_open.  When setsid fails exec_pty returns -1, in
\* the child: `stray', a second JVM of one thread that goes on with what it has open; when
\* ptys_open fails it has closed the master before.
OpenSlave ==
  /\ child = "open"
  /\ \/ \E f \in Fds : Lowest(f) /\ fds' = f /\ fd' = Opened(f, "slave")
        /\ child' = IF HasErr THEN "openerr" ELSE "masters"
     \/ child' = "stray" /\ Keeping(Fds \ {fdm}) /\ UNCHANGED fds
     \/ child' = "stray" /\ ~console /\ UNCHANGED <<fd, fds>>
  /\ UNCHANGED <<args, caller, errFds, term, status, waited>>

OpenErrSlave ==
  /\ child = "openerr"
  /\ \/ \E f \in Fds : Lowest(f) /\ errFds' = f /\ fd' = Opened(f, "errSlave")
        /\ child' = "masters"
     \/ child' = "stray" /\ Keeping(Fds \ {errFdm}) /\ UNCHANGED errFds
  /\ UNCHANGED <<args, caller, fds, term, status, waited>>

CloseMasters ==
  /\ child = "masters" /\ child' = IF console THEN "get" ELSE "redirect"
  /\ Keeping(Fds \ ({fdm} \cup (IF HasErr THEN {errFdm} ELSE {})))
  /\ UNCHANGED <<args, caller, fds, errFds, term, status, waited>>

\* Console mode: set_noecho, then setpgid, which cannot fail for a new child.
ChildNoEcho ==
  /\ \/ child = "get" /\ child' = "set" /\ NoEchoGet("child")
     \/ child = "set" /\ child' = "redirect" /\ NoEchoSet("child")
     \/ child \in {"get", "set"} /\ child' = "redirect" /\ NoEchoFails("child")
  /\ UNCHANGED <<args, caller, table, status, waited>>

\* dup2 three times, then close of the two slaves.
Redirected(f) == IF f = 2 /\ errFds >= 0 THEN fd[errFds] ELSE fd[fds]

Redirect ==
  /\ child = "redirect" /\ child' = "closeall"
  /\ fd' = [f \in (DOMAIN fd \cup Std) \ {fds, errFds} |-> IF f \in Std THEN Redirected(f) ELSE fd[f]]
  /\ UNCHANGED <<args, caller, fds, errFds, term, status, waited>>

\* What close_all_fds leaves open when close_range works; when that fails and
\* /proc/self/fd can be read: 3 and 4 are closed unread, then all that is listed from 5
\* on except the descriptor `dir' of the listing, which goes last; and when neither works,
\* by the loop up to the limit.
From == 3
CloseRange == {f \in DOMAIN fd : f < From}

Listed(dir) == (DOMAIN fd \ {From, From + 1}) \cup {dir}
\* Mutant: the first descriptor from 5 on is skipped.
CloseParsingAfter(dir) == {f \in Listed(dir) : f <= From + 2 /\ f # dir}

CloseParsing(dir) == {f \in Listed(dir) : f < From + 2 /\ f # dir}
CloseFallback == {f \in DOMAIN fd : f \notin {g \in Fds : g >= From}}

CloseAll ==
  /\ child = "closeall" /\ child' = "exec"
  /\ \/ Keeping(CloseRange)
     \/ \E dir \in Fds : LowestOf(dir, Fds \ (DOMAIN fd \ {From, From + 1})) /\ Keeping(CloseParsing(dir))
     \/ Keeping(CloseFallback)
  /\ UNCHANGED <<args, caller, fds, errFds, term, status, waited>>

\* execve, or _exit(127)
Exec ==
  /\ child = "exec"
  /\ \/ child' = "program" /\ UNCHANGED status
     \/ child' = "ended" /\ status' = [how |-> "exit", code |-> 127]
  /\ UNCHANGED <<args, caller, table, term, waited>>

----------------------------------------------------------------------------
\* The program may set its terminal modes, and ends in one of two ways.
ProgramSetsModes ==
  /\ child = "program" /\ ~own /\ own' = TRUE
  /\ modes' \in Modes
  /\ UNCHANGED <<args, caller, child, table, got, failed, status, waited>>

ProgramEnds ==
  /\ child = "program" /\ child' = "ended"
  /\ status' \in [how : {"exit", "signal"}, code : Codes]
  /\ UNCHANGED <<args, caller, table, term, waited>>

\* wait_for_child_process_exit: waitpid gives the status to the first that asks, and
\* ECHILD to the others; after EINTR it is called again.
\* Mutants: the status is returned as it is; a signal is reported like an exit code.
ExitCodeEncoded(s) == IF s.how = "signal" THEN s.code ELSE 256 * s.code
ExitCodeRaw(s) == s.code

ExitCode(s) == IF s.how = "signal" THEN 128 + s.code ELSE s.code

Wait(w) ==
  /\ caller = "returned" /\ child \in {"ended", "reaped"} /\ waited[w] = -1
  /\ waited' = [waited EXCEPT ![w] = IF child = "ended" THEN ExitCode(status) ELSE 0]
  /\ child' = "reaped"
  /\ UNCHANGED <<args, caller, table, term, status>>

Next ==
  \/ Fork \/ CallerNoEcho \/ OpenSlave \/ OpenErrSlave \/ CloseMasters \/ ChildNoEcho
  \/ Redirect \/ CloseAll \/ Exec \/ ProgramSetsModes \/ ProgramEnds
  \/ \E w \in Waiters : Wait(w)

Spec == Init /\ [][Next]_vars

----------------------------------------------------------------------------
TypeOK ==
  /\ console \in BOOLEAN /\ fdm \in Fds /\ errFdm \in Fds \cup {-1}
  /\ caller \in {"fork", "failed", "get", "set", "returned"}
  /\ child \in {"none", "open", "openerr", "masters", "get", "set", "redirect", "closeall",
               "exec", "stray", "program", "ended", "reaped"}
  /\ DOMAIN fd \subseteq Fds /\ \A f \in DOMAIN fd : fd[f] \in Objects
  /\ fds \in Fds \cup {-1} /\ errFds \in Fds \cup {-1}
  /\ modes \in Modes /\ got \in [Parties -> Modes] /\ failed \subseteq Parties /\ own \in BOOLEAN
  /\ waited \in [Waiters -> -1..255]

\* The program starts with its three descriptors on the terminal and no other: nothing the
\* JVM had open, neither a master (its own would keep the terminal from hanging up) nor a
\* descriptor of another child, whichever way they are closed.
ExecDescriptors ==
  child \in {"exec", "program"} =>
    /\ DOMAIN fd = Std
    /\ \A f \in Std : fd[f] = IF f = 2 /\ HasErr THEN "errSlave" ELSE "slave"

\* In console mode either of the two set_noecho is enough to keep echo off from its return
\* on: the one of the child, which has returned when the program starts, or the caller's, at
\* any time around that start.  The other one, which may be between its tcgetattr and its
\* tcsetattr or fail, does not bring echo back.
EchoOff ==
  console /\ ~own =>
    /\ child \in {"redirect", "closeall", "exec", "program"} /\ "child" \notin failed => ~modes.echo
    /\ caller = "returned" /\ "caller" \notin failed => ~modes.echo

\* Whoever is told something is told it after the end: one waiter what happened, as shells
\* put it (128 and more for a signal), the others the 0 of ECHILD.
WaitTold ==
  \A w \in Waiters : waited[w] # -1 =>
    /\ waited[w] \in {0, ExitCode(status)}
    /\ \E v \in Waiters : waited[v] = ExitCode(status)
    /\ status.how = "signal" => ExitCode(status) > 128
=============================================================================
