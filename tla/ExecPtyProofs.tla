---------------------------- MODULE ExecPtyProofs ----------------------------
(***************************************************************************)
(* For every set of descriptors the JVM may have open: the program starts  *)
(* with exactly the descriptors of its terminal, and with echo off.        *)
(***************************************************************************)
EXTENDS ExecPty, TLAPS

\* The slaves the child has open until it redirects its descriptors to them.
HasSlave == fds \in DOMAIN fd \ Std /\ fd[fds] = "slave"
HasErrSlave ==
  IF HasErr THEN errFds \in DOMAIN fd \ (Std \cup {fds}) /\ fd[errFds] = "errSlave"
  ELSE errFds = -1

\* Descriptors 0, 1 and 2 on the terminal.
OnTerminal ==
  /\ Std \subseteq DOMAIN fd
  /\ \A f \in Std : fd[f] = IF f = 2 /\ HasErr THEN "errSlave" ELSE "slave"

ArgsOk ==
  /\ console \in BOOLEAN /\ fdm \in Fds \ Std /\ errFdm \in (Fds \ (Std \cup {fdm})) \cup {-1}
  /\ DOMAIN fd \subseteq Fds

\* What the child has open at each point.
Opening ==
  child \in {"none", "open"} =>
    Std \subseteq DOMAIN fd /\ fdm \in DOMAIN fd /\ errFdm \in DOMAIN fd \cup {-1} /\ errFds = -1
OpeningErr ==
  child = "openerr" =>
    /\ Std \subseteq DOMAIN fd /\ HasSlave /\ fds # fdm /\ fds # errFdm /\ errFds = -1 /\ HasErr
    /\ errFdm \in DOMAIN fd /\ fdm \in DOMAIN fd
Closing ==
  child = "masters" =>
    /\ Std \subseteq DOMAIN fd /\ HasSlave /\ HasErrSlave
    /\ fds \notin {fdm, errFdm} /\ (HasErr => errFds \notin {fdm, errFdm})
Redirecting ==
  child \in {"get", "set", "redirect"} => Std \subseteq DOMAIN fd /\ HasSlave /\ HasErrSlave
ClosingAll == child = "closeall" => OnTerminal
FdInv == ArgsOk /\ Opening /\ OpeningErr /\ Closing /\ Redirecting /\ ClosingAll /\ ExecDescriptors

\* Closing from 3 on, by whatever means, leaves 0, 1 and 2.
LEMMA FromIsThree == \A f \in Nat : f < From <=> f \in Std
  BY SMT DEF From, Std

LEMMA InitFd == Init => FdInv
<1> SUFFICES ASSUME Init PROVE FdInv
  OBVIOUS
<1>1. PICK others \in SUBSET (Fds \ (Std \cup {fdm, errFdm})) :
        fd = [f \in Std \cup others \cup ({fdm, errFdm} \cap Fds) |->
               IF f = fdm THEN "master" ELSE IF f = errFdm THEN "errMaster" ELSE "jvm"]
  BY DEF Init
<1>2. DOMAIN fd = Std \cup others \cup ({fdm, errFdm} \cap Fds)
  BY <1>1
<1>3. ArgsOk /\ Opening
  BY <1>2, FdsAssumption DEF Init, ArgsOk, Opening
<1>4. QED
  BY <1>3 DEF Init, FdInv, OpeningErr, Closing, Redirecting, ClosingAll, ExecDescriptors

\* One lemma per step of the child; the steps of the others touch nothing FdInv is about.
LEMMA OpenSlaveFd == FdInv /\ OpenSlave => FdInv'
<1> SUFFICES ASSUME FdInv, OpenSlave PROVE FdInv'
  OBVIOUS
<1> USE DEF FdInv
<1>1. ArgsOk /\ Std \subseteq DOMAIN fd /\ fdm \in DOMAIN fd /\ errFdm \in DOMAIN fd \cup {-1}
      /\ errFds = -1
  BY DEF OpenSlave, Opening
<1>2. UNCHANGED <<console, fdm, errFdm, errFds>>
  BY DEF OpenSlave, args
<1>3. CASE child' = "stray" /\ Keeping(Fds \ {fdm})
  <2>1. ArgsOk'
    BY <1>1, <1>2, <1>3 DEF ArgsOk, Keeping
  <2>2. QED
    BY <1>3, <2>1 DEF Opening, OpeningErr, Closing, Redirecting, ClosingAll, ExecDescriptors
<1>6. CASE child' = "stray" /\ UNCHANGED <<fd, fds>>
  <2>1. ArgsOk'
    BY <1>1, <1>2, <1>6 DEF ArgsOk
  <2>2. QED
    BY <1>6, <2>1 DEF Opening, OpeningErr, Closing, Redirecting, ClosingAll, ExecDescriptors
<1>4. ASSUME NEW f \in Fds, Lowest(f), fds' = f, fd' = Opened(f, "slave"),
             child' = IF HasErr THEN "openerr" ELSE "masters"
      PROVE  FdInv'
  <2>1. f \notin DOMAIN fd
    BY <1>4 DEF Lowest, LowestOf
  <2>2. DOMAIN fd' = DOMAIN fd \cup {f} /\ fd'[f] = "slave"
    BY <1>4 DEF Opened
  <2>3. ArgsOk'
    BY <1>1, <1>2, <1>4, <2>2 DEF ArgsOk
  <2>4. (Std \subseteq DOMAIN fd)' /\ HasSlave'
    BY <1>1, <1>4, <2>1, <2>2 DEF HasSlave
  <2>5. fds' \notin {fdm', errFdm'}
    BY <1>1, <1>2, <1>4, <2>1, FdsAssumption, SMT
  <2>6. HasErr' <=> HasErr
    BY <1>2 DEF HasErr
  <2>7. CASE HasErr
    <3>1. errFdm \in DOMAIN fd
      BY <1>1, <2>7, SMT DEF HasErr
    <3>2. OpeningErr'
      BY <1>1, <1>2, <2>2, <2>4, <2>5, <2>6, <2>7, <3>1 DEF OpeningErr
    <3>3. QED
      BY <1>4, <2>3, <2>7, <3>2 DEF Opening, Closing, Redirecting, ClosingAll, ExecDescriptors
  <2>8. CASE ~HasErr
    <3>1. Closing'
      BY <1>1, <1>2, <2>4, <2>5, <2>6, <2>8 DEF Closing, HasErrSlave
    <3>2. QED
      BY <1>4, <2>3, <2>8, <3>1 DEF Opening, OpeningErr, Redirecting, ClosingAll, ExecDescriptors
  <2>9. QED
    BY <2>7, <2>8
<1>5. QED
  BY <1>3, <1>4, <1>6 DEF OpenSlave

LEMMA OpenErrSlaveFd == FdInv /\ OpenErrSlave => FdInv'
<1> SUFFICES ASSUME FdInv, OpenErrSlave PROVE FdInv'
  OBVIOUS
<1> USE DEF FdInv
<1>1. /\ ArgsOk /\ Std \subseteq DOMAIN fd /\ HasSlave /\ fds # fdm /\ fds # errFdm /\ HasErr
      /\ errFdm \in DOMAIN fd /\ fdm \in DOMAIN fd
  BY DEF OpenErrSlave, OpeningErr
<1>2. UNCHANGED <<console, fdm, errFdm, fds>>
  BY DEF OpenErrSlave, args
<1>3. CASE child' = "stray" /\ Keeping(Fds \ {errFdm})
  <2>1. ArgsOk'
    BY <1>1, <1>2, <1>3 DEF ArgsOk, Keeping
  <2>2. QED
    BY <1>3, <2>1 DEF Opening, OpeningErr, Closing, Redirecting, ClosingAll, ExecDescriptors
<1>4. ASSUME NEW f \in Fds, Lowest(f), errFds' = f, fd' = Opened(f, "errSlave"), child' = "masters"
      PROVE  FdInv'
  <2>1. f \notin DOMAIN fd
    BY <1>4 DEF Lowest, LowestOf
  <2>2. /\ DOMAIN fd' = DOMAIN fd \cup {f} /\ fd'[f] = "errSlave"
        /\ \A g \in DOMAIN fd : fd'[g] = fd[g]
    BY <1>4, <2>1 DEF Opened
  <2>3. ArgsOk'
    BY <1>1, <1>2, <1>4, <2>2 DEF ArgsOk
  <2>4. (Std \subseteq DOMAIN fd)' /\ HasSlave' /\ HasErrSlave'
    BY <1>1, <1>2, <1>4, <2>1, <2>2 DEF HasSlave, HasErrSlave, HasErr
  <2>5. Closing'
    BY <1>1, <1>2, <1>4, <2>1, <2>4 DEF Closing
  <2>6. QED
    BY <1>4, <2>3, <2>5 DEF Opening, OpeningErr, Redirecting, ClosingAll, ExecDescriptors
<1>5. QED
  BY <1>3, <1>4 DEF OpenErrSlave

LEMMA CloseMastersFd == FdInv /\ CloseMasters => FdInv'
<1> SUFFICES ASSUME FdInv, CloseMasters PROVE FdInv'
  OBVIOUS
<1> USE DEF FdInv
<1> DEFINE kept == Fds \ ({fdm} \cup (IF HasErr THEN {errFdm} ELSE {}))
<1>1. /\ ArgsOk /\ Std \subseteq DOMAIN fd /\ HasSlave /\ HasErrSlave
      /\ fds \notin {fdm, errFdm} /\ (HasErr => errFds \notin {fdm, errFdm})
  BY DEF CloseMasters, Closing
<1>2. UNCHANGED <<console, fdm, errFdm, fds, errFds>>
  BY DEF CloseMasters, args
<1>3. DOMAIN fd' = DOMAIN fd \cap kept /\ \A f \in DOMAIN fd' : fd'[f] = fd[f]
  BY DEF CloseMasters, Keeping
<1>4. Std \subseteq kept /\ fds \in kept /\ (HasErr => errFds \in kept)
  <2>1. Std \cap {fdm, errFdm} = {}
    BY <1>1, SMT DEF ArgsOk, Std
  <2>2. QED
    BY <1>1, <2>1 DEF ArgsOk, HasSlave, HasErrSlave
<1>5. ArgsOk'
  BY <1>1, <1>2, <1>3 DEF ArgsOk
<1>6. Redirecting'
  BY <1>1, <1>2, <1>3, <1>4 DEF Redirecting, HasSlave, HasErrSlave, HasErr
<1>7. child' \in {"get", "redirect"}
  BY DEF CloseMasters
<1>8. QED
  BY <1>5, <1>6, <1>7 DEF Opening, OpeningErr, Closing, ClosingAll, ExecDescriptors

LEMMA RedirectFd == FdInv /\ Redirect => FdInv'
<1> SUFFICES ASSUME FdInv, Redirect PROVE FdInv'
  OBVIOUS
<1> USE DEF FdInv
<1>1. ArgsOk /\ Std \subseteq DOMAIN fd /\ HasSlave /\ HasErrSlave /\ child' = "closeall"
  BY DEF Redirect, Redirecting
<1>2. UNCHANGED <<console, fdm, errFdm, fds, errFds>>
  BY DEF Redirect, args
<1>3. /\ DOMAIN fd' = (DOMAIN fd \cup Std) \ {fds, errFds}
      /\ \A f \in DOMAIN fd' : fd'[f] = IF f \in Std THEN Redirected(f) ELSE fd[f]
  BY DEF Redirect
<1>4. fds \notin Std /\ errFds \notin Std
  BY <1>1, SMT DEF HasSlave, HasErrSlave, Std
<1>5. ArgsOk'
  BY <1>1, <1>2, <1>3 DEF ArgsOk
<1>6. errFds >= 0 <=> HasErr
  <2>1. HasErr => errFds \in Nat
    BY <1>1, FdsAssumption DEF HasErrSlave, ArgsOk
  <2>2. ~HasErr => errFds = -1
    BY <1>1 DEF HasErrSlave
  <2>3. QED
    BY <2>1, <2>2, SMT
<1>7. OnTerminal'
  <2>1. Std \subseteq DOMAIN fd'
    BY <1>1, <1>3, <1>4
  <2>2. ASSUME NEW f \in Std
        PROVE  fd'[f] = IF f = 2 /\ HasErr THEN "errSlave" ELSE "slave"
    BY <1>1, <1>3, <1>6, <2>1 DEF Redirected, HasSlave, HasErrSlave
  <2>3. QED
    BY <1>2, <2>1, <2>2 DEF OnTerminal, HasErr
<1>8. QED
  BY <1>1, <1>5, <1>7 DEF Opening, OpeningErr, Closing, Redirecting, ClosingAll, ExecDescriptors

LEMMA CloseAllFd == FdInv /\ CloseAll => FdInv'
<1> SUFFICES ASSUME FdInv, CloseAll PROVE FdInv'
  OBVIOUS
<1> USE DEF FdInv
<1>1. ArgsOk /\ OnTerminal /\ child' = "exec" /\ UNCHANGED <<console, fdm, errFdm>>
  BY DEF CloseAll, ClosingAll, args
<1>2. DOMAIN fd \subseteq Nat
  BY <1>1, FdsAssumption DEF ArgsOk
<1>3. DOMAIN fd \cap CloseRange = Std
  BY <1>1, <1>2, FromIsThree DEF CloseRange, OnTerminal
<1>4. DOMAIN fd \cap CloseFallback = Std
  <2>1. \A f \in DOMAIN fd : f \notin {g \in Fds : g >= From} <=> f < From
    BY <1>1, <1>2, SMT DEF ArgsOk, From
  <2>2. QED
    BY <1>1, <1>2, <2>1, FromIsThree DEF CloseFallback, OnTerminal
<1>5. ASSUME NEW dir \in Fds, dir \notin DOMAIN fd \ {From, From + 1}
      PROVE  DOMAIN fd \cap CloseParsing(dir) = Std
  <2>1. dir \notin Std
    BY <1>1, <1>5, SMT DEF OnTerminal, From, Std
  <2>2. \A f \in DOMAIN fd : (f \notin {From, From + 1} /\ f < From + 2) <=> f \in Std
    BY <1>2, SMT DEF From, Std
  <2>3. \A f \in DOMAIN fd \cap CloseParsing(dir) : f \in Std
    BY <2>2 DEF CloseParsing, Listed
  <2>4. \A f \in Std : f \in DOMAIN fd \cap CloseParsing(dir)
    BY <1>1, <2>1, <2>2 DEF CloseParsing, Listed, OnTerminal
  <2>5. QED
    BY <2>3, <2>4
<1>6. PICK S : Keeping(S) /\ DOMAIN fd \cap S = Std
  BY <1>3, <1>4, <1>5 DEF CloseAll, LowestOf
<1>7. DOMAIN fd' = Std /\ \A f \in Std : fd'[f] = fd[f]
  BY <1>6 DEF Keeping
<1>8. ArgsOk'
  BY <1>1, <1>7, FdsAssumption DEF ArgsOk
<1>9. ExecDescriptors'
  BY <1>1, <1>7 DEF ExecDescriptors, OnTerminal, HasErr
<1>10. QED
  BY <1>1, <1>8, <1>9 DEF Opening, OpeningErr, Closing, Redirecting, ClosingAll

\* Every other step leaves the child's descriptors and numbers as they are.
LEMMA OthersFd ==
  ASSUME FdInv, UNCHANGED <<args, table>>,
         \/ UNCHANGED child
         \/ child = "none" /\ child' = "open"
         \/ child = "open" /\ child' = "open"
         \/ child \in {"get", "set"} /\ child' \in {"set", "redirect"}
         \/ child = "exec" /\ child' = "program"
         \/ child' \in {"ended", "reaped"}
  PROVE  FdInv'
<1> USE DEF FdInv, args, table
<1>1. ArgsOk'
  BY DEF ArgsOk
<1>2. (HasErr' <=> HasErr) /\ (HasSlave' <=> HasSlave) /\ (HasErrSlave' <=> HasErrSlave)
      /\ (OnTerminal' <=> OnTerminal)
  BY DEF HasErr, HasSlave, HasErrSlave, OnTerminal
<1>3. Opening' /\ OpeningErr' /\ Closing' /\ Redirecting' /\ ClosingAll'
  BY <1>2 DEF Opening, OpeningErr, Closing, Redirecting, ClosingAll
<1>4. ExecDescriptors'
  BY <1>2 DEF ExecDescriptors
<1>5. QED
  BY <1>1, <1>3, <1>4

\* Nothing has been forked while the caller has not called fork.
ForkOnce == caller = "fork" => child = "none"

LEMMA NextFork == ForkOnce /\ [Next]_vars => ForkOnce'
<1> SUFFICES ASSUME ForkOnce, [Next]_vars PROVE ForkOnce'
  OBVIOUS
<1> USE DEF ForkOnce
<1>1. CASE Fork \/ CallerNoEcho
  BY <1>1 DEF Fork, CallerNoEcho
<1>2. CASE OpenSlave \/ OpenErrSlave \/ CloseMasters \/ ChildNoEcho \/ Redirect \/ CloseAll \/ Exec
  BY <1>2 DEF OpenSlave, OpenErrSlave, CloseMasters, ChildNoEcho, Redirect, CloseAll, Exec
<1>3. CASE ProgramSetsModes \/ ProgramEnds
  BY <1>3 DEF ProgramSetsModes, ProgramEnds
<1>4. ASSUME NEW w \in Waiters, Wait(w) PROVE ForkOnce'
  BY <1>4 DEF Wait
<1>5. CASE UNCHANGED vars
  BY <1>5 DEF vars
<1>6. QED
  BY <1>1, <1>2, <1>3, <1>4, <1>5 DEF Next

LEMMA NextFd == ForkOnce /\ FdInv /\ [Next]_vars => FdInv'
<1> SUFFICES ASSUME ForkOnce, FdInv, [Next]_vars PROVE FdInv'
  OBVIOUS
<1>1. CASE Fork
  BY <1>1, OthersFd DEF Fork, ForkOnce
<1>2. CASE CallerNoEcho
  BY <1>2, OthersFd DEF CallerNoEcho
<1>3. CASE ChildNoEcho
  BY <1>3, OthersFd DEF ChildNoEcho
<1>4. CASE Exec
  BY <1>4, OthersFd DEF Exec
<1>5. CASE ProgramSetsModes
  BY <1>5, OthersFd DEF ProgramSetsModes
<1>6. CASE ProgramEnds
  BY <1>6, OthersFd DEF ProgramEnds
<1>7. ASSUME NEW w \in Waiters, Wait(w) PROVE FdInv'
  BY <1>7, OthersFd DEF Wait
<1>8. CASE UNCHANGED vars
  BY <1>8, OthersFd DEF vars
<1>9. QED
  BY <1>1, <1>2, <1>3, <1>4, <1>5, <1>6, <1>7, <1>8, OpenSlaveFd, OpenErrSlaveFd, CloseMastersFd,
     RedirectFd, CloseAllFd DEF Next

\* Whatever the JVM has open and whichever way it is closed, the program starts with 0, 1 and 2
\* on the terminal and with nothing else.
THEOREM StartsOnTerminal == Spec => []ExecDescriptors
<1>1. Init => ForkOnce
  BY DEF Init, ForkOnce
<1>2. FdInv => ExecDescriptors
  BY DEF FdInv
<1>3. QED
  BY <1>1, <1>2, InitFd, NextFork, NextFd, PTL DEF Spec

----------------------------------------------------------------------------
\* The modes are only set by set_noecho and, once it runs, by the program.
OwnOk == own => child \in {"program", "ended", "reaped"}
TermOk == modes \in Modes /\ got \in [Parties -> Modes] /\ failed \subseteq Parties
EchoInv == EchoOff /\ OwnOk /\ TermOk

LEMMA InitEcho == Init => EchoInv
  BY DEF Init, EchoInv, EchoOff, OwnOk, TermOk, Modes, Cooked, Parties

\* What set_noecho does to the modes, whoever calls it and however old what it read is.
LEMMA NoEchoGetOk ==
  ASSUME TermOk, NEW who \in Parties, NoEchoGet(who)
  PROVE  TermOk' /\ UNCHANGED <<modes, failed, own>>
  BY DEF TermOk, NoEchoGet

LEMMA NoEchoSetOk ==
  ASSUME TermOk, NEW who \in Parties, NoEchoSet(who)
  PROVE  TermOk' /\ ~modes'.echo /\ UNCHANGED own
<1>1. got[who] \in Modes
  BY DEF TermOk
<1>2. modes' = [got[who] EXCEPT !.echo = FALSE] /\ UNCHANGED <<got, failed, own>>
  BY DEF NoEchoSet
<1>3. modes' \in Modes /\ modes'.echo = FALSE
  BY <1>1, <1>2 DEF Modes
<1>4. QED
  BY <1>2, <1>3 DEF TermOk

LEMMA NoEchoFailsOk ==
  ASSUME TermOk, NEW who \in Parties, NoEchoFails(who)
  PROVE  TermOk' /\ failed' = failed \cup {who} /\ UNCHANGED <<modes, own>>
  BY DEF TermOk, NoEchoFails

\* A step of the child towards the end that leaves the terminal alone.
LEMMA StepEcho ==
  ASSUME EchoInv, UNCHANGED <<args, term>>, UNCHANGED caller \/ caller' # "returned" \/ ~console,
         \/ UNCHANGED child
         \/ ~own /\ child' \notin {"redirect", "closeall", "exec", "program"}
         \/ ~own /\ ~console
         \/ ~own /\ child \in {"redirect", "closeall", "exec"}
         \/ child' \in {"ended", "reaped"}
  PROVE  EchoInv'
<1> USE DEF EchoInv, args, term
<1>1. UNCHANGED <<console, modes, got, failed, own>>
  OBVIOUS
<1>2. TermOk'
  BY <1>1 DEF TermOk
<1>3. EchoOff'
  BY <1>1 DEF EchoOff, OwnOk
<1>4. OwnOk'
  BY <1>1 DEF OwnOk
<1>5. QED
  BY <1>2, <1>3, <1>4

LEMMA NextEcho == ForkOnce /\ EchoInv /\ [Next]_vars => EchoInv'
<1> SUFFICES ASSUME ForkOnce, EchoInv, [Next]_vars PROVE EchoInv'
  OBVIOUS
<1>1. OwnOk /\ TermOk /\ EchoOff
  BY DEF EchoInv
<1>2. CASE Fork
  BY <1>1, <1>2, StepEcho DEF Fork, ForkOnce, OwnOk
<1>3. CASE CallerNoEcho
  <2>1. UNCHANGED <<console, child>>
    BY <1>3 DEF CallerNoEcho, args
  <2>2. CASE caller' = "set" /\ NoEchoGet("caller")
    BY <1>1, <2>1, <2>2, NoEchoGetOk DEF EchoInv, EchoOff, OwnOk, Parties
  <2>3. CASE NoEchoSet("caller")
    BY <1>1, <2>1, <2>3, NoEchoSetOk DEF EchoInv, EchoOff, OwnOk, Parties
  <2>4. CASE NoEchoFails("caller")
    BY <1>1, <2>1, <2>4, NoEchoFailsOk DEF EchoInv, EchoOff, OwnOk, Parties
  <2>5. QED
    BY <1>3, <2>2, <2>3, <2>4 DEF CallerNoEcho
<1>4. CASE ChildNoEcho
  <2>1. UNCHANGED <<console, caller>>
    BY <1>4 DEF ChildNoEcho, args
  <2>2. CASE child = "get" /\ child' = "set" /\ NoEchoGet("child")
    BY <1>1, <2>1, <2>2, NoEchoGetOk DEF EchoInv, EchoOff, OwnOk, Parties
  <2>3. CASE child = "set" /\ child' = "redirect" /\ NoEchoSet("child")
    BY <1>1, <2>1, <2>3, NoEchoSetOk DEF EchoInv, EchoOff, OwnOk, Parties
  <2>4. CASE child \in {"get", "set"} /\ child' = "redirect" /\ NoEchoFails("child")
    BY <1>1, <2>1, <2>4, NoEchoFailsOk DEF EchoInv, EchoOff, OwnOk, Parties
  <2>5. QED
    BY <1>4, <2>2, <2>3, <2>4 DEF ChildNoEcho
<1>5. CASE OpenSlave \/ OpenErrSlave
  BY <1>1, <1>5, StepEcho DEF OpenSlave, OpenErrSlave, OwnOk
<1>6. CASE CloseMasters
  BY <1>1, <1>6, StepEcho DEF CloseMasters, OwnOk
<1>7. CASE Redirect \/ CloseAll \/ Exec
  BY <1>1, <1>7, StepEcho DEF Redirect, CloseAll, Exec, OwnOk
<1>8. CASE ProgramSetsModes
  BY <1>1, <1>8 DEF ProgramSetsModes, EchoInv, EchoOff, OwnOk, TermOk
<1>9. CASE ProgramEnds
  BY <1>9, StepEcho DEF ProgramEnds
<1>10. ASSUME NEW w \in Waiters, Wait(w) PROVE EchoInv'
  BY <1>10, StepEcho DEF Wait
<1>11. CASE UNCHANGED vars
  BY <1>11, StepEcho DEF vars
<1>12. QED
  BY <1>2, <1>3, <1>4, <1>5, <1>6, <1>7, <1>8, <1>9, <1>10, <1>11 DEF Next

\* In console mode echo is off from the return of the first set_noecho that has not failed
\* until the program sets its modes, in whatever order the caller's and the child's tcgetattr
\* and tcsetattr come.
THEOREM EchoStaysOff == Spec => []EchoOff
<1>1. Init => ForkOnce
  BY DEF Init, ForkOnce
<1>2. EchoInv => EchoOff
  BY DEF EchoInv
<1>3. QED
  BY <1>1, <1>2, InitEcho, NextFork, NextEcho, PTL DEF Spec
----------------------------------------------------------------------------
\* The kernel keeps one status, from the end of the child on, and gives it away once.
StatusOk == child \in {"ended", "reaped"} => status \in [how : {"exit", "signal"}, code : 1..127]
ToldOnce ==
  /\ child # "reaped" => \A w \in Waiters : waited[w] = -1
  /\ child = "reaped" => /\ \A w \in Waiters : waited[w] \in {-1, 0, ExitCode(status)}
                         /\ \E v \in Waiters : waited[v] = ExitCode(status)
WaitInv == StatusOk /\ waited \in [Waiters -> -1..255] /\ ToldOnce

\* What a waiter is told of an end is no -1, and a signal cannot be taken for an exit code below 129.
LEMMA ExitCodeRange ==
  ASSUME NEW s \in [how : {"exit", "signal"}, code : 1..127]
  PROVE  ExitCode(s) \in 1..255 /\ (s.how = "signal" => ExitCode(s) > 128)
<1>1. s.code \in 1..127 /\ s.how \in {"exit", "signal"}
  OBVIOUS
<1> QED BY <1>1 DEF ExitCode

LEMMA InitWait == Init => WaitInv
  BY DEF Init, WaitInv, StatusOk, ToldOnce

LEMMA WaitStep ==
  ASSUME WaitInv, NEW w \in Waiters, Wait(w)
  PROVE  WaitInv'
<1>1. /\ status \in [how : {"exit", "signal"}, code : 1..127] /\ UNCHANGED status /\ child' = "reaped"
      /\ waited[w] = -1 /\ child \in {"ended", "reaped"}
  BY DEF Wait, WaitInv, StatusOk
<1> DEFINE told == IF child = "ended" THEN ExitCode(status) ELSE 0
<1>2. told \in -1..255 /\ ExitCode(status) # -1
  BY <1>1, ExitCodeRange
<1>3. /\ waited' \in [Waiters -> -1..255] /\ waited'[w] = told
      /\ \A v \in Waiters \ {w} : waited'[v] = waited[v]
  BY <1>2 DEF Wait, WaitInv
<1>4. ExitCode(status') = ExitCode(status)
  BY <1>1
<1>5. \A v \in Waiters : waited'[v] \in {-1, 0, ExitCode(status)}
  BY <1>1, <1>3 DEF WaitInv, ToldOnce
<1>6. \E v \in Waiters : waited'[v] = ExitCode(status)
  <2>1. CASE child = "ended"
    BY <2>1, <1>3
  <2>2. CASE child = "reaped"
    <3>1. PICK v \in Waiters : waited[v] = ExitCode(status)
      BY <2>2 DEF WaitInv, ToldOnce
    <3>2. v # w
      BY <3>1, <1>1, <1>2
    <3> QED BY <3>1, <3>2, <1>3
  <2> QED BY <1>1, <2>1, <2>2
<1> QED BY <1>1, <1>3, <1>4, <1>5, <1>6 DEF WaitInv, StatusOk, ToldOnce

\* Before the child has ended nobody is told anything, and afterwards only waiting changes that.
LEMMA NextWait == ForkOnce /\ WaitInv /\ [Next]_vars => WaitInv'
<1> SUFFICES ASSUME ForkOnce, WaitInv, [Next]_vars PROVE WaitInv'
  OBVIOUS
<1>1. ASSUME UNCHANGED <<waited, status>>, child' = child \/ (child # "reaped" /\ child' \notin {"ended", "reaped"})
      PROVE  WaitInv'
  BY <1>1 DEF WaitInv, StatusOk, ToldOnce
<1>2. CASE Fork \/ CallerNoEcho \/ ChildNoEcho
  <2>1. child = "none" \/ UNCHANGED child \/ child \in {"get", "set"}
    BY <1>2 DEF Fork, CallerNoEcho, ChildNoEcho, ForkOnce
  <2> QED BY <1>1, <1>2, <2>1 DEF Fork, CallerNoEcho, ChildNoEcho
<1>3. CASE OpenSlave \/ OpenErrSlave \/ CloseMasters \/ Redirect \/ CloseAll
  BY <1>1, <1>3 DEF OpenSlave, OpenErrSlave, CloseMasters, Redirect, CloseAll
<1>4. CASE Exec \/ ProgramEnds
  <2>1. CASE child' = "program"
    BY <1>1, <1>4, <2>1 DEF Exec, ProgramEnds
  <2>2. CASE child' = "ended"
    <3>1. status' \in [how : {"exit", "signal"}, code : 1..127]
      <4>1. CASE Exec
        BY <4>1, <2>2 DEF Exec
      <4>2. CASE ProgramEnds
        BY <4>2, CodesAssumption DEF ProgramEnds
      <4> QED BY <1>4, <4>1, <4>2
    <3>2. child # "reaped" /\ UNCHANGED waited
      BY <1>4 DEF Exec, ProgramEnds
    <3> QED BY <2>2, <3>1, <3>2 DEF WaitInv, StatusOk, ToldOnce
  <2> QED BY <1>4, <2>1, <2>2 DEF Exec, ProgramEnds
<1>5. CASE ProgramSetsModes \/ UNCHANGED vars
  BY <1>1, <1>5 DEF ProgramSetsModes, vars
<1>6. ASSUME NEW w \in Waiters, Wait(w) PROVE WaitInv'
  BY <1>6, WaitStep
<1> QED BY <1>2, <1>3, <1>4, <1>5, <1>6 DEF Next

\* However many threads wait, one is told how the child ended, and the others 0.
THEOREM WaitersTold == Spec => []WaitTold
<1>1. WaitInv => WaitTold
  <2> SUFFICES ASSUME WaitInv, NEW w \in Waiters, waited[w] # -1
               PROVE  /\ waited[w] \in {0, ExitCode(status)}
                      /\ \E v \in Waiters : waited[v] = ExitCode(status)
                      /\ status.how = "signal" => ExitCode(status) > 128
    BY DEF WaitTold
  <2>1. child = "reaped"
    BY DEF WaitInv, ToldOnce
  <2> QED BY <2>1, ExitCodeRange DEF WaitInv, StatusOk, ToldOnce
<1>2. Init => ForkOnce
  BY DEF Init, ForkOnce
<1> QED BY <1>1, <1>2, InitWait, NextFork, NextWait, PTL DEF Spec

----------------------------------------------------------------------------
\* What the descriptors are open on, and where the caller and the child are.
TableOk ==
  /\ \A f \in DOMAIN fd : fd[f] \in Objects
  /\ fds \in Fds \cup {-1} /\ errFds \in Fds \cup {-1}
PlacesOk ==
  /\ caller \in {"fork", "failed", "get", "set", "returned"}
  /\ child \in {"none", "open", "openerr", "masters", "get", "set", "redirect", "closeall",
               "exec", "stray", "program", "ended", "reaped"}
  /\ own \in BOOLEAN

LEMMA InitTable == Init => TableOk /\ PlacesOk
<1> SUFFICES ASSUME Init PROVE TableOk /\ PlacesOk
  OBVIOUS
<1>1. PICK others \in SUBSET (Fds \ (Std \cup {fdm, errFdm})) :
        fd = [f \in Std \cup others \cup ({fdm, errFdm} \cap Fds) |->
               IF f = fdm THEN "master" ELSE IF f = errFdm THEN "errMaster" ELSE "jvm"]
  BY DEF Init
<1>2. \A f \in DOMAIN fd : fd[f] \in {"master", "errMaster", "jvm"}
  BY <1>1
<1> QED BY <1>2 DEF Init, TableOk, PlacesOk, Objects

LEMMA NextTable == FdInv /\ TableOk /\ [Next]_vars => TableOk'
<1> SUFFICES ASSUME FdInv, TableOk, [Next]_vars PROVE TableOk'
  OBVIOUS
<1>1. ASSUME NEW S, Keeping(S) PROVE \A f \in DOMAIN fd' : fd'[f] \in Objects
  BY <1>1 DEF Keeping, TableOk
<1>2. ASSUME NEW f, NEW object \in Objects, fd' = Opened(f, object)
      PROVE  \A g \in DOMAIN fd' : fd'[g] \in Objects
  BY <1>2 DEF Opened, TableOk
<1>3. CASE OpenSlave
  BY <1>1, <1>2, <1>3 DEF OpenSlave, TableOk, Objects
<1>4. CASE OpenErrSlave
  BY <1>1, <1>2, <1>4 DEF OpenErrSlave, TableOk, Objects
<1>5. CASE CloseMasters \/ CloseAll
  BY <1>1, <1>5 DEF CloseMasters, CloseAll, TableOk
<1>6. CASE Redirect
  <2>1. HasSlave /\ HasErrSlave /\ Std \subseteq DOMAIN fd
    BY <1>6 DEF Redirect, FdInv, Redirecting
  <2>2. errFds >= 0 => errFds \in DOMAIN fd
    BY <2>1, SMT DEF HasErrSlave
  <2>3. \A f \in Std : Redirected(f) \in Objects
    BY <2>1, <2>2 DEF Redirected, HasSlave, TableOk
  <2>4. \A f \in DOMAIN fd' : fd'[f] \in Objects
    BY <1>6, <2>3 DEF Redirect, TableOk
  <2> QED BY <1>6, <2>4 DEF Redirect, TableOk
<1>7. CASE UNCHANGED table
  BY <1>7 DEF table, TableOk
<1> QED
  BY <1>3, <1>4, <1>5, <1>6, <1>7
  DEF Next, Fork, CallerNoEcho, ChildNoEcho, Exec, ProgramSetsModes, ProgramEnds, Wait, vars

LEMMA NextPlaces == PlacesOk /\ [Next]_vars => PlacesOk'
<1> SUFFICES ASSUME PlacesOk, [Next]_vars PROVE PlacesOk'
  OBVIOUS
<1>1. own' \in BOOLEAN
  BY DEF PlacesOk, Next, Fork, CallerNoEcho, OpenSlave, OpenErrSlave, CloseMasters, ChildNoEcho, Redirect, CloseAll, Exec,
         ProgramSetsModes, ProgramEnds, Wait, NoEchoGet, NoEchoSet, NoEchoFails, vars, term
<1>2. CASE Fork \/ CallerNoEcho
  BY <1>1, <1>2 DEF Fork, CallerNoEcho, PlacesOk
<1>3. CASE OpenSlave \/ OpenErrSlave \/ CloseMasters
  BY <1>1, <1>3 DEF OpenSlave, OpenErrSlave, CloseMasters, PlacesOk
<1>4. CASE ChildNoEcho \/ Redirect \/ CloseAll \/ Exec
  BY <1>1, <1>4 DEF ChildNoEcho, Redirect, CloseAll, Exec, PlacesOk
<1>5. CASE ProgramSetsModes \/ ProgramEnds \/ \E w \in Waiters : Wait(w)
  BY <1>1, <1>5 DEF ProgramSetsModes, ProgramEnds, Wait, PlacesOk
<1>6. CASE UNCHANGED vars
  BY <1>1, <1>6 DEF vars, PlacesOk
<1> QED BY <1>2, <1>3, <1>4, <1>5, <1>6 DEF Next

\* The child's numbers and descriptors, the modes and what the waiters are told keep to their values.
THEOREM ExecPtyTypes == Spec => []TypeOK
<1>1. Init => ForkOnce
  BY DEF Init, ForkOnce
<1>2. FdInv /\ EchoInv /\ WaitInv /\ TableOk /\ PlacesOk => TypeOK
  BY DEF FdInv, ArgsOk, EchoInv, TermOk, WaitInv, TableOk, PlacesOk, TypeOK
<1> QED
  BY <1>1, <1>2, InitFd, InitEcho, InitWait, InitTable, NextFork, NextFd, NextEcho, NextWait, NextTable,
     NextPlaces, PTL DEF Spec
=============================================================================
