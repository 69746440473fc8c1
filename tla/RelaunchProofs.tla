--------------------------- MODULE RelaunchProofs ---------------------------
(***************************************************************************)
(* What the restarter runs, what the launchers leave to the children of    *)
(* the IDE, and the options they start it with, for all arguments,         *)
(* environments, option files and numbers of launches.                     *)
(***************************************************************************)
EXTENDS Relaunch, FiniteSetTheorems, FunctionTheorems, WellFoundedInduction, TLAPS

Groups == [first : Nat, last : Nat]
Prepared == rpc \in {"wait", "run", "execd"} \/ ran > 0

\* The arguments before idx are taken up by groups, and a command needs all of them.
GroupTypes ==
  /\ rpc # "none" => args \in ArgLists
  /\ rpc = "none" => args = <<>> /\ ran = 0
  /\ commands \in Seq(Groups) /\ idx \in Nat /\ ran \in Nat
GroupsSoFar ==
  /\ commands = <<>> => idx = 1
  /\ commands # <<>> => idx = commands[Len(commands)].last + 1
  /\ idx <= Len(args) + 1
RunsAfterwards ==
  /\ Prepared => idx > Len(args) /\ rpc # "none" /\ rpc # "parse"
  /\ rpc \in {"run", "execd"} \/ ran > 0 => exit # "no"
RestarterInv == GroupTypes /\ GroupsSoFar /\ Tiling /\ RunsAfterwards

\* Remainders of numbers below twice the divisor.
LEMMA Remainder ==
  ASSUME NEW u \in Nat, NEW x \in Nat, x < 2 * u, x >= u
  PROVE  x % u = x - u
BY SMT

LEMMA SmallRemainder ==
  ASSUME NEW u \in Nat, NEW x \in Nat, x < u
  PROVE  x % u = x
BY SMT

\* A group that is accepted and is a slice ends where its number says: a sum that has wrapped
\* around ends before it starts.
LEMMA NoWrappedGroup ==
  ASSUME GroupTypes, rpc # "none", idx >= 1, idx <= Len(args), Accepted(args[idx]), GroupEnd(args[idx]) > idx
  PROVE  args[idx] \in Nat /\ args[idx] > 0 /\ GroupEnd(args[idx]) = idx + args[idx]
<1>1. args \in Seq(-1..Usize - 1) /\ Len(args) + 2 < Usize /\ Usize \in Nat
  BY ArgsAssumption DEF GroupTypes
<1>2. args[idx] \in -1..Usize - 1 /\ idx \in Nat
  BY <1>1 DEF GroupTypes
<1>3. args[idx] > 0 /\ args[idx] \in Nat
  BY <1>2, <1>1 DEF Accepted
<1> DEFINE n == args[idx] sum == idx + n + 1
<1>4. sum \in Nat /\ sum < 2 * Usize /\ n \in Nat /\ n < Usize
  BY <1>1, <1>2, <1>3
<1>5. GroupEnd(n) = (sum % Usize) - 1
  BY DEF GroupEnd
<1> HIDE DEF n, sum
<1>6. CASE sum >= Usize
  <2>1. sum % Usize = sum - Usize
    BY <1>1, <1>4, <1>6, Remainder
  <2>2. sum - Usize - 1 < idx
    BY <1>1, <1>2, <1>4 DEF sum
  <2> QED BY <2>1, <2>2, <1>5, <1>4, <1>1, <1>2 DEF n
<1>7. CASE sum < Usize
  <2>1. sum % Usize = sum
    BY <1>1, <1>4, <1>7, SmallRemainder
  <2> QED BY <2>1, <1>3, <1>4, <1>5, <1>2 DEF sum, n
<1> QED BY <1>6, <1>7, <1>4, <1>1

LEMMA LastGroup ==
  ASSUME GroupTypes, commands # <<>>
  PROVE  commands[Len(commands)].last \in Nat
<1>1. commands \in Seq(Groups)
  BY DEF GroupTypes
<1>2. commands[Len(commands)] \in Groups
  BY <1>1
<1> QED BY <1>2 DEF Groups

----------------------------------------------------------------------------
LEMMA RestarterInitially == Init => RestarterInv
BY DEF Init, RestarterInit, RestarterInv, GroupTypes, GroupsSoFar, Tiling, RunsAfterwards, Prepared

LEMMA StartStep == RestarterInv /\ RequestRestart => RestarterInv'
<1> SUFFICES ASSUME RestarterInv, RequestRestart PROVE RestarterInv'
  OBVIOUS
<1>1. args' \in ArgLists /\ args' \in Seq(-1..Usize - 1)
  BY ArgsAssumption DEF RequestRestart, Start
<1>2. Len(args') \in Nat
  BY <1>1
<1> QED
  BY <1>1, <1>2 DEF RequestRestart, Start, RestarterInv, GroupTypes, GroupsSoFar, Tiling, RunsAfterwards, Prepared

\* One more group, right after the ones before it.
LEMMA ParseGroupStep == RestarterInv /\ ParseGroup /\ UNCHANGED lvars => RestarterInv'
<1> SUFFICES ASSUME RestarterInv, ParseGroup, UNCHANGED lvars PROVE RestarterInv'
  OBVIOUS
<1> DEFINE n == args[idx] last == GroupEnd(n)
<1>a. args \in ArgLists /\ args \in Seq(-1..Usize - 1) /\ Len(args) \in Nat
  BY ArgsAssumption DEF RestarterInv, GroupTypes, ParseGroup
<1>b. idx \in Nat /\ idx >= 1 /\ idx <= Len(args) /\ rpc = "parse" /\ ran = 0
  <2>1. idx >= 1
    BY LastGroup DEF RestarterInv, GroupTypes, GroupsSoFar
  <2>2. ran = 0
    BY DEF RestarterInv, GroupTypes, RunsAfterwards, Prepared, ParseGroup
  <2> QED BY <2>1, <2>2 DEF RestarterInv, GroupTypes, ParseGroup
<1>1. CASE rpc' \in {"failed", "panicked"} /\ UNCHANGED <<idx, commands>>
  <2>1. UNCHANGED <<args, idx, commands, ran>> /\ rpc' # "none"
    BY <1>1 DEF ParseGroup
  <2>2. GroupTypes' /\ GroupsSoFar' /\ Tiling'
    BY <2>1, <1>a, <1>b DEF RestarterInv, GroupTypes, GroupsSoFar, Tiling
  <2>3. RunsAfterwards'
    BY <2>1, <1>1, <1>b DEF RunsAfterwards, Prepared
  <2> QED BY <2>2, <2>3 DEF RestarterInv
<1>2. CASE /\ Accepted(n) /\ last > idx /\ idx' = GroupAfter(last)
           /\ commands' = Append(commands, [first |-> idx + 1, last |-> last]) /\ UNCHANGED rpc
  <2>1. n \in Nat /\ n > 0 /\ last = idx + n
    BY <1>2, <1>b, NoWrappedGroup DEF RestarterInv
  <2>2. last <= Len(args)
    BY <1>2 DEF Accepted
  <2> DEFINE group == [first |-> idx + 1, last |-> last]
  <2> HIDE DEF n, last
  <2>3. group \in Groups
    BY <2>1, <1>b DEF Groups
  <2>4. commands \in Seq(Groups) /\ commands' = Append(commands, group)
    BY <1>2 DEF RestarterInv, GroupTypes
  <2> HIDE DEF group
  <2>5. /\ commands' \in Seq(Groups) /\ Len(commands') = Len(commands) + 1 /\ Len(commands) \in Nat
        /\ commands' # <<>> /\ commands'[Len(commands) + 1] = group
        /\ \A i \in 1..Len(commands) : commands'[i] = commands[i]
    BY <2>3, <2>4
  <2>6. group.first = idx + 1 /\ group.last = last
    BY DEF group
  <2>7. UNCHANGED <<args, ran, rpc>> /\ idx' = last + 1
    BY <1>2 DEF ParseGroup, GroupAfter
  <2>8. GroupTypes'
    BY <2>5, <2>7, <2>1, <1>a, <1>b DEF GroupTypes, RestarterInv
  <2>9. GroupsSoFar'
    BY <2>5, <2>6, <2>7, <2>1, <2>2, <1>a, <1>b DEF GroupsSoFar
  <2>10. Tiling'
    <3>1. commands'[1].first = 2
      <4>1. CASE commands = <<>>
        BY <4>1, <2>5, <2>6, <1>b DEF RestarterInv, GroupsSoFar
      <4>2. CASE commands # <<>>
        BY <4>2, <2>4, <2>5 DEF RestarterInv, Tiling
      <4> QED BY <4>1, <4>2
    <3>2. ASSUME NEW i \in DOMAIN commands'
          PROVE  /\ args[commands'[i].first - 1] = commands'[i].last - commands'[i].first + 1
                 /\ commands'[i].first <= commands'[i].last /\ commands'[i].last <= Len(args)
                 /\ i > 1 => commands'[i].first = commands'[i - 1].last + 2
      <4>1. i \in 1..Len(commands) + 1
        BY <3>2, <2>5
      <4>2. CASE i \in 1..Len(commands)
        <5>1. commands'[i] = commands[i] /\ (i > 1 => commands'[i - 1] = commands[i - 1]) /\ i \in DOMAIN commands
          BY <4>2, <2>5, <2>4
        <5> QED BY <5>1 DEF RestarterInv, Tiling
      <4>3. CASE i = Len(commands) + 1
        <5>1. commands'[i].first = idx + 1 /\ commands'[i].last = idx + n
          BY <4>3, <2>5, <2>6, <2>1
        <5>2. args[commands'[i].first - 1] = n
          BY <5>1, <1>b DEF n
        <5>3. ASSUME i > 1 PROVE commands'[i].first = commands'[i - 1].last + 2
          <6>1. commands # <<>> /\ i - 1 = Len(commands) /\ i - 1 \in 1..Len(commands)
            BY <5>3, <4>3, <2>5, <2>4
          <6>2. commands'[i - 1] = commands[Len(commands)]
            BY <6>1, <2>5
          <6>3. commands[Len(commands)].last \in Nat
            BY <6>1, LastGroup DEF RestarterInv
          <6> QED BY <6>1, <6>2, <6>3, <5>1 DEF RestarterInv, GroupsSoFar
        <5> QED BY <5>1, <5>2, <5>3, <2>1, <2>2, <1>b
      <4> QED BY <4>1, <4>2, <4>3, <2>5
    <3> QED BY <3>1, <3>2, <2>7 DEF Tiling
  <2>11. RunsAfterwards'
    BY <2>7, <1>b DEF RunsAfterwards, Prepared
  <2> QED BY <2>8, <2>9, <2>10, <2>11 DEF RestarterInv
<1> QED BY <1>1, <1>2 DEF ParseGroup

\* The groups do not change any more: parsing ends, the IDE goes, the commands are started.
LEMMA OtherStep ==
  ASSUME RestarterInv, UNCHANGED lvars,
         ParsePid \/ Parsed \/ WaitForExit(exit # "no") \/ RunCommand \/ ExecCommand
  PROVE  RestarterInv'
<1>1. UNCHANGED <<args, idx, commands>> /\ rpc # "none" /\ rpc' # "none"
  BY DEF ParsePid, Parsed, WaitForExit, RunCommand, ExecCommand
<1>2. ran \in Nat /\ ran' \in Nat
  BY DEF RestarterInv, GroupTypes, ParsePid, Parsed, WaitForExit, RunCommand, ExecCommand
<1>3. GroupTypes' /\ GroupsSoFar' /\ Tiling'
  BY <1>1, <1>2 DEF RestarterInv, GroupTypes, GroupsSoFar, Tiling
<1>4. RunsAfterwards'
  BY <1>1, <1>2 DEF RestarterInv, GroupTypes, RunsAfterwards, Prepared, ParsePid, Parsed, WaitForExit,
                    RunCommand, ExecCommand, lvars
<1> QED BY <1>3, <1>4 DEF RestarterInv

LEMMA RestarterStep == RestarterInv /\ [Next]_vars => RestarterInv'
<1> SUFFICES ASSUME RestarterInv, [Next]_vars PROVE RestarterInv'
  OBVIOUS
<1>1. CASE LauncherNext /\ UNCHANGED <<rvars, launches>>
  <2>1. exit = "no"
    BY <1>1 DEF LauncherNext, MainThread, JvmThread, JvmPanics, MainEnds, Abort, AbortEnds
  <2>2. UNCHANGED <<args, rpc, idx, commands, ran>>
    BY <1>1 DEF rvars
  <2>3. GroupTypes' /\ GroupsSoFar' /\ Tiling'
    BY <2>2 DEF RestarterInv, GroupTypes, GroupsSoFar, Tiling
  <2>4. RunsAfterwards'
    BY <2>1, <2>2 DEF RestarterInv, RunsAfterwards, Prepared
  <2> QED BY <2>3, <2>4 DEF RestarterInv
<1>2. CASE RequestRestart
  BY <1>2, StartStep
<1>3. CASE RestarterNext
  <2>1. UNCHANGED lvars
    BY <1>3 DEF RestarterNext
  <2>2. CASE ParseGroup
    BY <2>1, <2>2, ParseGroupStep
  <2>3. CASE ParsePid \/ Parsed \/ WaitForExit(exit # "no") \/ RunCommand \/ ExecCommand
    BY <2>1, <2>3, OtherStep
  <2> QED BY <1>3, <2>2, <2>3 DEF RestarterNext
<1>4. CASE LaunchAgain
  BY <1>4 DEF LaunchAgain, RestarterInv, GroupTypes, GroupsSoFar, Tiling, RunsAfterwards, Prepared
<1>5. CASE UNCHANGED vars
  BY <1>5 DEF vars, lvars, rvars, RestarterInv, GroupTypes, GroupsSoFar, Tiling, RunsAfterwards, Prepared
<1> QED BY <1>1, <1>2, <1>3, <1>4, <1>5 DEF Next

\* No command is started before the IDE is gone and all arguments of the restarter made sense.
THEOREM CommandsInOrder == Spec => []CommandsChecked
<1>1. RestarterInv => CommandsChecked
  <2> SUFFICES ASSUME RestarterInv, ran > 0 PROVE CommandsChecked
    BY DEF CommandsChecked
  <2>1. exit # "no" /\ idx > Len(args) /\ rpc # "none" /\ Tiling /\ idx <= Len(args) + 1
    BY DEF RestarterInv, RunsAfterwards, Prepared, GroupsSoFar
  <2>2. Len(args) \in Nat /\ Len(args) >= 2 /\ idx \in Nat
    BY <2>1, ArgsAssumption DEF RestarterInv, GroupTypes
  <2>3. commands # <<>> /\ idx = commands[Len(commands)].last + 1
    BY <2>1, <2>2 DEF RestarterInv, GroupsSoFar
  <2>4. commands[Len(commands)].last \in Nat
    BY <2>3, LastGroup DEF RestarterInv
  <2> QED BY <2>1, <2>2, <2>3, <2>4 DEF CommandsChecked
<1> QED BY <1>1, RestarterInitially, RestarterStep, PTL DEF Spec

----------------------------------------------------------------------------
\* Not set and empty are the same to those who read the variables.
Same(a, b) == a = b \/ {a, b} = {Unset, <<>>}
EnvInv ==
  /\ \A k \in Keys : Same(ForChildren[k], userEnv[k])
  /\ main \in {"configure", "env"} => \A k \in Keys : backup[k] = Unset

\* What a launcher overrides it saves, and a launcher overrides once.
LEMMA InitEnvStep ==
  ASSUME EnvInv, InitEnvVars, UNCHANGED userEnv
  PROVE  EnvInv'
<1>1. CASE Fails
  BY <1>1 DEF Fails, EnvInv, ForChildren, environ
<1>2. CASE \E keys \in SUBSET Keys :
             /\ env' = [k \in Keys |-> IF k \in keys THEN Overriding(k) ELSE env[k]]
             /\ backup' = [k \in Keys |-> IF k \in keys THEN Saved(k) ELSE backup[k]]
             /\ main' = "runtime"
  <2> PICK keys \in SUBSET Keys :
             /\ env' = [k \in Keys |-> IF k \in keys THEN Overriding(k) ELSE env[k]]
             /\ backup' = [k \in Keys |-> IF k \in keys THEN Saved(k) ELSE backup[k]]
             /\ main' = "runtime"
    BY <1>2
  <2>1. ASSUME NEW k \in Keys PROVE Same(ForChildren'[k], userEnv[k])
    <3>1. Same(env[k], userEnv[k]) /\ backup[k] = Unset
      BY DEF EnvInv, InitEnvVars, ForChildren
    <3>2. ForChildren'[k] = IF backup'[k] = Unset THEN env'[k]
                            ELSE IF backup'[k] = <<>> THEN Unset ELSE backup'[k]
      BY DEF ForChildren
    <3>3. CASE k \notin keys
      BY <3>1, <3>2, <3>3
    <3>4. CASE k \in keys
      <4>1. backup'[k] = IF env[k] = Unset THEN <<>> ELSE env[k]
        BY <3>4 DEF Saved
      <4>2. Unset # <<>>
        BY DEF Unset
      <4>3. ForChildren'[k] = IF env[k] = <<>> THEN Unset ELSE env[k]
        BY <4>1, <4>2, <3>2
      <4> QED BY <4>2, <4>3, <3>1 DEF Same
    <3> QED BY <3>3, <3>4
  <2> QED BY <2>1 DEF EnvInv
<1> QED BY <1>1, <1>2 DEF InitEnvVars

LEMMA EnvStep == EnvInv /\ [Next]_vars => EnvInv'
<1> SUFFICES ASSUME EnvInv, [Next]_vars PROVE EnvInv'
  OBVIOUS
<1>1. CASE InitEnvVars /\ UNCHANGED input
  BY <1>1, InitEnvStep DEF input
<1>2. CASE UNCHANGED <<environ, input>> /\ (main' = main \/ main' \notin {"configure", "env"} \/ main = "configure")
  BY <1>2 DEF environ, input, EnvInv, ForChildren
<1>3. CASE LaunchAgain
  <2>1. env' = ForChildren /\ backup' = [k \in Keys |-> Unset] /\ userEnv' = userEnv
    BY <1>3 DEF LaunchAgain, input
  <2>2. \A k \in Keys : ForChildren'[k] = ForChildren[k]
    BY <2>1 DEF ForChildren
  <2> QED BY <2>1, <2>2 DEF EnvInv
<1>4. CASE LauncherNext /\ ~InitEnvVars
  <2>1. CASE MainThread
    BY <1>2, <1>4, <2>1 DEF MainThread, GetConfiguration, LocateRuntime, CollectOptions, Spawn, Recv, Join, ShowError, Fails
  <2>2. CASE JvmThread \/ JvmPanics \/ MainEnds \/ Abort \/ AbortEnds
    BY <1>2, <2>2 DEF JvmThread, JvmPanics, MainEnds, Abort, AbortEnds
  <2> QED BY <1>4, <2>1, <2>2 DEF LauncherNext
<1>5. CASE RequestRestart \/ RestarterNext \/ UNCHANGED vars
  BY <1>2, <1>5 DEF RequestRestart, RestarterNext, vars, lvars
<1>6. CASE LauncherNext /\ InitEnvVars
  <2>1. main = "env" /\ UNCHANGED exit
    BY <1>6 DEF InitEnvVars
  <2> QED BY <1>1, <1>2, <1>6 DEF LauncherNext, MainThread, JvmThread, JvmPanics, MainEnds, Abort, AbortEnds
<1> QED BY <1>3, <1>4, <1>5, <1>6 DEF Next

\* Whatever the launchers override, a child of the IDE gets what the user had.
THEOREM EnvironmentPreserved == Spec => []EnvPreserved
<1>1. Init => EnvInv
  BY DEF Init, LauncherInit, EnvInv, ForChildren, Same
<1>2. EnvInv => EnvPreserved
  BY DEF EnvInv, EnvPreserved, Same
<1> QED BY <1>1, <1>2, EnvStep, PTL DEF Spec
----------------------------------------------------------------------------
\* What each thread knows of the other's progress, and what is known of the messages.
ThreadsApart ==
  /\ main \in {"configure", "env", "runtime", "options", "spawn"} => jvm = "none"
  /\ main \in {"error", "shown"} => jvm \in {"none", "returned", "panicked"}
  /\ channel \in {"error", "jvm_text"} => jvm = "returned"
  /\ lock = "abort" => jvm \in {"create", "created", "refused", "ready", "main", "panicked"}
SaidIsKept ==
  /\ said \in BOOLEAN /\ (jvm \in {"none", "load", "hook", "failed"} => said = FALSE)
  /\ jvm \in {"create", "created"} => messages # "off"
  /\ said = TRUE /\ jvm \in {"create", "created", "refused"} => messages = "text"
  /\ said = TRUE /\ jvm = "returned" => channel = "jvm_text"
ToldInTime ==
  /\ lock = "abort" /\ said = TRUE /\ jvm \in {"create", "created", "refused"} => "jvm_text" \in told
  /\ main = "shown" => told # {} /\ (channel = "jvm_text" => "jvm_text" \in told)
  /\ exit = "failed" => main = "shown" \/ jvm = "main"
  /\ exit = "aborted" => lock = "abort"
TellInv == ThreadsApart /\ SaidIsKept /\ ToldInTime

\* The main thread is where it was, or further on; it fails only without a JVM that runs.
LEMMA MainThreadTells ==
  ASSUME TellInv, MainThread
  PROVE  TellInv'
<1>1. exit = "no" /\ UNCHANGED <<channel, messages, lock, said>>
  BY DEF MainThread, hooks
<1>2. CASE GetConfiguration \/ InitEnvVars \/ LocateRuntime \/ CollectOptions \/ Spawn \/ Recv \/ Join
  <2>1. UNCHANGED told
    BY <1>2 DEF MainThread, ShowError, GetConfiguration, InitEnvVars, LocateRuntime, CollectOptions, Spawn, Recv, Join
  <2>2. CASE GetConfiguration \/ InitEnvVars \/ LocateRuntime \/ CollectOptions
    BY <1>1, <2>1, <2>2
    DEF GetConfiguration, InitEnvVars, LocateRuntime, CollectOptions, Fails, TellInv, ThreadsApart, SaidIsKept, ToldInTime
  <2>3. CASE Spawn
    BY <1>1, <2>1, <2>3 DEF Spawn, Fails, TellInv, ThreadsApart, SaidIsKept, ToldInTime
  <2>4. CASE Recv \/ Join
    BY <1>1, <2>1, <2>4 DEF Recv, Join, TellInv, ThreadsApart, SaidIsKept, ToldInTime
  <2> QED BY <1>2, <2>2, <2>3, <2>4
<1>3. CASE ShowError
  BY <1>1, <1>3 DEF ShowError, TellInv, ThreadsApart, SaidIsKept, ToldInTime
<1> QED BY <1>2, <1>3 DEF MainThread

\* What the JVM thread prints while the JVM is created stays until it is reported.
LEMMA JvmThreadTells ==
  ASSUME TellInv, JvmThread \/ JvmPanics
  PROVE  TellInv'
<1>1. exit = "no" /\ UNCHANGED <<main, told, exit>>
  BY DEF JvmThread, JvmPanics
<1>2. CASE Load
  BY <1>1, <1>2 DEF Load, hooks, TellInv, ThreadsApart, SaidIsKept, ToldInTime
<1>3. CASE InstallHook
  BY <1>1, <1>3 DEF InstallHook, hooks, TellInv, ThreadsApart, SaidIsKept, ToldInTime
<1>4. CASE Prints
  BY <1>1, <1>4 DEF Prints, hooks, TellInv, ThreadsApart, SaidIsKept, ToldInTime
<1>5. CASE Create
  BY <1>1, <1>5 DEF Create, hooks, TellInv, ThreadsApart, SaidIsKept, ToldInTime
<1>6. CASE ReportRefusal
  BY <1>1, <1>6 DEF ReportRefusal, hooks, TellInv, ThreadsApart, SaidIsKept, ToldInTime
<1>7. CASE ReportFailure
  BY <1>1, <1>7 DEF ReportFailure, hooks, TellInv, ThreadsApart, SaidIsKept, ToldInTime
<1>8. CASE RemoveHook
  BY <1>1, <1>8 DEF RemoveHook, hooks, TellInv, ThreadsApart, SaidIsKept, ToldInTime
<1>9. CASE SendReady
  BY <1>1, <1>9 DEF SendReady, hooks, TellInv, ThreadsApart, SaidIsKept, ToldInTime
<1>10. CASE Panic
  BY <1>1, <1>10 DEF Panic, hooks, TellInv, ThreadsApart, SaidIsKept, ToldInTime
<1> QED
  BY <1>2, <1>3, <1>4, <1>5, <1>6, <1>7, <1>8, <1>9, <1>10 DEF JvmThread, JvmPanics

LEMMA TellStep == TellInv /\ [Next]_vars => TellInv'
<1> SUFFICES ASSUME TellInv, [Next]_vars PROVE TellInv'
  OBVIOUS
<1>1. CASE MainThread
  BY <1>1, MainThreadTells
<1>2. CASE JvmThread \/ JvmPanics
  BY <1>2, JvmThreadTells
<1>3. CASE MainEnds \/ Abort \/ AbortEnds
  BY <1>3 DEF MainEnds, Abort, AbortEnds, hooks, TellInv, ThreadsApart, SaidIsKept, ToldInTime
<1>4. CASE LaunchAgain
  BY <1>4 DEF LaunchAgain, TellInv, ThreadsApart, SaidIsKept, ToldInTime
<1>5. CASE RequestRestart \/ RestarterNext \/ UNCHANGED vars
  <2>1. UNCHANGED <<main, jvm, channel, messages, lock, said, told, exit>>
    BY <1>5 DEF RequestRestart, RestarterNext, vars, lvars, hooks
  <2> QED BY <2>1 DEF TellInv, ThreadsApart, SaidIsKept, ToldInTime
<1> QED BY <1>1, <1>2, <1>3, <1>4, <1>5 DEF Next, LauncherNext

\* No start fails silently, and what the JVM said while it was created is in what is shown.
THEOREM FailuresTold == Spec => []FailureTold
<1>1. Init => TellInv
  BY DEF Init, LauncherInit, Fresh, TellInv, ThreadsApart, SaidIsKept, ToldInTime
<1>2. TellInv => FailureTold
  BY DEF TellInv, ThreadsApart, SaidIsKept, ToldInTime, FailureTold
<1> QED BY <1>1, <1>2, TellStep, PTL DEF Spec
----------------------------------------------------------------------------
\* Some element of a set of numbers below a bound is the greatest.
LEMMA Greatest ==
  ASSUME NEW n \in Nat, NEW S \in SUBSET (0..n), S # {}
  PROVE  \E i \in S : \A j \in S : j <= i
<1> DEFINE below == {p \in Nat \X Nat : p[1] < p[2]}
           T == {n - i : i \in S}
<1>1. IsWellFoundedOn(below, Nat)
  BY NatLessThanWellFounded DEF OpToRel
<1>2. T \subseteq Nat /\ T # {}
  <2>1. \A i \in S : i \in Nat /\ i <= n
    OBVIOUS
  <2>2. \A i \in S : n - i \in Nat
    BY <2>1
  <2> QED BY <2>2
<1> HIDE DEF T
<1>3. PICK t \in T : \A u \in T : <<u, t>> \notin below
  BY <1>1, <1>2, WFMin
<1>4. \A u \in T : t <= u
  <2> SUFFICES ASSUME NEW u \in T, ~(t <= u) PROVE FALSE
    OBVIOUS
  <2>1. u \in Nat /\ t \in Nat /\ u < t
    BY <1>2
  <2>2. <<u, t>> \in below
    BY <2>1
  <2> QED BY <1>3, <2>2
<1>5. PICK i \in S : t = n - i
  BY DEF T
<1>6. ASSUME NEW j \in S PROVE j <= i
  <2>1. i \in Nat /\ j \in Nat
    OBVIOUS
  <2>2. n - i <= n - j
    BY <1>4, <1>5 DEF T
  <2> QED BY <2>1, <2>2
<1> QED BY <1>5, <1>6

\* How many of a set of numbers are not above i.
Rank(S, i) == Cardinality({k \in S : k <= i})

\* The ranks are 1..Cardinality(S), each of them once, and in the order of the numbers.
LEMMA Ranks ==
  ASSUME NEW n \in Nat, NEW S \in SUBSET (1..n)
  PROVE  /\ IsFiniteSet(S) /\ Cardinality(S) \in Nat
         /\ \A i \in S : Rank(S, i) \in 1..Cardinality(S)
         /\ \A i, j \in S : i < j => Rank(S, i) < Rank(S, j)
         /\ \A r \in 1..Cardinality(S) : \E i \in S : Rank(S, i) = r
<1>0. S \subseteq Nat
  OBVIOUS
<1>1. IsFiniteSet(S) /\ Cardinality(S) \in Nat
  <2>1. IsFiniteSet(1..n)
    BY FS_Interval
  <2> QED BY <2>1, FS_Subset, FS_CardinalityType
<1>2. ASSUME NEW i \in S
      PROVE  IsFiniteSet({k \in S : k <= i}) /\ Rank(S, i) \in 1..Cardinality(S)
  <2>1. {k \in S : k <= i} \in SUBSET S /\ i \in {k \in S : k <= i}
    BY <1>0
  <2>2. IsFiniteSet({k \in S : k <= i}) /\ Rank(S, i) <= Cardinality(S) /\ Rank(S, i) \in Nat
    BY <1>1, <2>1, FS_Subset, FS_CardinalityType DEF Rank
  <2>3. Rank(S, i) # 0
    BY <2>1, <2>2, FS_EmptySet DEF Rank
  <2> QED BY <1>1, <2>2, <2>3
<1>4. \A i \in S : Rank(S, i) \in Nat
  <2>1. \A i \in S : Rank(S, i) \in 1..Cardinality(S)
    BY <1>2
  <2> QED BY <1>1, <2>1
<1>3. ASSUME NEW i \in S, NEW j \in S, i < j
      PROVE  Rank(S, i) < Rank(S, j)
  <2>0. i \in Nat /\ j \in Nat
    BY <1>0
  <2>1. {k \in S : k <= i} \in SUBSET {k \in S : k <= j}
    <3>1. ASSUME NEW k \in S, k <= i PROVE k <= j
      BY <1>0, <1>3, <2>0, <3>1
    <3> QED BY <3>1
  <2>2. {k \in S : k <= i} # {k \in S : k <= j}
    <3>1. j \in {k \in S : k <= j} /\ j \notin {k \in S : k <= i}
      BY <1>3, <2>0
    <3> QED BY <3>1
  <2>3. Rank(S, i) <= Rank(S, j) /\ Rank(S, i) # Rank(S, j)
    BY <1>2, <2>1, <2>2, FS_Subset DEF Rank
  <2>4. Rank(S, i) \in Nat /\ Rank(S, j) \in Nat
    BY <1>4
  <2> QED BY <2>3, <2>4
<1>5. ASSUME NEW r \in 1..Cardinality(S)
      PROVE  \E i \in S : Rank(S, i) = r
  <2> DEFINE f == [i \in S |-> Rank(S, i)]
  <2>1. f \in [S -> 1..Cardinality(S)]
    BY <1>2
  <2>2. \A i, j \in S : f[i] = f[j] => i = j
    <3> SUFFICES ASSUME NEW i \in S, NEW j \in S, Rank(S, i) = Rank(S, j), i # j PROVE FALSE
      OBVIOUS
    <3>1. i < j \/ j < i
      BY <1>0
    <3>2. Rank(S, i) < Rank(S, j) \/ Rank(S, j) < Rank(S, i)
      BY <1>3, <3>1
    <3>3. Rank(S, i) \in Nat
      BY <1>4
    <3> QED BY <3>2, <3>3
  <2>3. f \in Injection(S, 1..Cardinality(S))
    BY <2>1, <2>2, Fun_IsInj
  <2>4. IsFiniteSet(1..Cardinality(S)) /\ Cardinality(1..Cardinality(S)) = Cardinality(S)
    <3>1. Cardinality(S) - 1 + 1 = Cardinality(S) /\ (1 > Cardinality(S) => Cardinality(S) = 0)
      BY <1>1
    <3> QED BY <1>1, <3>1, FS_Interval
  <2>5. f \in Surjection(S, 1..Cardinality(S))
    BY <2>3, <2>4, FS_Injection
  <2>6. \E i \in S : f[i] = r
    <3> HIDE DEF f
    <3> QED BY <2>5 DEF Surjection
  <2> QED BY <2>6
<1> QED BY <1>1, <1>2, <1>3, <1>5

\* The last option of the kind k has the value v.
LastIs(s, k, v) ==
  \E i \in DOMAIN s : s[i].kind = k /\ s[i].value = v /\ \A j \in DOMAIN s : j > i => s[j].kind # k

LEMMA ListOf ==
  ASSUME NEW S, NEW s \in Seq(S)
  PROVE  IsList(s) /\ Range(s) \subseteq S
BY DEF IsList, Range

\* A filter keeps exactly the options of the other kinds, and in the order they had.
LEMMA WithoutKeeps ==
  ASSUME NEW s, IsList(s), NEW kinds
  PROVE  /\ IsList(Without(s, kinds))
         /\ Range(Without(s, kinds)) = {o \in Range(s) : o.kind \notin kinds}
         /\ \A k, v : k \notin kinds /\ LastIs(s, k, v) => LastIs(Without(s, kinds), k, v)
<1> DEFINE kept == {i \in DOMAIN s : s[i].kind \notin kinds}
           size == Cardinality(kept)
           nth(r) == CHOOSE i \in kept : Rank(kept, i) = r
           R == Without(s, kinds)
<1>0. PICK S : s \in Seq(S)
  BY DEF IsList
<1>1. R = [r \in 1..size |-> s[nth(r)]]
  BY DEF Without, Rank
<1>2. kept \in SUBSET (1..Len(s)) /\ Len(s) \in Nat /\ DOMAIN s = 1..Len(s)
  BY <1>0
<1>3. kept \subseteq DOMAIN s /\ \A i \in DOMAIN s : i \in kept <=> s[i].kind \notin kinds
  OBVIOUS
<1> HIDE DEF kept
<1>4. /\ size \in Nat
      /\ \A i \in kept : Rank(kept, i) \in 1..size
      /\ \A i, j \in kept : i < j => Rank(kept, i) < Rank(kept, j)
      /\ \A r \in 1..size : \E i \in kept : Rank(kept, i) = r
  BY <1>2, Ranks
<1> HIDE DEF size
<1>5. ASSUME NEW r \in 1..size PROVE nth(r) \in kept /\ Rank(kept, nth(r)) = r
  BY <1>4
<1>6. ASSUME NEW i \in kept PROVE Rank(kept, i) \in 1..size /\ nth(Rank(kept, i)) = i
  <2>1. Rank(kept, i) \in 1..size
    BY <1>4
  <2> DEFINE j == nth(Rank(kept, i))
  <2>2. j \in kept /\ Rank(kept, j) = Rank(kept, i)
    BY <1>5, <2>1
  <2> HIDE DEF j
  <2>3. i \in Nat /\ j \in Nat
    BY <1>2, <2>2
  <2>4. ~(i < j) /\ ~(j < i)
    BY <1>4, <2>1, <2>2
  <2>5. i = j
    BY <2>3, <2>4
  <2> QED BY <2>1, <2>5 DEF j
<1> HIDE DEF nth, R
<1>7. R \in Seq(S) /\ DOMAIN R = 1..size /\ \A r \in 1..size : R[r] = s[nth(r)]
  <2>1. \A r \in 1..size : s[nth(r)] \in S
    <3>1. \A i \in DOMAIN s : s[i] \in S
      BY <1>0, <1>2
    <3>2. \A r \in 1..size : nth(r) \in kept
      BY <1>5
    <3> QED BY <1>3, <3>1, <3>2
  <2> QED BY <1>1, <1>4, <2>1
<1>8. Range(R) = {o \in Range(s) : o.kind \notin kinds}
  <2>1. ASSUME NEW r \in 1..size PROVE R[r] \in Range(s) /\ R[r].kind \notin kinds
    BY <1>3, <1>5, <1>7 DEF Range
  <2>2. ASSUME NEW i \in DOMAIN s, s[i].kind \notin kinds PROVE s[i] \in Range(R)
    <3>1. i \in kept
      BY <1>3, <2>2
    <3> QED BY <1>6, <1>7, <3>1 DEF Range
  <2> QED BY <1>7, <2>1, <2>2 DEF Range
<1>9. ASSUME NEW k, NEW v, k \notin kinds, LastIs(s, k, v)
      PROVE  LastIs(R, k, v)
  <2>1. PICK i \in DOMAIN s : s[i].kind = k /\ s[i].value = v /\ \A j \in DOMAIN s : j > i => s[j].kind # k
    BY <1>9 DEF LastIs
  <2>2. i \in kept
    BY <1>3, <1>9, <2>1
  <2>3. PICK r \in 1..size : r = Rank(kept, i) /\ nth(r) = i
    BY <1>6, <2>2
  <2>4. ASSUME NEW q \in DOMAIN R, q > r PROVE R[q].kind # k
    <3>1. q \in 1..size /\ nth(q) \in kept /\ Rank(kept, nth(q)) = q
      BY <1>5, <1>7
    <3>2. nth(q) \in Nat /\ i \in Nat /\ q \in Nat /\ r \in Nat
      BY <1>2, <1>4, <2>2, <3>1
    <3>3. nth(q) > i
      <4>1. ~(nth(q) < i)
        BY <1>4, <2>2, <2>3, <2>4, <3>1, <3>2
      <4>2. nth(q) # i
        BY <2>3, <2>4, <3>1, <3>2
      <4> QED BY <3>2, <4>1, <4>2
    <3> QED BY <1>3, <1>7, <2>1, <3>1, <3>3
  <2> QED BY <1>7, <2>1, <2>3, <2>4 DEF LastIs
<1> QED BY <1>7, <1>8, <1>9, ListOf DEF R

\* Two lists are sequences over one set.
LEMMA ListsTogether ==
  ASSUME NEW s, NEW t, IsList(s), IsList(t)
  PROVE  \E S : s \in Seq(S) /\ t \in Seq(S)
<1> DEFINE S == Range(s) \cup Range(t)
<1>1. s \in Seq(Range(s)) /\ t \in Seq(Range(t))
  BY DEF IsList
<1>2. (\A i \in 1..Len(s) : s[i] \in S) /\ (\A i \in 1..Len(t) : t[i] \in S)
  BY <1>1
<1>3. s \in Seq(S) /\ t \in Seq(S)
  BY <1>1, <1>2
<1> QED BY <1>3

LEMMA OptionsOfBoth ==
  ASSUME NEW s, IsList(s), NEW t, IsList(t)
  PROVE  IsList(s \o t) /\ Range(s \o t) = Range(s) \cup Range(t)
<1>0. PICK S : s \in Seq(S) /\ t \in Seq(S)
  BY ListsTogether
<1>1. s \o t \in Seq(S) /\ DOMAIN (s \o t) = 1..Len(s) + Len(t)
  BY <1>0
<1>2. \A i \in 1..Len(s) : (s \o t)[i] = s[i]
  BY <1>0
<1>3. \A i \in 1..Len(t) : (s \o t)[Len(s) + i] = t[i] /\ Len(s) + i \in 1..Len(s) + Len(t)
  BY <1>0
<1>4. \A i \in 1..Len(s) + Len(t) : i \in 1..Len(s) \/ (i - Len(s) \in 1..Len(t) /\ i = Len(s) + (i - Len(s)))
  BY <1>0
<1>5. \A i \in 1..Len(s) + Len(t) : (s \o t)[i] \in Range(s) \cup Range(t)
  BY <1>2, <1>3, <1>4 DEF Range
<1>6. \A i \in DOMAIN s : s[i] \in Range(s \o t)
  BY <1>1, <1>2 DEF Range
<1>7. \A i \in DOMAIN t : t[i] \in Range(s \o t)
  <2>1. DOMAIN t = 1..Len(t)
    BY <1>0
  <2> QED BY <1>1, <1>3, <2>1 DEF Range
<1>8. Range(s \o t) \subseteq Range(s) \cup Range(t)
  BY <1>1, <1>5 DEF Range
<1>9. Range(s) \subseteq Range(s \o t) /\ Range(t) \subseteq Range(s \o t)
  BY <1>6, <1>7 DEF Range
<1> QED BY <1>1, <1>8, <1>9, ListOf

LEMMA OptionsOfOne ==
  ASSUME NEW o
  PROVE  IsList(<<o>>) /\ Range(<<o>>) = {o}
<1>1. <<o>> \in Seq({o}) /\ DOMAIN <<o>> = {1} /\ <<o>>[1] = o
  OBVIOUS
<1>2. Range(<<o>>) = {<<o>>[i] : i \in {1}}
  BY <1>1 DEF Range
<1>3. <<o>> \in Seq(Range(<<o>>))
  BY <1>1, <1>2
<1> QED BY <1>1, <1>2, <1>3 DEF IsList

LEMMA NoOptions == IsList(<<>>) /\ Range(<<>>) = {} /\ Kinds(<<>>) = {}
<1>1. <<>> \in Seq({}) /\ DOMAIN <<>> = {}
  OBVIOUS
<1>2. Range(<<>>) = {} /\ Kinds(<<>>) = {}
  BY <1>1 DEF Range, Kinds
<1> QED BY <1>1, <1>2 DEF IsList

LEMMA KindsOfOptions == \A s : Kinds(s) = {o.kind : o \in Range(s)}
BY DEF Kinds, Range

\* The later options count, and the earlier ones where the later are of other kinds.
LEMMA LastOfBoth ==
  ASSUME NEW s, IsList(s), NEW t, IsList(t), NEW k, NEW v
  PROVE  /\ LastIs(t, k, v) => LastIs(s \o t, k, v)
         /\ LastIs(s, k, v) /\ k \notin Kinds(t) => LastIs(s \o t, k, v)
<1>0. PICK S : s \in Seq(S) /\ t \in Seq(S)
  BY ListsTogether
<1>1. s \o t \in Seq(S) /\ DOMAIN (s \o t) = 1..Len(s) + Len(t)
  BY <1>0
<1>2. \A i \in 1..Len(s) : (s \o t)[i] = s[i] /\ i \in 1..Len(s) + Len(t)
  BY <1>0
<1>3. \A i \in 1..Len(t) : (s \o t)[Len(s) + i] = t[i] /\ Len(s) + i \in 1..Len(s) + Len(t)
  BY <1>0
<1>4. ASSUME LastIs(t, k, v) PROVE LastIs(s \o t, k, v)
  <2>1. PICK i \in 1..Len(t) : t[i].kind = k /\ t[i].value = v /\ \A j \in 1..Len(t) : j > i => t[j].kind # k
    BY <1>0, <1>4 DEF LastIs
  <2>2. ASSUME NEW j \in 1..Len(s) + Len(t), j > Len(s) + i PROVE (s \o t)[j].kind # k
    <3>1. j - Len(s) \in 1..Len(t) /\ j - Len(s) > i /\ j = Len(s) + (j - Len(s))
      BY <1>0, <2>2
    <3> QED BY <1>3, <2>1, <3>1
  <2> QED BY <1>1, <1>3, <2>1, <2>2 DEF LastIs
<1>5. ASSUME LastIs(s, k, v), k \notin Kinds(t) PROVE LastIs(s \o t, k, v)
  <2>1. PICK i \in 1..Len(s) : s[i].kind = k /\ s[i].value = v /\ \A j \in 1..Len(s) : j > i => s[j].kind # k
    BY <1>0, <1>5 DEF LastIs
  <2>2. ASSUME NEW j \in 1..Len(s) + Len(t), j > i PROVE (s \o t)[j].kind # k
    <3>1. CASE j \in 1..Len(s)
      BY <1>2, <2>1, <2>2, <3>1
    <3>2. CASE j \notin 1..Len(s)
      <4>1. j - Len(s) \in 1..Len(t) /\ j = Len(s) + (j - Len(s))
        BY <1>0, <3>2
      <4>2. t[j - Len(s)].kind # k
        BY <1>0, <1>5, <4>1 DEF Kinds
      <4> QED BY <1>3, <4>1, <4>2
    <3> QED BY <3>1, <3>2
  <2> QED BY <1>1, <1>2, <2>1, <2>2 DEF LastIs
<1> QED BY <1>4, <1>5

\* What counts is the value of the last option.
LEMMA LastCounts ==
  ASSUME NEW s, IsList(s), NEW k
  PROVE  /\ \A v : LastIs(s, k, v) => k \in Kinds(s) /\ Effective(s, k) = v
         /\ k \in Kinds(s) => LastIs(s, k, Effective(s, k))
<1> DEFINE set == {i \in DOMAIN s : s[i].kind = k}
           last == CHOOSE i \in set : \A j \in set : j <= i
<1>0. DOMAIN s = 1..Len(s) /\ Len(s) \in Nat /\ Effective(s, k) = s[last].value
  BY DEF Effective, IsList
<1>1. set \in SUBSET (0..Len(s)) /\ \A i : i \in set <=> i \in DOMAIN s /\ s[i].kind = k
  BY <1>0
<1> HIDE DEF set
<1>2. ASSUME NEW i \in set, \A j \in set : j <= i PROVE last = i
  <2>1. last \in set /\ \A j \in set : j <= last
    BY <1>2
  <2> HIDE DEF last
  <2>2. last <= i /\ i <= last /\ i \in Nat /\ last \in Nat
    BY <1>1, <1>2, <2>1
  <2> QED BY <2>2
<1> HIDE DEF last
<1>3. ASSUME NEW v, LastIs(s, k, v) PROVE k \in Kinds(s) /\ Effective(s, k) = v
  <2>1. PICK i \in DOMAIN s : s[i].kind = k /\ s[i].value = v /\ \A j \in DOMAIN s : j > i => s[j].kind # k
    BY <1>3 DEF LastIs
  <2>2. i \in set /\ \A j \in set : j <= i
    <3>1. ASSUME NEW j \in set PROVE j <= i
      <4>1. j \in DOMAIN s /\ ~(j > i)
        BY <1>1, <2>1
      <4> QED BY <1>0, <4>1
    <3> QED BY <1>1, <2>1, <3>1
  <2> QED BY <1>0, <1>2, <2>1, <2>2 DEF Kinds
<1>4. ASSUME k \in Kinds(s) PROVE LastIs(s, k, Effective(s, k))
  <2>1. set # {}
    BY <1>1, <1>4 DEF Kinds
  <2>2. PICK i \in set : \A j \in set : j <= i
    BY <1>0, <1>1, <2>1, Greatest
  <2>3. i \in DOMAIN s /\ s[i].kind = k /\ Effective(s, k) = s[i].value
    BY <1>0, <1>1, <1>2, <2>2
  <2>4. ASSUME NEW j \in DOMAIN s, j > i PROVE s[j].kind # k
    <3>1. ~(j <= i)
      BY <1>0, <2>3, <2>4
    <3> QED BY <1>1, <2>2, <3>1
  <2> QED BY <2>3, <2>4 DEF LastIs
<1> QED BY <1>3, <1>4

\* A file without a NUL is what it says but for the blank lines; one with a NUL says nothing.
LEMMA ReadOptions ==
  ASSUME NEW file, IsList(file)
  PROVE  LET read == ReadVmOptions(file) IN
         /\ IsList(read.options) /\ Range(read.options) \subseteq Range(file)
         /\ read.corrupted => read.options = <<>>
<1>1. CASE "nul" \in Kinds(file)
  BY <1>1, NoOptions DEF ReadVmOptions
<1>2. CASE "nul" \notin Kinds(file)
  <2>1. ReadVmOptions(file) = [options |-> Without(file, {"blank"}), corrupted |-> FALSE]
    BY <1>2 DEF ReadVmOptions
  <2>2. PICK lines : lines = Without(file, {"blank"})
    OBVIOUS
  <2>3. IsList(lines) /\ Range(lines) \subseteq Range(file)
    BY <2>2, WithoutKeeps
  <2> QED BY <2>1, <2>2, <2>3
<1> QED BY <1>1, <1>2

\* The three lists of a configuration.
LEMMA ListsOfConfig ==
  ASSUME NEW c \in Configs
  PROVE  LET dist == ReadVmOptions(c.dist)
             user == UserFile(c.user)
         IN /\ IsList(dist.options) /\ IsList(user.options) /\ IsList(c.product)
            /\ \A o \in Range(user.options) : o.from = "user"
            /\ \A o \in Range(c.product) : o.from = "product"
            /\ user.corrupted => user.options = <<>>
<1>1. ListFrom(c.dist, "dist") /\ ListFrom(c.product, "product")
      /\ \A place \in DOMAIN c.user : ListFrom(c.user[place], "user")
  BY ConfigsAssumption
<1>2. IsList(ReadVmOptions(c.dist).options)
  <2>1. PICK file : file = c.dist
    OBVIOUS
  <2>2. IsList(file)
    BY <1>1, <2>1 DEF ListFrom
  <2> QED BY <2>1, <2>2, ReadOptions
<1>3. IsList(c.product) /\ \A o \in Range(c.product) : o.from = "product"
  BY <1>1 DEF ListFrom
<1>4. CASE UserPlace(c.user) = "none"
  <2>1. UserFile(c.user) = [options |-> <<>>, corrupted |-> FALSE]
    BY <1>4 DEF UserFile
  <2> QED BY <1>2, <1>3, <2>1, NoOptions
<1>5. CASE UserPlace(c.user) # "none"
  <2>1. PICK place \in DOMAIN c.user : UserPlace(c.user) = place
    <3> DEFINE found == {i \in DOMAIN Places : Places[i] \in DOMAIN c.user}
    <3>1. found # {} /\ UserPlace(c.user) = Places[CHOOSE i \in found : \A j \in found : i <= j]
      BY <1>5 DEF UserPlace
    <3>2. found \subseteq {1, 2, 3} /\ \A i \in found : Places[i] \in DOMAIN c.user
      BY DEF Places
    <3> HIDE DEF found
    <3>3. \E i \in found : \A j \in found : i <= j
      <4>1. CASE 1 \in found
        BY <3>2, <4>1
      <4>2. CASE 1 \notin found /\ 2 \in found
        BY <3>2, <4>2
      <4>3. CASE 1 \notin found /\ 2 \notin found
        <5>1. found = {3}
          BY <3>1, <3>2, <4>3
        <5> QED BY <5>1
      <4> QED BY <4>1, <4>2, <4>3
    <3> QED BY <3>1, <3>2, <3>3
  <2>2. PICK file : file = c.user[place]
    OBVIOUS
  <2>3. ListFrom(file, "user") /\ UserFile(c.user) = ReadVmOptions(file)
    BY <1>1, <1>5, <2>1, <2>2 DEF UserFile
  <2>4. IsList(file) /\ \A o \in Range(file) : o.from = "user"
    BY <2>3 DEF ListFrom
  <2> QED BY <1>2, <1>3, <2>3, <2>4, ReadOptions
<1> QED BY <1>4, <1>5

\* What the launcher adds is no collector.
Added(o) == o.from = "launcher" /\ o.kind # "GC"

\* The options collected from the files: what the user overrides is left out, and what the user
\* sets comes after what is left of the distribution.
LEMMA Collected ==
  ASSUME NEW c \in Configs, NEW list, list = CollectVmOptions(c)
  PROVE  LET dist == ReadVmOptions(c.dist).options
             user == UserFile(c.user).options
         IN /\ IsList(list) /\ Range(user) \subseteq Range(list)
            /\ \A o \in Range(list) : \/ o \in Range(dist) /\ o.kind \notin Omitted(user)
                                      \/ o \in Range(user) \/ Added(o)
            /\ \A k, v : k # "vmOptionsFile" /\ LastIs(user, k, v) => LastIs(list, k, v)
<1> DEFINE dist == ReadVmOptions(c.dist).options
           file == UserFile(c.user)
           user == file.options
           left == Without(dist, Omitted(user))
           place == <<Opt("vmOptionsFile", UserPlace(c.user), "launcher")>>
           note == IF file.corrupted THEN <<Opt("corrupted", "true", "launcher")>> ELSE <<>>
<1>1. list = ((left \o user) \o place) \o note
  BY DEF CollectVmOptions
<1>2. IsList(dist) /\ IsList(user) /\ (file.corrupted => user = <<>>)
  BY ListsOfConfig
<1>3. IsList(left) /\ Range(left) = {o \in Range(dist) : o.kind \notin Omitted(user)}
  BY <1>2, WithoutKeeps
<1>4. IsList(place) /\ (\A o \in Range(place) : Added(o)) /\ Kinds(place) = {"vmOptionsFile"}
  BY OptionsOfOne, KindsOfOptions DEF Added, Opt
<1>5. IsList(note) /\ (\A o \in Range(note) : Added(o)) /\ (user # <<>> => note = <<>>)
  BY <1>2, OptionsOfOne, NoOptions DEF Added, Opt
<1> HIDE DEF dist, file, left, place, note
<1>6. IsList(left \o user) /\ Range(left \o user) = Range(left) \cup Range(user)
  BY <1>2, <1>3, OptionsOfBoth
<1>7. IsList((left \o user) \o place) /\ Range((left \o user) \o place) = Range(left) \cup Range(user) \cup Range(place)
  BY <1>4, <1>6, OptionsOfBoth
<1>8. IsList(list) /\ Range(list) = Range(left) \cup Range(user) \cup Range(place) \cup Range(note)
  BY <1>1, <1>5, <1>7, OptionsOfBoth
<1>9. ASSUME NEW k, NEW v, k # "vmOptionsFile", LastIs(user, k, v)
      PROVE  LastIs(list, k, v)
  <2>1. LastIs(left \o user, k, v)
    BY <1>2, <1>3, <1>9, LastOfBoth
  <2>2. LastIs((left \o user) \o place, k, v)
    BY <1>4, <1>6, <1>9, <2>1, LastOfBoth
  <2>3. k \in Kinds(user)
    BY <1>2, <1>9, LastCounts
  <2>4. k \notin Kinds(note)
    BY <1>5, <2>3, NoOptions
  <2> QED BY <1>1, <1>5, <1>7, <2>2, <2>4, LastOfBoth
<1>10. \A o \in Range(list) : \/ o \in Range(dist) /\ o.kind \notin Omitted(user)
                              \/ o \in Range(user) \/ Added(o)
  BY <1>3, <1>4, <1>5, <1>8
<1> QED BY <1>8, <1>9, <1>10 DEF dist, file

\* The product's options come after the files', the launcher's own around them.
LEMMA Gathered ==
  ASSUME NEW c \in Configs, NEW list, list = GetVmOptions(c)
  PROVE  LET dist == ReadVmOptions(c.dist).options
             user == UserFile(c.user).options
         IN /\ IsList(list) /\ Range(user) \subseteq Range(list)
            /\ \A o \in Range(list) : \/ o \in Range(dist) /\ o.kind \notin Omitted(user)
                                      \/ o \in Range(user) \/ o \in Range(c.product) \/ Added(o)
            /\ \A k, v : k \notin Kinds(c.product) \cup {"vmOptionsFile", "native.launcher"} /\ LastIs(user, k, v)
                           => LastIs(list, k, v)
<1> DEFINE dist == ReadVmOptions(c.dist).options
           user == UserFile(c.user).options
           first == <<Opt("ErrorFile", "home", "launcher")>>
           last == <<Opt("native.launcher", "true", "launcher")>>
<1>1. PICK files : files = CollectVmOptions(c)
  OBVIOUS
<1>2. list = ((first \o files) \o c.product) \o last
  BY <1>1 DEF GetVmOptions
<1>3. IsList(user) /\ IsList(c.product)
  BY ListsOfConfig
<1>4. /\ IsList(files) /\ Range(user) \subseteq Range(files)
      /\ \A o \in Range(files) : \/ o \in Range(dist) /\ o.kind \notin Omitted(user)
                                 \/ o \in Range(user) \/ Added(o)
      /\ \A k, v : k # "vmOptionsFile" /\ LastIs(user, k, v) => LastIs(files, k, v)
  BY <1>1, Collected
<1>5. IsList(first) /\ \A o \in Range(first) : Added(o)
  BY OptionsOfOne DEF Added, Opt
<1>6. IsList(last) /\ (\A o \in Range(last) : Added(o)) /\ Kinds(last) = {"native.launcher"}
  BY OptionsOfOne, KindsOfOptions DEF Added, Opt
<1> HIDE DEF dist, user, first, last
<1>7. IsList(first \o files) /\ Range(first \o files) = Range(first) \cup Range(files)
  BY <1>4, <1>5, OptionsOfBoth
<1>8. IsList((first \o files) \o c.product)
      /\ Range((first \o files) \o c.product) = Range(first) \cup Range(files) \cup Range(c.product)
  BY <1>3, <1>7, OptionsOfBoth
<1>9. IsList(list) /\ Range(list) = Range(first) \cup Range(files) \cup Range(c.product) \cup Range(last)
  BY <1>2, <1>6, <1>8, OptionsOfBoth
<1>10. ASSUME NEW k, NEW v, k \notin Kinds(c.product) \cup {"vmOptionsFile", "native.launcher"}, LastIs(user, k, v)
       PROVE  LastIs(list, k, v)
  <2>1. LastIs(first \o files, k, v)
    BY <1>4, <1>5, <1>10, LastOfBoth
  <2>2. LastIs((first \o files) \o c.product, k, v)
    BY <1>3, <1>7, <1>10, <2>1, LastOfBoth
  <2> QED BY <1>2, <1>6, <1>8, <1>10, <2>2, LastOfBoth
<1>11. \A o \in Range(list) : \/ o \in Range(dist) /\ o.kind \notin Omitted(user)
                              \/ o \in Range(user) \/ o \in Range(c.product) \/ Added(o)
  BY <1>4, <1>5, <1>6, <1>9
<1> QED BY <1>4, <1>9, <1>10, <1>11 DEF dist, user

\* A list made of the three of a configuration: it has what the user sets, but for what is
\* dropped, nothing the user overrides, and ends as the user, the product or the launcher says.
Merges(list, c, dropped) ==
  LET dist == ReadVmOptions(c.dist).options
      user == UserFile(c.user).options
  IN /\ IsList(list) /\ \A o \in Range(user) : o \in Range(list) \/ o.kind \in dropped
     /\ \A o \in Range(list) : \/ o \in Range(dist) /\ o.kind \notin Omitted(user)
                               \/ o \in Range(user) \/ o \in Range(c.product) \/ Added(o)
     /\ \A k, v : k \notin Kinds(c.product) \cup LauncherKinds(c) /\ k \notin dropped /\ LastIs(user, k, v)
                    => LastIs(list, k, v)
     /\ Kinds(list) \cap dropped = {}

\* One more option of the launcher's does no harm if it is of a kind of its own, or a new one.
LEMMA OneMore ==
  ASSUME NEW c, NEW list, NEW dropped, Merges(list, c, dropped), NEW o, Added(o), o.kind \notin dropped,
         o.kind \in LauncherKinds(c) \/ o.kind \notin Kinds(list)
  PROVE  Merges(Append(list, o), c, dropped)
<1>1. IsList(list) /\ IsList(<<o>>) /\ Range(<<o>>) = {o} /\ Kinds(<<o>>) = {o.kind}
  BY OptionsOfOne, KindsOfOptions DEF Merges
<1>2. Append(list, o) = list \o <<o>>
  BY <1>1 DEF IsList
<1> DEFINE longer == list \o <<o>>
<1>3. IsList(longer) /\ Range(longer) = Range(list) \cup {o}
  BY <1>1, OptionsOfBoth
<1>4. Kinds(longer) = Kinds(list) \cup {o.kind}
  BY <1>3, KindsOfOptions
<1>5. ASSUME NEW k, NEW v, LastIs(list, k, v), k \notin LauncherKinds(c)
      PROVE  LastIs(longer, k, v)
  <2>1. k \in Kinds(list)
    BY <1>1, <1>5, LastCounts
  <2>2. k # o.kind
    BY <1>5, <2>1
  <2> QED BY <1>1, <1>5, <2>2, LastOfBoth
<1> HIDE DEF longer
<1>6. Merges(longer, c, dropped)
  BY <1>3, <1>4, <1>5 DEF Merges
<1> QED BY <1>2, <1>6 DEF longer

LEMMA FullOptions ==
  ASSUME NEW c \in Configs
  PROVE  Merges(FullVmOptions(c), c, {}) \/ (c.status /\ Merges(FullVmOptions(c), c, {"jdwp"}))
<1> DEFINE classPath == Opt("class.path", "lib", "launcher")
           file == Opt("idea.properties.file", "path", "launcher")
           xmx == Opt("Xmx", "2048m", "launcher")
           stack == Opt("preferIPv4Stack", "true", "launcher")
<1>1. PICK got : got = GetVmOptions(c)
  OBVIOUS
<1>2. Merges(got, c, {})
  BY <1>1, Gathered DEF Merges, LauncherKinds
<1>3. /\ Added(classPath) /\ classPath.kind = "class.path" /\ Added(xmx) /\ xmx.kind = "Xmx"
      /\ Added(file) /\ file.kind = "idea.properties.file" /\ Added(stack) /\ stack.kind = "preferIPv4Stack"
  BY DEF Added, Opt
<1>4. PICK sized : sized = IF "Xmx" \in Kinds(got) THEN got ELSE Append(got, xmx)
  OBVIOUS
<1>12. PICK all : all = IF c.ipv4 THEN Append(sized, stack) ELSE sized
  OBVIOUS
<1>5. PICK some : some = IF c.remote THEN RemoteVmOptions(c) ELSE got
  OBVIOUS
<1>13. PICK more : more = IF c.properties THEN Append(some, file) ELSE some
  OBVIOUS
<1>6. FullVmOptions(c) = Append(more, classPath)
  BY <1>1, <1>5, <1>13 DEF FullVmOptions
<1>7. some = got \/ (c.remote /\ (some = all \/ (c.status /\ some = Without(all, {"jdwp"}))))
  BY <1>1, <1>4, <1>5, <1>12 DEF RemoteVmOptions
<1> HIDE DEF classPath, xmx, file, stack
<1>14. /\ "class.path" \in LauncherKinds(c) /\ (c.properties => "idea.properties.file" \in LauncherKinds(c))
       /\ (c.remote /\ c.ipv4 => "preferIPv4Stack" \in LauncherKinds(c))
  BY DEF LauncherKinds
<1>8. c.remote => Merges(all, c, {})
  <2>1. Merges(sized, c, {})
    BY <1>2, <1>3, <1>4, OneMore
  <2> QED BY <1>3, <1>12, <1>14, <2>1, OneMore
<1>9. ASSUME NEW dropped, dropped \subseteq {"jdwp"}, Merges(some, c, dropped)
      PROVE  Merges(FullVmOptions(c), c, dropped)
  <2>1. Merges(more, c, dropped)
    BY <1>3, <1>9, <1>13, <1>14, OneMore
  <2> QED BY <1>3, <1>6, <1>9, <1>14, <2>1, OneMore
<1>10. CASE Merges(some, c, {})
  BY <1>9, <1>10
<1>11. CASE c.remote /\ c.status /\ some = Without(all, {"jdwp"})
  <2>5. Merges(all, c, {})
    BY <1>8, <1>11
  <2>1. IsList(all)
    BY <2>5 DEF Merges
  <2>2. /\ IsList(some) /\ Range(some) = {o \in Range(all) : o.kind # "jdwp"}
        /\ \A k, v : k # "jdwp" /\ LastIs(all, k, v) => LastIs(some, k, v)
    BY <1>11, <2>1, WithoutKeeps
  <2>3. "jdwp" \notin Kinds(some)
    BY <2>2, KindsOfOptions
  <2>4. Merges(some, c, {"jdwp"})
    BY <2>2, <2>3, <2>5 DEF Merges
  <2> QED BY <1>9, <1>11, <2>4
<1> QED BY <1>2, <1>7, <1>8, <1>10, <1>11

\* Fewer collectors do not conflict if more of them do not.
LEMMA FewerCollectors ==
  ASSUME NEW s, NEW t, IsList(t), Conflicting(s),
         \A o \in Range(s) : o.kind = "GC" => o \in Range(t)
  PROVE  Conflicting(t)
<1> DEFINE Collectors(r) == {r[i].value : i \in {j \in DOMAIN r : r[j].kind = "GC"}}
<1>1. Cardinality(Collectors(s)) > 1
  BY DEF Conflicting
<1>2. \A v \in Collectors(s) : v \in Collectors(t)
  BY DEF Range
<1>3. IsFiniteSet(Collectors(t))
  <2>1. IsFiniteSet(DOMAIN t)
    <3>1. DOMAIN t = 1..Len(t) /\ Len(t) \in Nat
      BY DEF IsList
    <3> QED BY <3>1, FS_Interval
  <2> DEFINE at == {j \in DOMAIN t : t[j].kind = "GC"}
  <2>2. IsFiniteSet(at)
    BY <2>1, FS_Subset
  <2> DEFINE f == [i \in at |-> t[i].value]
  <2> HIDE DEF at
  <2>3. f \in Surjection(at, {t[i].value : i \in at})
    BY Fun_IsSurj
  <2> HIDE DEF f
  <2>4. IsFiniteSet({t[i].value : i \in at})
    BY <2>2, <2>3, FS_Surjection
  <2> QED BY <2>4 DEF at
<1> HIDE DEF Collectors
<1>4. Cardinality(Collectors(s)) <= Cardinality(Collectors(t)) /\ Cardinality(Collectors(t)) \in Nat
      /\ Cardinality(Collectors(s)) \in Nat
  BY <1>2, <1>3, FS_Subset, FS_CardinalityType
<1> QED BY <1>1, <1>4 DEF Conflicting, Collectors

LEMMA MergedWell ==
  ASSUME NEW c \in Configs, NEW list, NEW dropped, Merges(list, c, dropped), dropped \subseteq {"jdwp"}
  PROVE  LET dist == ReadVmOptions(c.dist).options
             user == UserFile(c.user).options
         IN /\ \A k \in Kinds(user) \ (Kinds(c.product) \cup LauncherKinds(c)) :
                 k \in Kinds(list) => Effective(list, k) = Effective(user, k)
            /\ \A k \in Kinds(user) : k \in Kinds(list) \/ k \in dropped
            /\ \A p \in Overrides : p[1] \in Kinds(user) =>
                 \A i \in DOMAIN list : list[i].kind = p[2] => list[i].from # "dist"
            /\ Conflicting(list) => Conflicting((IF "GC" \in Kinds(user) THEN user ELSE dist) \o c.product)
<1> DEFINE dist == ReadVmOptions(c.dist).options
           user == UserFile(c.user).options
<1>1. /\ IsList(dist) /\ IsList(user) /\ IsList(c.product)
      /\ \A o \in Range(user) : o.from = "user"
      /\ \A o \in Range(c.product) : o.from = "product"
  BY ListsOfConfig
<1>2. /\ IsList(list) /\ \A o \in Range(user) : o \in Range(list) \/ o.kind \in dropped
      /\ \A o \in Range(list) : \/ o \in Range(dist) /\ o.kind \notin Omitted(user)
                                \/ o \in Range(user) \/ o \in Range(c.product) \/ Added(o)
      /\ \A k, v : k \notin Kinds(c.product) \cup LauncherKinds(c) /\ k \notin dropped /\ LastIs(user, k, v)
                     => LastIs(list, k, v)
      /\ Kinds(list) \cap dropped = {}
  BY DEF Merges
<1> HIDE DEF dist, user
<1>3. ASSUME NEW k \in Kinds(user), k \notin Kinds(c.product) \cup LauncherKinds(c), k \in Kinds(list)
      PROVE  Effective(list, k) = Effective(user, k)
  <2>1. LastIs(user, k, Effective(user, k))
    BY <1>1, LastCounts
  <2>2. LastIs(list, k, Effective(user, k))
    BY <1>2, <1>3, <2>1
  <2> QED BY <1>2, <2>2, LastCounts
<1>4. ASSUME NEW k \in Kinds(user) PROVE k \in Kinds(list) \/ k \in dropped
  BY <1>2, KindsOfOptions
<1>5. ASSUME NEW p \in Overrides, p[1] \in Kinds(user), NEW i \in DOMAIN list, list[i].kind = p[2]
      PROVE  list[i].from # "dist"
  <2>1. p[2] \in Omitted(user)
    BY <1>5 DEF Omitted
  <2>2. list[i] \in Range(list)
    BY DEF Range
  <2> QED BY <1>1, <1>2, <1>5, <2>1, <2>2 DEF Added
<1>6. ASSUME Conflicting(list)
      PROVE  Conflicting((IF "GC" \in Kinds(user) THEN user ELSE dist) \o c.product)
  <2>1. IsList(user \o c.product) /\ Range(user \o c.product) = Range(user) \cup Range(c.product)
    BY <1>1, OptionsOfBoth
  <2>2. IsList(dist \o c.product) /\ Range(dist \o c.product) = Range(dist) \cup Range(c.product)
    BY <1>1, OptionsOfBoth
  <2>3. CASE "GC" \in Kinds(user)
    <3>1. "GC" \in Omitted(user)
      <4>1. PICK p \in Overrides : p = <<"GC", "GC">>
        BY DEF Overrides, EndingInGC
      <4> QED BY <2>3, <4>1 DEF Omitted
    <3>2. \A o \in Range(list) : o.kind = "GC" => o \in Range(user \o c.product)
      BY <1>2, <2>1, <3>1 DEF Added
    <3> QED BY <1>6, <2>1, <2>3, <3>2, FewerCollectors
  <2>4. CASE "GC" \notin Kinds(user)
    <3>1. \A o \in Range(list) : o.kind = "GC" => o \in Range(dist \o c.product)
      BY <1>2, <2>2, <2>4, KindsOfOptions DEF Added
    <3> QED BY <1>6, <2>2, <2>4, <3>1, FewerCollectors
  <2> QED BY <2>3, <2>4
<1> QED BY <1>3, <1>4, <1>5, <1>6 DEF dist, user

\* The main thread's options, until the JVM thread adds one to its copy.
OptionsInv ==
  /\ cfg \in Configs
  /\ main \in {"configure", "env", "runtime", "options", "spawn"} => jvm = "none"
  /\ main = "spawn" \/ jvm = "load" => options = FullVmOptions(cfg)
  /\ options # <<>> => options \in {FullVmOptions(cfg), JvmOptions(FullVmOptions(cfg))}

LEMMA OptionsStep == OptionsInv /\ [Next]_vars => OptionsInv'
<1> SUFFICES ASSUME OptionsInv, [Next]_vars PROVE OptionsInv'
  OBVIOUS
<1>0. UNCHANGED cfg
  BY DEF Next, LauncherNext, MainThread, JvmThread, JvmPanics, MainEnds, Abort, AbortEnds, RequestRestart,
         RestarterNext, LaunchAgain, vars, lvars, input
<1>1. CASE MainThread
  <2>1. CASE GetConfiguration \/ InitEnvVars \/ LocateRuntime \/ CollectOptions
    BY <1>0, <2>1 DEF GetConfiguration, InitEnvVars, LocateRuntime, CollectOptions, Fails, OptionsInv
  <2>2. CASE Spawn \/ Recv \/ Join \/ ShowError
    BY <1>0, <2>2 DEF Spawn, Recv, Join, ShowError, Fails, OptionsInv
  <2> QED BY <1>1, <2>1, <2>2 DEF MainThread
<1>2. CASE JvmThread \/ JvmPanics
  BY <1>0, <1>2 DEF JvmThread, JvmPanics, Load, InstallHook, Prints, Create, ReportRefusal, ReportFailure,
                    RemoveHook, SendReady, Panic, OptionsInv
<1>3. CASE MainEnds \/ Abort \/ AbortEnds \/ LaunchAgain
  BY <1>0, <1>3 DEF MainEnds, Abort, AbortEnds, LaunchAgain, OptionsInv
<1>4. CASE RequestRestart \/ RestarterNext \/ UNCHANGED vars
  BY <1>0, <1>4 DEF RequestRestart, RestarterNext, vars, lvars, OptionsInv
<1> QED BY <1>1, <1>2, <1>3, <1>4 DEF Next, LauncherNext

\* The options given to the JVM are as the user has set them, for all files, products and modes:
\* what the user sets holds, nothing outweighs it, and no collector is added to theirs.
THEOREM OptionsOfUserWin == Spec => []UserOptionsWin
<1>1. Init => OptionsInv
  BY DEF Init, LauncherInit, Fresh, OptionsInv
<1>2. OptionsInv => UserOptionsWin
  <2> SUFFICES ASSUME cfg \in Configs, options \in {FullVmOptions(cfg), JvmOptions(FullVmOptions(cfg))}
               PROVE  UserOptionsWin
    BY DEF OptionsInv, UserOptionsWin
  <2>2. PICK full : full = FullVmOptions(cfg)
    OBVIOUS
  <2>3. PICK dropped : Merges(full, cfg, dropped) /\ dropped \subseteq {"jdwp"} /\ (dropped = {} \/ cfg.status)
    BY <2>2, FullOptions
  <2>4. Merges(JvmOptions(full), cfg, dropped)
    <3>1. PICK o : o = Opt("sun.java.command", "main", "launcher")
      OBVIOUS
    <3>2. Added(o) /\ o.kind = "sun.java.command"
      BY <3>1 DEF Added, Opt
    <3>3. o.kind \in LauncherKinds(cfg) /\ o.kind \notin dropped /\ JvmOptions(full) = Append(full, o)
      BY <2>3, <3>1, <3>2 DEF LauncherKinds, JvmOptions
    <3> QED BY <2>3, <3>2, <3>3, OneMore
  <2>1. Merges(options, cfg, dropped)
    BY <2>2, <2>3, <2>4
  <2> QED BY <2>1, <2>3, MergedWell DEF UserOptionsWin
<1> QED BY <1>1, <1>2, OptionsStep, PTL DEF Spec

----------------------------------------------------------------------------
LauncherTypes == LauncherTypeOK /\ launches \in 1..MaxLaunches

LEMMA LauncherTypeStep == LauncherTypes /\ [Next]_vars => LauncherTypes'
<1> SUFFICES ASSUME LauncherTypes, [Next]_vars PROVE LauncherTypes'
  OBVIOUS
<1>1. CASE MainThread /\ UNCHANGED launches
  <2>1. UNCHANGED <<cfg, userEnv, channel, messages, lock, said, launches>>
    BY <1>1 DEF MainThread, input, hooks
  <2>2. CASE GetConfiguration \/ InitEnvVars \/ LocateRuntime \/ CollectOptions
    BY <1>1, <2>1, <2>2
    DEF MainThread, ShowError, GetConfiguration, InitEnvVars, LocateRuntime, CollectOptions, Fails, LauncherTypes, LauncherTypeOK
  <2>3. CASE Spawn \/ Recv \/ Join
    BY <1>1, <2>1, <2>3
    DEF MainThread, ShowError, Spawn, Recv, Join, Fails, LauncherTypes, LauncherTypeOK
  <2>4. CASE ShowError
    BY <2>1, <2>4, ZenonT(30) DEF ShowError, LauncherTypes, LauncherTypeOK
  <2> QED BY <1>1, <2>2, <2>3, <2>4 DEF MainThread
<1>2. CASE (JvmThread \/ JvmPanics) /\ UNCHANGED launches
  <2>1. UNCHANGED <<cfg, userEnv, main, told, exit, launches>>
    BY <1>2 DEF JvmThread, JvmPanics, input
  <2>2. CASE Load \/ InstallHook \/ Create
    BY <2>1, <2>2 DEF Load, InstallHook, Create, hooks, LauncherTypes, LauncherTypeOK
  <2>4. CASE Prints
    BY <2>1, <2>4 DEF Prints, LauncherTypes, LauncherTypeOK
  <2>3. CASE ReportRefusal \/ ReportFailure \/ RemoveHook \/ SendReady \/ Panic
    BY <2>1, <2>3
    DEF ReportRefusal, ReportFailure, RemoveHook, SendReady, Panic, hooks, LauncherTypes, LauncherTypeOK
  <2> QED BY <1>2, <2>2, <2>3, <2>4 DEF JvmThread, JvmPanics
<1>3. CASE (MainEnds \/ Abort \/ AbortEnds) /\ UNCHANGED launches
  BY <1>3 DEF MainEnds, Abort, AbortEnds, input, hooks, LauncherTypes, LauncherTypeOK
<1>4. CASE LaunchAgain
  <2>1. said' \in BOOLEAN
    BY <1>4 DEF LaunchAgain
  <2>2. launches' \in 1..MaxLaunches
    BY <1>4, LaunchesAssumption DEF LaunchAgain, LauncherTypes
  <2> QED BY <1>4, <2>1, <2>2 DEF LaunchAgain, input, LauncherTypes, LauncherTypeOK
<1>5. CASE RequestRestart \/ RestarterNext \/ UNCHANGED vars
  <2>1. UNCHANGED <<cfg, userEnv, main, jvm, channel, messages, lock, said, told, exit, launches>>
    BY <1>5 DEF RequestRestart, RestarterNext, vars, lvars, input, hooks
  <2> QED BY <2>1 DEF LauncherTypes, LauncherTypeOK
<1> QED BY <1>1, <1>2, <1>3, <1>4, <1>5 DEF Next, LauncherNext

\* The restarter never starts more commands than it has found.
RanFound == ran <= Len(commands) /\ rpc \in {"none", "parse", "wait", "run", "execd", "failed", "panicked"}

LEMMA RanStep == RestarterInv /\ RanFound /\ [Next]_vars => RanFound'
<1> SUFFICES ASSUME RestarterInv, RanFound, [Next]_vars PROVE RanFound'
  OBVIOUS
<1>0. Len(commands) \in Nat /\ ran \in Nat /\ commands \in Seq(Groups)
  BY DEF RestarterInv, GroupTypes
<1>1. CASE LauncherNext /\ UNCHANGED rvars
  BY <1>1 DEF rvars, RanFound
<1>2. CASE RequestRestart \/ LaunchAgain
  BY <1>2 DEF RequestRestart, Start, LaunchAgain, RanFound
<1>3. CASE ParseGroup
  <2>1. ran' = 0
    BY <1>3 DEF ParseGroup, RestarterInv, GroupTypes, RunsAfterwards, Prepared
  <2>2. rpc' \in {"parse", "failed", "panicked"}
    BY <1>3 DEF ParseGroup
  <2>3. Len(commands') \in Nat
    <3>1. Len(commands') = Len(commands) \/ Len(commands') = Len(commands) + 1
      BY <1>0, <1>3 DEF ParseGroup
    <3> QED BY <1>0, <3>1
  <2> QED BY <2>1, <2>2, <2>3 DEF RanFound
<1>4. CASE ParsePid \/ Parsed \/ WaitForExit(exit # "no") \/ RunCommand \/ ExecCommand
  BY <1>0, <1>4 DEF ParsePid, Parsed, WaitForExit, RunCommand, ExecCommand, RanFound
<1>5. CASE UNCHANGED vars
  BY <1>5 DEF vars, rvars, RanFound
<1> QED BY <1>1, <1>2, <1>3, <1>4, <1>5 DEF Next, RestarterNext

\* Every variable of the launcher and of the restarter keeps to its values.
THEOREM RelaunchTypes == Spec => []TypeOK
<1>1. Init => LauncherTypes
  <2>1. Init => said \in BOOLEAN
    BY DEF Init, LauncherInit, Fresh
  <2> QED BY <2>1, LaunchesAssumption DEF Init, LauncherInit, Fresh, LauncherTypes, LauncherTypeOK
<1>2. Init => RanFound
  BY DEF Init, RestarterInit, RanFound
<1>3. RestarterInv /\ RanFound => RestarterTypeOK
  <2> SUFFICES ASSUME RestarterInv, RanFound PROVE RestarterTypeOK
    OBVIOUS
  <2>1. args \in ArgLists \cup {<<>>} /\ commands \in Seq(Groups) /\ ran \in 0..Len(commands)
    BY DEF RestarterInv, GroupTypes, RanFound
  <2>2. Len(args) \in Nat
    BY <2>1, ArgsAssumption
  <2>3. idx \in Nat /\ idx >= 1 /\ idx <= Len(args) + 1
    BY LastGroup DEF RestarterInv, GroupTypes, GroupsSoFar
  <2> QED BY <2>1, <2>2, <2>3 DEF RestarterTypeOK, RanFound, Groups
<1>4. LauncherTypes /\ RestarterTypeOK => TypeOK
  BY DEF LauncherTypes, TypeOK
<1> QED
  BY <1>1, <1>2, <1>3, <1>4, RestarterInitially, RestarterStep, LauncherTypeStep, RanStep, PTL DEF Spec
=============================================================================
