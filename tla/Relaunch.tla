------------------------------ MODULE Relaunch ------------------------------
(***************************************************************************)
(* The IDE restarts: it starts the restarter as its child and ends; the    *)
(* restarter's last command is the launcher again.                         *)
(***************************************************************************)
EXTENDS Launcher, Restarter

CONSTANT MaxLaunches  \* bound: launchers in a row
ASSUME LaunchesAssumption == MaxLaunches \in Nat \ {0}

VARIABLE launches
vars == <<lvars, rvars, launches>>

Init == LauncherInit /\ RestarterInit /\ launches = 1

\* The IDE, in the JVM of the launcher, asks for a restart once.
RequestRestart == exit = "no" /\ jvm = "main" /\ Start /\ UNCHANGED <<lvars, launches>>

\* The new launcher is a child of the IDE in all it inherits.
LaunchAgain ==
  /\ rpc = "execd" /\ launches < MaxLaunches /\ launches' = launches + 1
  /\ main' = "configure" /\ options' = <<>> /\ jvm' = "none" /\ channel' = "empty"
  /\ messages' = "off" /\ lock' = "free" /\ said' = FALSE /\ told' = {} /\ exit' = "no"
  /\ env' = ForChildren /\ backup' = [k \in Keys |-> Unset] /\ UNCHANGED input
  /\ args' = <<>> /\ rpc' = "none" /\ idx' = 1 /\ commands' = <<>> /\ ran' = 0

RestarterNext ==
  /\ ParsePid \/ ParseGroup \/ Parsed \/ WaitForExit(exit # "no") \/ RunCommand \/ ExecCommand
  /\ UNCHANGED <<lvars, launches>>

Next ==
  \/ LauncherNext /\ UNCHANGED <<rvars, launches>>
  \/ RequestRestart \/ RestarterNext \/ LaunchAgain

Spec == Init /\ [][Next]_vars
FairSpec == Spec /\ LauncherFair

TypeOK == LauncherTypeOK /\ RestarterTypeOK /\ launches \in 1..MaxLaunches

\* No command is started before the IDE is gone and all of the arguments make sense.
CommandsChecked == ran > 0 => exit # "no" /\ Tiling /\ commands[Len(commands)].last = Len(args)
=============================================================================
