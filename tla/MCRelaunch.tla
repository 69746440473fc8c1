----------------------------- MODULE MCRelaunch -----------------------------
(***************************************************************************)
(* Launcher and restarter for TLC.                                         *)
(***************************************************************************)
EXTENDS Relaunch, TLC

D(kind, value) == Opt(kind, value, "dist")
U(kind, value) == Opt(kind, value, "user")
Nul == U("nul", "")
Blank == U("blank", "")
NoFile == [p \in {} |-> <<>>]
In(place, file) == [p \in {place} |-> file]

MCDist == <<D("blank", ""), D("Xms", "128m"), D("Xmx", "750m"), D("GC", "G1"), D("jdwp", "5005")>>
MCUsers == {
  NoFile, In("config", <<U("Xmx", "4g"), U("GC", "Z"), U("jdwp", "5006"), U("preferIPv4Stack", "false")>>),
  In("environment", <<Blank, U("InitialRAMPercentage", "10"), U("MaxRAMPercentage", "50")>>),
  In("toolbox", <<U("MinRAMPercentage", "25"), U("GC", "Z"), U("GC", "Shenandoah")>>),
  In("config", <<U("DisableExplicitGC", ""), U("idea.properties.file", "mine")>>),
  In("toolbox", <<U("Xmx", "1g"), Nul>>) @@ In("config", <<U("Xmx", "4g")>>)}
MCProducts == {<<>>, <<Opt("GC", "Parallel", "product")>>}
MCCommands == [remote : {FALSE}, status : {FALSE}, properties : BOOLEAN, ipv4 : {FALSE}]
  \cup [remote : {TRUE}, status : BOOLEAN, properties : {TRUE}, ipv4 : BOOLEAN]
Cfg(dist, user, product, command) ==
  [dist |-> dist, user |-> user, product |-> product, remote |-> command.remote, status |-> command.status,
   properties |-> command.properties, ipv4 |-> command.ipv4]
MCConfigs == {Cfg(MCDist, u, p, c) : u \in MCUsers, p \in MCProducts, c \in {d \in MCCommands : ~d.remote}}
  \cup {Cfg(MCDist, u, <<>>, c) : u \in MCUsers, c \in {d \in MCCommands : d.remote}}
  \cup {Cfg(MCDist \o <<D("nul", "")>>, NoFile, <<>>, c) : c \in {d \in MCCommands : ~d.remote}}

MCUserEnvs == {[k \in Keys |-> v] : v \in {Unset, <<>>, <<"user">>}}

MCUsize == 16
MCArgLists == {<<1, -1>>, <<2, -1, -1, 1, -1>>, <<1, -1, 3, -1, 1, -1>>, <<1, -1, 2, -1>>,
               <<1, -1, -1, -1>>, <<0, 1>>, <<1, -1, 15, -1>>, <<14, -1>>, <<11, -1, -1, -1>>}
=============================================================================
