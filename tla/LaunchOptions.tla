--------------------------- MODULE LaunchOptions ---------------------------
(***************************************************************************)
(* The launcher's VM options: what the launcher makes of the file of the   *)
(* distribution, the file of the user, the product's own arguments and, in *)
(* remote development, its own defaults.  An option is its kind (-Xmx, a   *)
(* collector, ...), its value and where it comes from.                     *)
(***************************************************************************)
EXTENDS Naturals, Sequences, FiniteSets, Functions

Opt(kind, value, from) == [kind |-> kind, value |-> value, from |-> from]
Kinds(options) == {options[i].kind : i \in DOMAIN options}
IsList(options) == options \in Seq(Range(options))
ListFrom(options, from) == IsList(options) /\ \A o \in Range(options) : o.from = from

\* What a filter that drops these kinds keeps, in the order it was in.
Without(options, kinds) ==
  LET kept == {i \in DOMAIN options : options[i].kind \notin kinds}
      nth(n) == CHOOSE i \in kept : Cardinality({k \in kept : k <= i}) = n
  IN [n \in 1..Cardinality(kept) |-> options[nth(n)]]

\* Blank lines and comments are skipped; a NUL in any other line makes the file void.
ReadVmOptions(file) ==
  IF "nul" \in Kinds(file) THEN [options |-> <<>>, corrupted |-> TRUE]
  ELSE [options |-> Without(file, {"blank"}), corrupted |-> FALSE]

\* Where the user's file is looked for; the first that exists is taken.
Places == <<"environment", "toolbox", "config">>
UserPlace(files) ==
  LET found == {i \in DOMAIN Places : Places[i] \in DOMAIN files}
  IN IF found = {} THEN "none" ELSE Places[CHOOSE i \in found : \A j \in found : i <= j]
UserFile(files) ==
  IF UserPlace(files) = "none" THEN [options |-> <<>>, corrupted |-> FALSE]
  ELSE ReadVmOptions(files[UserPlace(files)])

\* <<k, l>>: an option k of the user's makes the launcher omit l of the distribution.  The
\* test for a collector goes by the text -XX:+...GC, which is also that of switches which
\* select none, such as -XX:+DisableExplicitGC.
EndingInGC == {"GC", "DisableExplicitGC"}
Overrides == (EndingInGC \X EndingInGC)
  \cup {<<"InitialRAMPercentage", "Xms">>, <<"MinRAMPercentage", "Xmx">>, <<"MaxRAMPercentage", "Xmx">>}
\* Mutant: only the first filter that applies is used.
OmittedOne(user) ==
  LET kinds == {p[2] : p \in {q \in Overrides : q[1] \in Kinds(user)}}
  IN IF kinds = {} THEN {} ELSE {CHOOSE k \in kinds : TRUE}

Omitted(user) == {p[2] : p \in {q \in Overrides : q[1] \in Kinds(user)}}

CollectVmOptions(cfg) ==
  LET user == UserFile(cfg.user)
  IN Without(ReadVmOptions(cfg.dist).options, Omitted(user.options))
     \o user.options \o <<Opt("vmOptionsFile", UserPlace(cfg.user), "launcher")>>
     \o (IF user.corrupted THEN <<Opt("corrupted", "true", "launcher")>> ELSE <<>>)

GetVmOptions(cfg) ==
  <<Opt("ErrorFile", "home", "launcher")>> \o CollectVmOptions(cfg) \o cfg.product
    \o <<Opt("native.launcher", "true", "launcher")>>

\* Remote development: a default for -Xmx, no IPv6 on WSL2 unless allowed, and no debugger
\* for the status commands.
RemoteVmOptions(cfg) ==
  LET options == GetVmOptions(cfg)
      sized == IF "Xmx" \in Kinds(options) THEN options ELSE Append(options, Opt("Xmx", "2048m", "launcher"))
      all == IF cfg.ipv4 THEN Append(sized, Opt("preferIPv4Stack", "true", "launcher")) ELSE sized
  IN IF cfg.status THEN Without(all, {"jdwp"}) ELSE all

\* A properties file that is not found, or cannot be written, is not missed.
FullVmOptions(cfg) ==
  LET options == IF cfg.remote THEN RemoteVmOptions(cfg) ELSE GetVmOptions(cfg)
      all == IF cfg.properties THEN Append(options, Opt("idea.properties.file", "path", "launcher")) ELSE options
  IN Append(all, Opt("class.path", "lib", "launcher"))

\* What the JVM thread makes of its copy of them.
JvmOptions(options) == Append(options, Opt("sun.java.command", "main", "launcher"))

----------------------------------------------------------------------------
\* The JVM: of the options of one kind the last counts, but two collectors are refused.
Effective(options, kind) ==
  LET set == {i \in DOMAIN options : options[i].kind = kind}
  IN options[CHOOSE i \in set : \A j \in set : j <= i].value
Conflicting(options) ==
  Cardinality({options[i].value : i \in {j \in DOMAIN options : options[j].kind = "GC"}}) > 1
=============================================================================
