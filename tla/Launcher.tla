------------------------------ MODULE Launcher ------------------------------
(***************************************************************************)
(* The launcher on Linux, from main_lib to the end of the process: the     *)
(* main thread prepares the environment and the options, starts the JVM    *)
(* thread and waits for its one message, then for its end; JVM threads     *)
(* call vfprintf_hook and abort_hook.                                      *)
(***************************************************************************)
EXTENDS LaunchOptions

CONSTANTS
  Configs,   \* option files, mode and command the launcher may be started with
  UserEnvs   \* environments it may be started in

\* Three lists of options, and an option says which of them it is of.
ASSUME ConfigsAssumption ==
  \A c \in Configs :
    /\ ListFrom(c.dist, "dist") /\ ListFrom(c.product, "product")
    /\ \A place \in DOMAIN c.user : ListFrom(c.user[place], "user")

VARIABLES
  cfg, userEnv,     \* one of each
  env, backup,      \* the variables it overrides, and INTELLIJ_ORIGINAL_ENV_*
  main,             \* where the main thread is
  options,          \* the VM options, until the JVM has read them
  jvm,              \* where the JVM thread is
  channel,          \* what was sent through the channel
  messages, lock,   \* HOOK_MESSAGES and who holds its mutex
  said,             \* history: the JVM printed something while it was created
  told,             \* what show_error was called with
  exit              \* how the process ended

input == <<cfg, userEnv>>
environ == <<env, backup>>
hooks == <<messages, lock, said>>
lvars == <<input, environ, main, options, jvm, channel, hooks, told, exit>>

\* A value is a list of directories or words; a variable that is not set has this one.
Unset == <<"unset">>
Keys == {"FONTCONFIG_PATH", "REMOTE_DEV_NON_INTERACTIVE"}

Fresh ==
  /\ main = "configure" /\ options = <<>> /\ jvm = "none" /\ channel = "empty"
  /\ messages = "off" /\ lock = "free" /\ said = FALSE /\ told = {} /\ exit = "no"
LauncherInit ==
  /\ cfg \in Configs /\ userEnv \in UserEnvs
  /\ env = userEnv /\ backup = [k \in Keys |-> Unset] /\ Fresh

----------------------------------------------------------------------------
\* The main thread.
Fails == main' = "error" /\ UNCHANGED <<environ, options, jvm>>

\* get_configuration; the command `help' of remote development ends the process.
GetConfiguration ==
  /\ main = "configure"
  /\ \/ Fails /\ UNCHANGED exit
     \/ main' = (IF cfg.remote THEN "env" ELSE "runtime") /\ UNCHANGED <<environ, options, jvm, exit>>
     \/ cfg.remote /\ exit' = "ok" /\ UNCHANGED <<environ, main, options, jvm>>

\* What init_env_vars sets a variable to, and where it keeps the old value.
Overriding(key) ==
  IF key = "FONTCONFIG_PATH" /\ env[key] \notin {Unset, <<>>} THEN env[key] \o <<"patched">>
  ELSE <<"patched">>
\* Mutant: the value is saved after it was set.
SavedLate(key) == Overriding(key)

Saved(key) == IF env[key] = Unset THEN <<>> ELSE env[key]

\* The non-interactive flag depends on the terminal, the font path on the installation.
InitEnvVars ==
  /\ main = "env"
  /\ \/ Fails
     \/ \E keys \in SUBSET Keys :
          /\ env' = [k \in Keys |-> IF k \in keys THEN Overriding(k) ELSE env[k]]
          /\ backup' = [k \in Keys |-> IF k \in keys THEN Saved(k) ELSE backup[k]]
          /\ main' = "runtime" /\ UNCHANGED <<options, jvm>>
  /\ UNCHANGED exit

\* The self-contained libraries and the five places a runtime is looked for.
LocateRuntime ==
  /\ main = "runtime"
  /\ \/ Fails
     \/ main' = "options" /\ UNCHANGED <<environ, options, jvm>>
  /\ UNCHANGED exit

CollectOptions ==
  /\ main = "options"
  /\ \/ Fails
     \/ ~ReadVmOptions(cfg.dist).corrupted /\ options' = FullVmOptions(cfg)
        /\ main' = "spawn" /\ UNCHANGED <<environ, jvm>>
  /\ UNCHANGED exit

Spawn ==
  /\ main = "spawn"
  /\ \/ Fails
     \/ main' = "recv" /\ jvm' = "load" /\ UNCHANGED <<environ, options>>
  /\ UNCHANGED exit

\* recv fails once the JVM thread has gone without sending.
Recv ==
  /\ main = "recv"
  /\ \/ channel = "ready" /\ main' = "join"
     \/ channel \in {"error", "jvm_text"} /\ main' = "error"
     \/ channel = "empty" /\ jvm = "panicked" /\ main' = "error"
  /\ UNCHANGED <<environ, options, jvm, exit>>

Join == main = "join" /\ jvm = "panicked" /\ main' = "error" /\ UNCHANGED <<environ, options, jvm, exit>>

\* The error is shown, in a dialog that may stay for long, then the process ends.
ShowError ==
  /\ \/ main = "error" /\ main' = "shown" /\ UNCHANGED exit
        /\ told' = told \cup {IF channel = "jvm_text" THEN "jvm_text" ELSE "error"}
     \/ main = "shown" /\ exit' = "failed" /\ UNCHANGED <<main, told>>
  /\ UNCHANGED <<environ, options, jvm>>

MainThread ==
  /\ exit = "no"
  /\ \/ /\ GetConfiguration \/ InitEnvVars \/ LocateRuntime \/ CollectOptions \/ Spawn \/ Recv \/ Join
        /\ UNCHANGED told
     \/ ShowError
  /\ UNCHANGED <<input, channel, hooks>>

----------------------------------------------------------------------------
\* The JVM thread.
Load ==
  /\ jvm = "load" /\ jvm' \in {"hook", "failed"} /\ options' = JvmOptions(options)
  /\ UNCHANGED <<channel, hooks>>

\* Mutant: the guard of the mutex lives until the JVM is created.
InstallHookHolding ==
  /\ jvm = "hook" /\ lock = "free" /\ lock' = "jvm" /\ messages' = "none" /\ jvm' = "create"
  /\ UNCHANGED <<options, channel, said>>

InstallHook ==
  /\ jvm = "hook" /\ lock = "free" /\ messages' = "none" /\ jvm' = "create"
  /\ UNCHANGED <<options, channel, lock, said>>

\* vfprintf_hook while the JVM is created, on its creator's or on another thread.
Prints ==
  /\ jvm \in {"create", "created"} /\ lock = "free" /\ ~said /\ said' = TRUE
  /\ messages' = IF messages = "off" THEN "off" ELSE "text"
  /\ UNCHANGED <<options, channel, jvm, lock>>

\* JNI_CreateJavaVM returns.  It says what is wrong with the options it refuses.
Create ==
  /\ jvm = "create" /\ options' = <<>>
  /\ \/ jvm' = "created" /\ ~Conflicting(options)
     \/ jvm' = "refused" /\ (Conflicting(options) => said)
  /\ UNCHANGED <<channel, hooks>>

\* Mutant: the messages are dropped whatever the result is.
ReportRefusalAfter ==
  /\ jvm = "refused" /\ lock = "free" /\ channel' = "error" /\ messages' = "off" /\ jvm' = "returned"
  /\ UNCHANGED <<options, lock, said>>

ReportRefusal ==
  /\ jvm = "refused" /\ lock = "free"
  /\ channel' = (IF messages = "text" THEN "jvm_text" ELSE "error") /\ jvm' = "returned"
  /\ UNCHANGED <<options, hooks>>

ReportFailure ==
  /\ jvm = "failed" /\ channel' = "error" /\ jvm' = "returned" /\ UNCHANGED <<options, hooks>>

RemoveHook ==
  /\ jvm = "created" /\ lock = "free" /\ messages' = "off" /\ jvm' = "ready"
  /\ UNCHANGED <<options, channel, lock, said>>

SendReady == jvm = "ready" /\ channel' = "ready" /\ jvm' = "main" /\ UNCHANGED <<options, hooks>>

\* Logging panics when standard output is closed (the main thread's panics are left out).
Panic ==
  /\ jvm \in {"load", "created", "ready", "main"} /\ jvm' = "panicked" /\ UNCHANGED <<options, channel, hooks>>

JvmThread ==
  /\ exit = "no"
  /\ Load \/ InstallHook \/ Prints \/ Create \/ ReportRefusal \/ ReportFailure \/ RemoveHook \/ SendReady
  /\ UNCHANGED <<input, environ, main, told, exit>>
JvmPanics == exit = "no" /\ Panic /\ UNCHANGED <<input, environ, main, told, exit>>

\* The main method returns, throws or calls exit.
MainEnds ==
  /\ exit = "no" /\ jvm = "main" /\ exit' \in {"ok", "failed"}
  /\ UNCHANGED <<input, environ, main, options, jvm, channel, hooks, told>>

\* A fatal error on any JVM thread: abort_hook shows what was printed with the mutex held,
\* however long the dialog stays; then the JVM ends the process.
Abort ==
  /\ exit = "no" /\ jvm \in {"create", "created", "ready", "main"} /\ lock = "free"
  /\ lock' = "abort"
  /\ told' = IF messages = "text" THEN told \cup {"jvm_text"} ELSE told
  /\ UNCHANGED <<input, environ, main, options, jvm, channel, messages, said, exit>>
AbortEnds ==
  /\ exit = "no" /\ lock = "abort" /\ exit' = "aborted"
  /\ UNCHANGED <<input, environ, main, options, jvm, channel, hooks, told>>

LauncherNext == MainThread \/ JvmThread \/ JvmPanics \/ MainEnds \/ Abort \/ AbortEnds
LauncherFair == WF_lvars(MainThread) /\ WF_lvars(JvmThread) /\ WF_lvars(AbortEnds)

----------------------------------------------------------------------------
\* The IDE gives its children the saved values; an empty one stands for none.  External: the
\* IDE's side of INTELLIJ_ORIGINAL_ENV_*, as the messages of init_env_vars describe it.
ForChildren ==
  [k \in Keys |-> IF backup[k] = Unset THEN env[k] ELSE IF backup[k] = <<>> THEN Unset ELSE backup[k]]

LauncherTypeOK ==
  /\ cfg \in Configs /\ userEnv \in UserEnvs
  /\ main \in {"configure", "env", "runtime", "options", "spawn", "recv", "join", "error", "shown"}
  /\ jvm \in {"none", "load", "hook", "create", "created", "refused", "failed", "ready", "main",
              "returned", "panicked"}
  /\ channel \in {"empty", "ready", "error", "jvm_text"}
  /\ messages \in {"off", "none", "text"} /\ lock \in {"free", "jvm", "abort"} /\ said \in BOOLEAN
  /\ told \subseteq {"error", "jvm_text"} /\ exit \in {"no", "ok", "failed", "aborted"}

\* The properties the launcher sets after the user's options.
LauncherKinds(c) ==
  {"vmOptionsFile", "native.launcher", "class.path", "sun.java.command"}
  \cup (IF c.properties THEN {"idea.properties.file"} ELSE {})
  \cup (IF c.remote /\ c.ipv4 THEN {"preferIPv4Stack"} ELSE {})

\* What the user's file sets holds, unless the product or the launcher sets it too: the last
\* option of its kind is the user's, nothing of the distribution is left that would outweigh a
\* percentage, and the JVM is given two collectors only if two of them are the user's or the
\* product's, or, when the user sets none, the distribution's or the product's.
UserOptionsWin ==
  LET user == UserFile(cfg.user).options
  IN main \in {"spawn", "recv"} /\ options # <<>> =>
       /\ \A k \in Kinds(user) \ (Kinds(cfg.product) \cup LauncherKinds(cfg)) :
            k \in Kinds(options) => Effective(options, k) = Effective(user, k)
       /\ \A k \in Kinds(user) : k \in Kinds(options) \/ (k = "jdwp" /\ cfg.status)
       /\ \A p \in Overrides : p[1] \in Kinds(user) =>
            \A i \in DOMAIN options : options[i].kind = p[2] => options[i].from # "dist"
       /\ Conflicting(options) =>
            Conflicting((IF "GC" \in Kinds(user) THEN user ELSE ReadVmOptions(cfg.dist).options) \o cfg.product)

\* A user who asks for a share of the memory gets it: there is no -Xmx but theirs.
RamPercentageWins ==
  LET user == UserFile(cfg.user).options
  IN main \in {"spawn", "recv"} /\ options # <<>> /\ "MaxRAMPercentage" \in Kinds(user)
       /\ "Xmx" \notin Kinds(user \o cfg.product) => "Xmx" \notin Kinds(options)

\* No start fails silently: an error is shown before the process ends, and what the JVM said
\* while it was created is in it, whether it returned an error or aborted.
FailureTold ==
  /\ exit = "failed" /\ jvm # "main" => told # {}
  /\ exit \in {"failed", "aborted"} /\ said /\ jvm \in {"create", "created", "returned"} => "jvm_text" \in told

\* Whatever the launcher overrides, a child of the IDE gets what the user had.
EnvPreserved ==
  \A k \in Keys : ForChildren[k] = userEnv[k] \/ {ForChildren[k], userEnv[k]} = {Unset, <<>>}

\* The main thread does not wait for ever: the JVM thread answers or ends the process.
StartDecided == main = "recv" ~> (main # "recv" \/ exit # "no")
=============================================================================
