# A TLA+ verification development of JetBrains-IDE-Multiarch

The repository builds JetBrains IDEs for architectures JetBrains does not ship. It holds the
native helpers an IDE needs (a file watcher, a SQLite binding, a pty helper, a restarter, the
launcher) and a Gradle build that swaps them, and a Java runtime, into an official archive. This
directory holds TLA+ models of the stateful parts, the TLC configurations that check them, and
proofs for TLAPS. `PROJECT.json` maps every definition to the source lines it models.

## The system

| Component | State it keeps | Operations | Interacts with | What makes it correct |
|---|---|---|---|---|
| **fsNotifier** (`native/fsNotifier`) | table of watch nodes by descriptor, parent/kids links, list of roots, one event queue in the kernel | `ROOTS`/`EXIT` commands, inotify events, a one-second timeout, all served by one thread (`main_loop`) | the IDE (pipes), the kernel, every process that changes directories or unmounts disks | nodes form a forest without dangling pointers; directories under a root are watched under their own path; missing roots come back; the walk of a root keeps out of its mounts |
| **NativeDB** (`native/sqlite/sqlite/NativeDB.c`) | connection pointer and three malloc'ed hook contexts in fields of a Java object; statements as raw pointers | open, close, prepare, exec, step, `executeBatch`, setters of the hooks | Java threads, SQLite, which calls the hooks back | no hook runs on a freed context; close leaks nothing silently; a failed batch leaves its statement reset |
| **backup/restore** (same file, on the pager of `sqlite3.c`) | a second connection, a `sqlite3_backup` object, a count of busy steps; cache, rollback journal and file of the destination | page-wise copy with retries, commit, rollback, recovery after a crash | other threads on the connection, other processes on both files | the destination only becomes, as a whole, what the source is at one moment; the result tells whether it did; everything taken is given back |
| **pty4j** (`native/pty4j`) | descriptors of the forked child, modes of the terminal, its exit status | `exec_pty`, `wait_for_child_process_exit`, window size | the JVM that is forked | the program starts with exactly its three descriptors, echo off in console mode; the waiters learn how it ended |
| **restarter** (`native/restarter`) | command groups, the pid to wait for | parse, wait, run, exec | the IDE process that started it | nothing runs before the IDE is gone; all arguments are checked first |
| **launcher** (`native/XPlatLauncher`) | two threads, a channel, the messages the JVM printed, environment variables | find runtime and options, create the JVM, run `main` | the JVM's callbacks, nested and concurrent launchers | every failure reaches the user once; saved environment values survive |
| **build** (`buildSrc`, `build.gradle.kts`) | the natives zip, the transformed archive, the package, a temporary file; pending transformers and open streams of the running task | fetch or build natives, transform, package | Gradle, which skips what is up to date | what a task that succeeded leaves is complete, whatever order the archive has; the streams it registers are closed; a failed build can be repeated |

Hard behaviours: the races of other processes with the walk and with event handling
(fsNotifier), stale paths and descriptor reuse of table slots, error paths through a recursion,
hooks running on one thread while another replaces them, copying between releases of all locks,
crashes between the writes of a commit, partial failure of multi-step calls and builds. `PROJECT.json` lists each at its line under `hazards`, with
the properties that cover it or the reason there is none yet.

## Modules

| Module | Models |
|---|---|
| `FileNames` | paths as sequences of names; parent paths, string prefixes, links |
| `WatchTree` | the table of `util.c` and the forest of `watch_node`s: `AddNode`, `FreeNodes`. The abstract specification of the notifier's data structure |
| `FileTree` | external: directories, inodes, disks, inotify marks and the event queue |
| `FsNotifier` | `main.c` and `inotify.c`, composed of the two above |
| `NativeDB` | the JNI object: handle, hook contexts, statements, calls of several threads |
| `Pager` | one write transaction on a database file in rollback-journal mode, and what a crash leaves of it |
| `NativeBackup` | one call of `backup` or `restore` on top of `Pager`, and everybody else |
| `AtomicCopy` | the abstract specification of the last: a copy that happens in one step, or not |
| `ExecPty` | `exec_pty` in the caller and in the child, the terminal modes, `wait_for_child_process_exit` |
| `LaunchOptions` | pure: reading, merging and completing the VM options |
| `Launcher` | the launcher's main thread and JVM thread, the environment it overrides, the hooks |
| `Restarter` | command groups, the wait for the IDE, running the commands |
| `Relaunch` | the last two composed: the IDE restarts, the restarter becomes the next launcher |
| `IdeArchive` | `TransformIDE`: the base archive becomes that of the target architecture, entry by entry |
| `PackageBuild` | Gradle invocations in a row: natives downloaded or built, `IdeArchive`, `CreateDeb` |
| `MC*` | values for TLC |
| `WatchTreeProofs`, `FsNotifierProofs`, `PagerProofs`, `NativeBackupProofs`, `NativeDBProofs`, `ExecPtyProofs`, `RelaunchProofs`, `PackageBuildProofs` | theorems |

### FsNotifier

A step is what the process does between two system calls whose answers others can alter. So
`walk_tree` is an explicit `stack` of frames: `OpenDir` (mount test and `opendir`), `AddWatch`
(`inotify_add_watch` and what `add_watch` does with a descriptor that is new or whose slot another one has),
`ComparePaths` (the two `realpath`s, one step, when the descriptor is known under another path), `ReadDir` (the entries, fetched from the inode that was opened), `WalkEntry` (the next
name, appended to the frame's *path*) and `WalkEnd`. `Return` unwinds a failure: each frame removes
the node it added, up to the caller, whose reaction (`Finish`) depends on `task`: registering
roots, handling an event, restoring a root. `Dispatch` handles one event of a batch, callback
first, as `process_inotify_event` does; `DropKid` is the string-prefix search for the kid to
drop; `RemovedRoots`/`CheckRootRemoval` compare paths with the roots. `Timeout`, `CheckRoot` and
`RestoreRoot` are `check_missing_roots` with its two `stat`s. `why` records which error ended the
process. A kids array is a set: entries are pushed at creation only, so the first entry is the
smallest descriptor. Only directories are modelled, because only they get nodes (the flat roots
that are files behave as flat directories without entries). Faults are failing `opendir`,
`inotify_add_watch`, `stat` and, in `UpdateRoots`, `setmntent`; failing `malloc` is not modelled, nor is the `ERR_IGNORE`
of `watch` for a path that is neither a file nor a directory. A mount that a walk came upon is reported even
when the walk then fails, as in `register_roots`.

`inotify_add_watch` has made its mark when `add_watch` finds the slot of the new descriptor taken by an older one and
gives up with `ERR_ABORT`; nothing takes the mark back (`MarkedAs`). An `ERR_ABORT` in `check_missing_roots` does not
end the process, so the mark may stay without a node: this is the exception `NoLeakedWatches` makes, for a descriptor
that shares its slot with an older one (`Collided`), after an `ERR_ABORT` (`why`).

`FileTree` lets a rename keep the inode, and so its watch; `rmdir` may queue its two events in
either order; a full queue drops. Inodes are not reused and descriptors only grow, as in Linux.
`Unmount` takes a top-level disk away that nobody uses (a directory `walk_tree` has open counts):
the marks on it go with one `IN_UNMOUNT` each, for which the code prints `RESET` and does nothing,
as it does nothing for the `IN_IGNORED` that follows. Mounting a disk later is not modelled.

### NativeDB

`call[t]` is the JNI function thread `t` is in: the SQLite and JVM calls it still has to make, in
the order of the source (`ChangeBusyHandler`, `SetCommitListener`, `Close`, `Batch`, ...). SQLite
calls wait for the connection's mutex; `RunStep`/`CallBack`/`RunEnds` hold it while hooks run. The
Java class is not in this repository. What it is assumed to guarantee is stated once, in `Apart`:
setters one at a time, and no call that needs the handle while the object is opened or closed;
`step`, `reset` and `finalize` of a statement may come at any time, even after close. `sqlite3_close` may refuse although no
statement is open, as it does while a backup of the connection is unfinished (`CloseOutcome`). Without that
assumption two setters would free one context twice, and close would race with a prepare that
already read the handle; neither is excluded by the C code.

### NativeBackup, Pager, AtomicCopy

`pc` follows the two functions (they differ in which connection is the destination, `Dest`).
`CopyStep` is one call of `sqlite3_backup_step` plus copyLoop's decision (`CopyLoop`); the last one
goes on through `CommitPhaseOne` and `CommitPhaseTwo`, which are separate steps because the process
can die between them. A writer on the *same* connection updates pages already copied (`Update`), also
when its cache spills pages that are not committed (`PDbSpills`) and when it rolls those back
(`PDbRollsBack`); a writer from another process makes the copy start again; locks follow the
rollback-journal mode. Writers on a *different* connection of the same process behave as another
process. While `pDb` is the destination nobody else uses it: sqlite3.h demands that of the caller,
although the comment over `backup` (which `restore` shares) speaks of "another thread" without saying
which of the two functions it means.

`Pager` has the destination in four versions: the pages as the transaction sees them (`copy`), which of
them are only in the cache (`dirty`), the file as the operating system has it (`file`) and as it was
last synced (`durable`); `journal` says which originals the rollback journal holds and which of them
its synced header counts. Sizes are in pages and equal on both sides; pages behind the old end of the
destination are cut off, not restored (`Absent`). The mode is the default of the build: rollback
journal, `synchronous=FULL`; the directory is not synced after the journal is deleted (`extraSync` is
off), so a power failure may bring a deleted journal back. A kill loses the cache only; after a
power failure each page not synced is in the file in one version or the other. `Contents` is what the next
connection finds, which plays a hot journal back before it reads.

`AtomicCopy` is what a caller may rely on; `Atomic` in NativeBackup instantiates it with `Contents` for
the destination and the function's result for the outcome. `AtomicCopy!Crash` is a power failure's right
to take a copy back as a whole, even one that was reported.

### ExecPty

`child` says where the forked process is, `caller` where the JVM thread is; the two run at the
same time. `fd` is the child's descriptor table, by number, because `dup2`, `close` and the loops
over `/proc/self/fd` go by number. `open` takes the lowest free number. The JVM may have anything
open (`Init`), but always 0, 1 and 2, which the JDK never closes: otherwise a slave opened as 0
would be closed again by `close(fds)`. `CloseAll` is any of the three ways of `close_all_fds`; a
way that fails leaves the next one everything or, after the failed `opendir`, all but 3 and 4,
which makes no difference to the outcome. `set_noecho` is two system calls (`NoEchoGet`,
`NoEchoSet`) on either side; either may fail, and `set_noecho` says nothing of it (`NoEchoFails`, which
`failed` remembers). `EchoOff` asks for echo off after a `set_noecho` that did not fail: when both fail the
program starts with echo on, and nothing reports it. What the code does with the other modes between them is visible in
the model, but not a property: the caller's write puts back modes older than the program's own.
An error in the child after `fork` makes it `stray`, where the model leaves it: with all it inherited when
`setsid` fails, without the master that `ptys_open` has closed when the slave cannot be opened. A waiter who
asks after another was told gets the 0 of `ECHILD`, the same as for a program that ended well; `WaitTold`
permits it, and asks for one true answer. The search for the
executable (`pfind`) only decides whether `Fork` can happen; signal masks are not modelled.

### Launcher, Restarter, Relaunch

`main` and `jvm` say where the launcher's two threads are (Linux). `GetConfiguration` to `Spawn` are the
stages of `main_impl`; each may fail (`Fails`), which leads to `ShowError`. What a stage looks for
on disk is a choice between found and not found; the option files are data (`cfg`), since the
properties are about them: `FullVmOptions` composes the functions of `default.rs`, `remote_dev.rs`
and `lib.rs`, with an option cut down to its kind, its value and its origin (macros and the heap dump
path are left out). `LauncherKinds` are the kinds the launcher adds after the user's options: the properties file
when there is one, IPv4 on WSL2, and `sun.java.command`, which the JVM thread adds to its copy (`Load`). The filter
for collectors goes by the text `-XX:+...GC`; so `-XX:+DisableExplicitGC` in the user's file drops the distribution's
collector too (`EndingInGC`), and the JVM chooses one. `UserOptionsWin` says nothing against that: the distribution's options
hold only as far as no filter drops them. `Recv` and `Join` are the two
waits for the JVM thread. `messages` is `HOOK_MESSAGES`: off, installed and empty, or with text;
`lock` its mutex, which `abort_hook` holds while its dialog stays; all other users let it go before
the next thing the model lets others see. The JVM is external: it may print, refuse the options,
abort at any time after `create`, or succeed; it says why when it refuses two collectors. A panic of the
JVM thread is a failing write of its log; a panic of the main thread (exit status 101 and a line on
standard error) is left out, as are signals and a crash inside `vfprintf_hook` itself.

`env` and `backup` are the variables `init_env_vars` sets, and their
`INTELLIJ_ORIGINAL_ENV_` copies. `ForChildren` is what the IDE gives a child: the message in
`init_env_vars` ("Old value will be preserved for child processes") states it, the IDE's code is
not here. The next launcher starts with it.

`Restarter` follows `process_args`; indices count from the first argument after the pid, and the sum
`arg_idx + arg_n` wraps around at `Usize`, as the release profile leaves overflow unchecked. A group
whose end has wrapped is no slice: the program panics before anything runs. In the composition
the restarter runs beside the launcher, and `WaitForExit` becomes possible when the launcher's
process ends, at whatever point parsing has reached.

### IdeArchive, PackageBuild

`step` is where `TransformIDE` is: opening one of the seven `Streams` after the other, reading the
prefix, copying `entries` of the base archive or of the `jdk`, closing, from the last opened to the first
(`OpenHelper`). An entry is its path, its type and where its contents are `from`: the base archive, the JDK, one of
the natives, or a rewriting of the base's file; what is rewritten is not looked at. `left` holds
the transformers not met yet. `OpenHelper` only knows the streams that are handed to it. A `GZIPInputStream` is made around the file of
the JDK in the head of a `try`, so when its constructor throws, for a JDK that is not gzip or cannot be read, nobody has a
reference to close the file by (`JdkOpenFails`, `unclosed`); the same holds for the two files in `CreateDeb.run`, when the
stream around them throws. In the model they stay open until the process ends; a garbage collector may close them earlier.
The archive counts as `whole` when the end of the tar and then that of the gzip
were written, both by closing. A failure is an I/O error anywhere (`EntryFails`, `Fault`), a base archive without a
directory to begin with, a native that the zip lacks (`Bundled` ones, `libjnidispatch.so`, come from the class path instead), a JDK of the wrong shape, or a check after the last entry.

`PackageBuild` puts three tasks around it. `Ask` is one invocation. With `natives.linux.<arch>.url` set (`HasUrl`), `fetchNatives` is a download with
`overwrite(false)`, which leaves a zip that is there alone; without, it does nothing itself and depends on `buildNatives` if
there is no zip when the build is configured (`NativesTask`, `Tasks`). `config/natives.properties` sets the URL for both
architectures that have a `transform` task, so the run has `HasUrl` TRUE, with `buildNatives` for whoever asks for it by name;
the theorems hold for both. What is up to date is left out. What Gradle does (running tasks in order, stopping at the first that fails, skipping a task
whose files nobody touched since it succeeded) is external, and so are downloads: the download of the natives writes to its
destination, deletes it when it fails, and leaves what it had when it is killed (`FetchStart`, `FetchDone`, `FetchFails`);
those of IDEs and JDKs are taken as done. `Kill` ends an
invocation anywhere. `BuildNative` deletes its zip when it fails, after try-with-resources has closed
it, so only a killed one leaves an incomplete zip, or a native cut short (`zip.cut`). `File.delete` there is
assumed to succeed. The temporary file of `CreateDeb` may resist its deletion (`DeleteTempFails`, counted by `undeleted`): an exception
when all went well, suppressed when something else had failed before. A symbolic link becomes an empty regular file in the package:
`copyTarEntry` makes an entry of the size of the link, which is 0 (`AsFile`). `DebRight` asks for exactly that.

## Runs

| Run | Instance | Shows |
|---|---|---|
| `fsn_watch` | one root `r` with up to two levels of names `a`, `b`, a directory outside, 4 operations | the forest covers exactly the tree at rest, under true paths; nothing leaks |
| `fsn_roots` | nested, flat, linked and mounted-over roots that come and go, replaced once or by an empty list, renames that replace a directory, EXIT, 3 operations | every root is answered; the walk of a new root keeps out of the mounts (`RegisterSkipsMounts`), and here every other walk does, too; coverage; liveness: each root that exists ends up watched |
| `fsn_faults` | 4 slots for 12 descriptors, 3 watches, queue of 2, one failing call, a disk that is unmounted, EXIT, 3 operations | the node structure survives every error path; `FsNotifier` implements `WatchTree` |
| `fsn_prefix`, `fsn_gives_up` | smallest instances | two disagreements, below |
| `db_handlers` | 2 threads, 2 connections in a row, 3 contexts, 1 statement, batches of 2 rows | contexts, close and batches |
| `db_backup` | 3 pages over a destination of 2, 1 page a step, limit 2, 1 write, 1 fault, 2 crashes, both directions | the copy is atomic (`NativeBackup` implements `AtomicCopy`), result of `backup`, resources, termination |
| `pty_exec` | 8 descriptors, any subset open, console mode or not, stderr of its own or not, 2 waiters | descriptors, echo, what waiters are told |
| `relaunch` | 21 combinations of option files, product and mode, 3 environments, 9 lists of arguments, indices modulo 16, 2 launches | options, failures, environment, commands; liveness: the main thread gets its answer |
| `build_package` | 76 base archives (8 entries, at most 2 of them missing, in two orders; empty; without a prefix), 5 kinds of JDK, 3 natives of which two move and one is not in the zip, natives downloaded or built, 1 failure, 1 kill | what counts as built is complete, but for symbolic links in the package; registered streams are closed, and which others stay open; temporary files; liveness: a failed build can be repeated |
| `launch_xmx` | the same, one launch | `-Xmx` against a percentage, below |
| `db_restore` | 2 pages in one step | the result of `restore` |

**Bounds.** Four operations contain a rename into and out of the tree, a second level and a
removal, which is what the races need: the counterexamples found take two or three. Two names on
two levels allow siblings, cousins and moves between them. Twelve descriptors over four slots
collide after five watches; elsewhere there are more slots than descriptors. Two connections let a
call outlive the first; three contexts let one hook be replaced while another is set. Three pages
and one per step give steps before, in and after the page a writer touches; a destination of two has a page to
restore, one to cut off and one (the first) written again by the commit. One write touches any set of pages,
in any of the ways; a second crash hits the recovery from the first. Eight descriptors put
masters, slaves and the listing of `/proc/self/fd` on both sides of 5, where the parsing starts. The
option files hold each kind the filters name, alone and together, a file in each of the three places, two at
once, and one with a NUL; the lists of arguments include zero, a word in place of a number, a group
one too long, and numbers that wrap around. Two launches show a value saved, handed on and saved
again; the theorem covers any number. One failure and one kill are enough for the build: each ends
an invocation, and the next one starts from what it left. In `fsn_watch`
`RenameOver` is FALSE. With TRUE its other properties still hold, but `NodePathsTrue` does not, and
this is what the code does: `mv o r/a` over an empty watched `r/a` gives two nodes the path `r/a`
(the replaced directory gets no DELETE, only its own DELETE_SELF, which drops a node for roots only);
a later `mv r/a o` frees the first of them, the dead one, and the directory outside stays watched
as `r/a`. `fsn_roots`, which checks coverage, has it TRUE, but each of its roots that has directories and
may itself be replaced is `r/a`, listed with `r`. With a lone root `r/a`, or `r/a` after `l`, `CoverageAtRest` fails, and
this too is what the code does: `walk_tree` opens the directory before it adds the watch, so a rename over `r/a` between the two
leaves it watching the new directory with the entries of the old, and what was made in the new one before is never
watched. Under a watched `r` the walk of `r`, or of its MOVED_TO event, comes by again; under `l` that walk takes
`r/a` for an intersection and stops. No name is a prefix of another in
these runs; `fsn_prefix` shows why.

`CHECK_DEADLOCK FALSE`: the process may have exited, the bounds on operations run out, a
backup returns, the child is waited for, the launcher's process ends, and everything is up to date.

**Fairness.** `fsn_roots` assumes weak fairness of `Watcher`, the single loop of a process the
scheduler runs; select picks its descriptors in a fixed order, so nothing finer is assumed, and the
bound on operations is what lets the queue become empty (with a steady stream of events
`check_missing_roots` never runs). `db_backup` assumes weak fairness of the calling thread, for the
outcomes that are not failures: no fault is ever due. Nothing
is assumed of other processes: a lock may be held for ever, and the call still ends. `relaunch`
assumes weak fairness of the launcher's two threads, `JNI_CreateJavaVM` returning included, and that
the dialog of `abort_hook` is closed in the end; none of panics, aborts or the end of `main`.
`build_package` assumes that a running task goes on (no failure is due) and that whoever wants the package asks
for it as long as it is not there: strong fairness, since `Ask` is disabled while an invocation runs.

## Disagreements found

Each is a run that TLC must find violated; `findings` quotes the lines.

- `fsn_prefix` (`inotify.c:363`): removing `foobar` can unwatch its sibling `foo`.
- `fsn_gives_up` (`inotify.c:136`): `mkdir b; mv a b/` within one round of the loop ends the process.
- `launch_xmx` (`remote_dev.rs:31`): in remote development `-XX:MaxRAMPercentage` in the user's file
  has the distribution's `-Xmx` dropped, and the launcher then adds an `-Xmx2048m` of its own.
- `db_restore` (`NativeDB.c:1183`): a restore that fails returns `SQLITE_OK`, since the error code
  is read from the source's connection.

Noted in reading, without a run of their own:

- `main.c:364`: a root on a disk that is unmounted keeps its id, so `check_missing_roots` never looks for
  it again (with `Disks` set, `RootsEventuallyWatched` fails). The `RESET` may have the IDE send its roots again.
- `exec_pty.c:124`: the comment says the program is checked to exist and to be executable; `pfind` asks
  `access(X_OK)`, which directories pass, and in the JVM's directory, before `chdir(dirpath)`.
- `build.gradle.kts:93`: the zip's existence passes for its being built, so what a killed `buildNatives` left is
  used, and so is what a killed download left (`:87`, `overwrite(false)`): an incomplete one fails every `transform` until
  somebody deletes it (`Torn`), one that was closed properly
  around a native cut short goes into the archive.
- `README.md:125` of the repository lets the JDK be a `.zip`; `copyJRE` reads gzipped tars only (`jdk = "zip"`),
  and leaves the file open (`IDETransformer.java:353`).
- `CreateDeb.java:149` copies symbolic links of the archive as empty regular files (`AsFile`, `DebRight`).
- `ExtractIDE` creates its target directory, in place of the entry's, for each directory of the archive.

## Proofs

All for arbitrary constants, from the named assumptions of the modules only.

- `WatchTreeProofs`: `WatchTreeTypes`, `WatchForest`. The inductive invariant is types and
  `Forest`, whose conjuncts need each other: freeing unlinks a node because its parent knows it,
  and the freed set is closed under kids because kids are live. `DoomedParents` shows that a freed
  node other than the ones asked for goes with its parent (else the smallest closed set would not
  be the smallest). `NoCycles` is stated over sets of nodes so that it needs no induction.
- `FsNotifierProofs`: `NotifierImplementsWatchTree`, `NotifierForest`. The invariant `FsInv` adds to
  the WatchTree invariant what the steps rely on: frames on the stack name live nodes (`GoodStack`), a
  walk runs for a task that accepts its result, and event and mark descriptors are in range. One
  lemma per action shows that it keeps it and is a WatchTree step or a stutter; the error paths are
  in `ReturnStep`.
- `PagerProofs`: the inductive invariant of a transaction (what is in the file is either the original, or has its
  original in the part of the journal that is synced) and that no step before the journal is deleted changes
  `Contents`.
- `NativeBackupProofs`: `BackupTypes`, `CopyStaysInStep`, `BackupResult`, `CopiesAtomically`,
  `NothingKept`. The invariant `IInv` says what each `pc` has: which pages are in step, that the
  lock on the destination is held from the first successful step, so nobody can change it, which version of
  each page is where, and what the error code of `pFile` knows about the destination.
  `CopiesAtomically` is the refinement of `AtomicCopy`, for every number of pages, writes, faults and crashes:
  only the deletion of the journal changes `Contents`, and then into `src`.
- `NativeDBProofs`: `TypesCorrect`, `ContextsAreLive`, `NoContextLeaks`, `SilenceAfterClose`, `ClosesAreReported`,
  `BatchesAreReset`: all the invariants of `NativeDB`. A setter is a list of steps with other threads' steps
  in between, so the inductive invariant `DBInv` speaks of what each call has *still* to do. `Wiring`: one call at
  a time changes hooks, and on the connection of the object. `Plans`: all it has left is about one new context, in no
  field yet; each hook it sets to it is followed by the swap of the field that will own it; a swap comes when
  the hooks of its field already have the new context or nothing. `Owned`: what a hook has is in the
  field that owns it or about to be, and what is live likewise. So the context `set_new_handler` frees is in
  no hook, and since a hook changes only under the connection's mutex (`Inside`), no thread is in it either.
  `Rowed`: a statement left in the middle of its rows by a batch is used by one call, whose next step resets
  it. `CloseTold`: the close that is refused reports before the handle is cleared.
- `FsNotifierProofs`, second part: `NoLeaks` (`NoLeakedWatches`), `ExitFrees` (`ExitFreesAll`). That every live node
  is reached from a root is not inductive: during a walk the top of the new tree belongs to no root
  yet, while `unregister_roots` frees a root its slot still names one, and a root whose walk failed names none. `LeakInv`
  says that a live node without a parent has the slot of a root or is the first frame of the walk
  (`Anchored`); which frames have an id (`WalkIds`), that the walk an event starts has a parent
  (`EventWalk`), which root is being restored (`Restoring`) and that the kernel's marks belong to live
  nodes, or, after an `ERR_ABORT`, to descriptors whose slot an older one had taken (`MarksLive`, `Stray`); the taken slot is an
  older one's because the descriptors of live nodes were all handed out before (`LiveOld`). A walk that fails must then free its own top, and an exit frees all of it.
- `FsNotifierProofs`, third part: `NotifierTypes` (`FsTypeOK`). `TypeInv` says that the directories are prefix-closed and
  their inodes numbers (`TreeOk`), which a rename keeps because the path that takes the place of what it
  moves has its parent outside (`MoveTree`), that frames of the walk hold paths of names and inodes (`FramesOk`), and that the
  lists of roots hold paths of the model (`LoopOk`). It assumes what a file system gives: paths are sequences of
  names, directories at the start have their parents, roots and mounts are paths (`NamesAssumption`,
  `InitDirsAssumption`, `RootListsAssumption`, `MountsAssumption`; TLC evaluates them in every run of the notifier).
- `FsNotifierProofs`, fourth part: `RootsGetAnswers` (`RootsAnswered`), an action property, for every list of roots, links,
  mounts, faults and order of other processes' steps. A root taken from the list, whose directory stays, is
  registered, reported as unwatchable, or `WatchedElsewhere`: `add_watch` has found a node of the same inode under another name and calls
  it an intersection. The work is in that last case: from a node it must follow that a registered root is above it. `AnswerInv`
  says that a node lies at or below its parent's path (`KidPaths`), that frames have the path of their node (`FramePaths`), that
  a node without a parent has the path of a registered root or is the top of the walk that registers one (`TopPaths`),
  that this walk is of the head of the list (`WalkOfRoot`), and that the list is worked off first (`NoMoreRoots`); a node
  not below any root would have a parent not below any either, which `NoCycles` forbids (`NodesBelowRoots`). It
  assumes that a directory that stays has the ones above it stay, on the same disk (`PinnedAssumption`, which TLC
  evaluates in every run of the notifier). The property leaves out one step on purpose: a call that fails in the walk. When
  `opendir` or `inotify_add_watch` is refused at the root itself, `ERR_IGNORE` drops the root, neither registered nor reported.
- `FsNotifierProofs`, last part: `RootWalksSkipMounts` (`RegisterSkipsMounts`), an action property: the walk that `register_roots` starts
  makes no node at or below a mount, for every tree, list of mounts and order of other processes' steps. It needs no
  assumption that the mounts' directories stay where they are, since the walk goes by names. `SkipsInv` says that every frame of such a
  walk has the root's path or one below it and that no frame past the mount test lies at or below a mount (`FrameOfRoot`). The walk
  has the mounts below the root, which lies below none itself, so the test of `walk_tree` on the name of a frame is enough
  (`MountTestSuffices`). Only `add_watch` adds nodes
  (`OnlyAddWatchAdds`), and those carry the path of the frame (`NewNodesOffMounts`).
- `ExecPtyProofs`: `StartsOnTerminal`, `EchoStaysOff`, `WaitersTold`, `ExecPtyTypes`, for any set of descriptors.
  `FdInv` says, for each place the child may be in, which of the masters and slaves are open and that they are none of
  0, 1, 2; every way of closing then leaves exactly those three. `EchoInv` needs that nobody but
  `set_noecho` sets the modes before the program runs, so what either side writes has no echo,
  however old what it read is, and a call that fails writes nothing. `WaitInv` says that there is a status only after the end of the child, and that of the
  waiters at most one was told of it.
- `RelaunchProofs`: `CommandsInOrder`, `EnvironmentPreserved`, `FailuresTold`, `RelaunchTypes`. `RestarterInv` says that the
  groups found so far take up the arguments before `idx` exactly, and that nothing is prepared to run
  before `idx` has passed the last argument; `NoWrappedGroup` shows that a group which is accepted and
  is a slice ends where its number says. `EnvInv` adds that a launcher which may still override
  has saved nothing yet. `TellInv`, for `FailureTold`, follows a failure from thread to thread: what the JVM
  thread has to say stays in the channel, in the message queue or with the main thread until it is told
  (`SaidIsKept`), the two threads are not both in the part that decides it (`ThreadsApart`), and no
  launcher leaves before (`ToldInTime`).
- `RelaunchProofs`, last part: `OptionsOfUserWin` (`UserOptionsWin`), for option lists of any length and any kinds of options. Its
  induction over the list is a greatest element: the option the JVM takes of each kind is the last one (`LastIs`),
  which `Greatest` finds. `Without` says by rank what is left when kinds are dropped (`Ranks`: the ranks of the
  kept options are the numbers up to their count), so that the kept options keep their order and the last one of each kind
  (`WithoutKeeps`, `ListsTogether`). `Merges` follows the merged lists through the steps of the two threads. A user who sets
  an option of a kind that the product or the launcher adds after it is excluded, since there the code lets the later one win.
  `OptionsInv` says that the options the JVM thread has are the main thread's and one more.
  It assumes that the lists of the configuration hold the options of the file they were read from (`ConfigsAssumption`).
- `PackageBuildProofs`: `BuildTypes`, `ArchivesRight` (`ArchiveRight`), `PackagesRight` (`DebRight`),
  `NothingIsLeft` (`NothingLeft`), for any base archives, JDK archive and transformers, faults and kills. `CopyOk`: the
  entries written are exactly what the entries read become, and no path was written twice, so comparing the
  number of entries with the set wanted loses nothing. `StreamsOk` and `CloseOk`: the order in which `OpenHelper`
  closes what was opened makes the archive whole or says that it is not. `PlanOk` and `UpToDateOk`: what
  a task has begun to overwrite is not up to date, nor is what was made of it, so a kill or a failure
  leaves nothing behind that Gradle would skip. `TempsOk` counts the temporary files against the kills and the failed
  deletions, `UnclosedOk` names what can be open although nothing failed: the file of a JDK that is not gzip.

What the theorems about the build assume of the constants is what the code takes for granted of its input: no base archive
or JDK archive lists a path twice, no two transformers write the same file, and nothing else in the base archive
has the name of a file a transformer writes (`PathsAssumption`, `TargetsAssumption`, `JdkAssumption`,
`TarsAssumption`, `HasUrlAssumption`; TLC evaluates them in `build_package`). `RelaunchTypes` needs `MaxLaunches > 0`.

Only model-checked:

- liveness (`RootsEventuallyWatched`, `Returns`, `StartDecided`, `BuildRepeats`) and everything about ENABLED, which the
  prover does not handle;
- `MountsStayUnwatched`: not true in general. Walks from an event or from `check_missing_roots` get no mounts, so one that
  starts above a mount watches what is below it; and a descriptor in the slot of another takes its events. `fsn_roots` has nobody
  rename or remove a directory above its mount, and more slots than descriptors;
- `CoverageAtRest`, `NodePathsTrue`: not true for all sets of paths (a name that is a prefix of another, `fsn_prefix`,
  or a directory renamed over another, refutes them), and what they need of the event queue is a history of every
  rename that is still unread.

## Not modelled

- The vendored SQLite except for the parts named above. It is 224 000 of the repository's 242 000 lines of
  implementation, third-party code with a test suite of its own, so the share of lines that a definition stands for
  stays small however completely the repository's own code is modelled. What is left out of the copy: WAL (a
  database in WAL mode takes other locks and other ways of recovery), page sizes that differ, a destination larger
  than the source, savepoints, and super-journals.
- The column, bind and limit wrappers of NativeDB, which keep no state.
- fsNotifier: reading of long lines, logging, failing `malloc`; disks that are mounted after the start.
- pty4j: the window size, signal masks, the search of `pfind` beyond found or not.
- The launcher on Windows and macOS, its merged properties file and temporary font configuration (shared by
  concurrent launches), the order in which libraries are preloaded, dialogs.
- The build: what the compilers do, the rewriting of files, `ExtractIDE` (no other task uses it), tables of
  products and generated text.

Further work: the launcher's files shared by concurrent launches.
