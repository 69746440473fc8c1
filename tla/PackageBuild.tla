---------------------------- MODULE PackageBuild ----------------------------
(***************************************************************************)
(* The build, one Gradle invocation after the other: build.gradle.kts      *)
(* decides when it is configured what makes the zip of the natives: a      *)
(* download, if natives.linux.<arch>.url is set, or BuildNative.  Then     *)
(* TransformIDE (IdeArchive) and CreateDeb run, each only if the one       *)
(* before succeeded.  Any of them may fail, and an invocation may be       *)
(* killed; what it left in the file system is what the next one finds.     *)
(* What Gradle and its Download task do is external: a task that ended     *)
(* well and whose files were not touched since is up to date and skipped;  *)
(* a download writes to its destination and, if it fails, deletes it.      *)
(* IDEs and JDKs are there: they are not downloaded in the model.          *)
(***************************************************************************)
EXTENDS IdeArchive, FiniteSets

CONSTANTS
  Tars,     \* base archives
  HasUrl,   \* natives.linux.<arch>.url is set, as config/natives.properties has it for both
            \* architectures that anything is transformed for
  MaxKills  \* bound: killed invocations

\* No base archive has, elsewhere, a file that the transformation is going to write.
ASSUME TarsAssumption ==
  \A t \in Tars :
    /\ IsArchive(t)
    /\ \A e \in Range(t) :
         \/ e.path \in DOMAIN Replacement \cup Transformed \cup FilteredOut \cup JbrPaths
         \/ /\ \A p \in DOMAIN Replacement : Replacement[p].target # e.path
            /\ \A f \in Range(JdkEntries) : f.path # e.path

ASSUME HasUrlAssumption == HasUrl \in BOOLEAN

VARIABLES
  plan,      \* tasks of this invocation that are still to run, the running one first
  task,      \* what the first of them does
  upToDate,  \* tasks that Gradle will skip
  deb,       \* the package: complete entries and whether it was closed
  temps,     \* data-*.tar.gz files in the temporary directory
  undeleted, \* those of them that could not be deleted
  kills

others == <<tar, jdk, run, archive, unclosed>>
vars == <<others, zip, faults, plan, task, upToDate, deb, temps, undeleted, kills>>

NoZip == [exists |-> FALSE, entries |-> {}, cut |-> {}, whole |-> FALSE]
NoDeb == [entries |-> {}, whole |-> FALSE]

Init ==
  /\ tar \in Tars /\ jdk \in {"none", "tar.gz", "empty", "foreign", "zip"} /\ zip = NoZip
  /\ TransformInit
  /\ plan = <<>> /\ task = "none" /\ upToDate = {} /\ deb = NoDeb /\ temps = 0
  /\ undeleted = 0 /\ kills = 0

----------------------------------------------------------------------------
\* The user asks for a task.  transform depends on fetchNatives.  With a URL that is a download
\* that does not overwrite the zip; without, it depends on buildNatives if the zip is not there.
Due(t, needed) == IF needed /\ t \notin upToDate THEN <<t>> ELSE <<>>
NativesTask(goal) == IF goal # "buildNatives" /\ HasUrl THEN "fetchNatives" ELSE "buildNatives"
Tasks(goal) ==
  Due(NativesTask(goal), goal = "buildNatives" \/ ~zip.exists)
  \o Due("transform", goal \in {"transform", "createDeb"})
  \o Due("createDeb", goal = "createDeb")

Ask(goal) ==
  /\ plan = <<>> /\ plan' = Tasks(goal)
  /\ plan' # <<>> /\ task' = "start"
  /\ UNCHANGED <<others, zip, faults, upToDate, deb, temps, undeleted, kills>>

\* A task that failed ends the invocation.
Succeeds ==
  /\ plan' = Tail(plan) /\ task' = IF plan' = <<>> THEN "none" ELSE "start"
  /\ upToDate' = upToDate \cup {Head(plan)}
Fails == plan' = <<>> /\ task' = "none" /\ UNCHANGED upToDate

Runs(t) == plan # <<>> /\ Head(plan) = t

\* What a task is about to write makes the tasks that read or write it out of date.
Providers == {"buildNatives", "fetchNatives"}
Dirties(t) ==
  upToDate' = upToDate \ (CASE t \in Providers -> Providers \cup {"transform", "createDeb"}
                            [] t = "transform" -> {"transform", "createDeb"}
                            [] t = "createDeb" -> {"createDeb"})

----------------------------------------------------------------------------
\* fetchNatives: the file is there from the first byte on; what the release has is complete.
FetchStart ==
  /\ Runs("fetchNatives") /\ task = "start" /\ NoFault
  /\ zip' = [NoZip EXCEPT !.exists = TRUE] /\ task' = "fetch" /\ Dirties("fetchNatives")
  /\ UNCHANGED <<others, plan, deb, temps, undeleted, kills>>

FetchDone ==
  /\ Runs("fetchNatives") /\ task = "fetch" /\ NoFault
  /\ zip' = [zip EXCEPT !.entries = Natives, !.whole = TRUE] /\ Succeeds
  /\ UNCHANGED <<others, deb, temps, undeleted, kills>>

FetchFails ==
  /\ Runs("fetchNatives") /\ Fault /\ Fails
  /\ IF task = "start" THEN UNCHANGED zip ELSE zip' = NoZip
  /\ UNCHANGED <<others, deb, temps, undeleted, kills>>

----------------------------------------------------------------------------
\* BuildNative: the zip is created (or truncated), then compiled to, one native after the
\* other; close writes its directory.
NativesStart ==
  /\ Runs("buildNatives") /\ task = "start" /\ NoFault
  /\ zip' = [NoZip EXCEPT !.exists = TRUE] /\ task' = "add" /\ Dirties("buildNatives")
  /\ UNCHANGED <<others, plan, deb, temps, undeleted, kills>>

NativesAdd ==
  /\ Runs("buildNatives") /\ task = "add" /\ NoFault
  /\ \E n \in Natives \ zip.entries : zip' = [zip EXCEPT !.entries = @ \cup {n}]
  /\ UNCHANGED <<others, plan, task, upToDate, deb, temps, undeleted, kills>>

\* Before the zip is touched the old build directory is deleted and made again.
NativesPrepareFails ==
  /\ Runs("buildNatives") /\ task = "start" /\ Fault /\ Fails
  /\ UNCHANGED <<others, zip, deb, temps, undeleted, kills>>

\* try-with-resources closes the zip first, with what there is of the entry that was being
\* written, then the handler of the exception runs.
NativesThrow ==
  /\ Runs("buildNatives") /\ task \in {"start", "add"} /\ Fault
  /\ \/ task = "start" /\ UNCHANGED zip
     \/ /\ task = "add"
        /\ \E cut \in {{}} \cup {{n} : n \in Natives \ zip.entries} :
             zip' = [zip EXCEPT !.cut = cut, !.whole = TRUE]
  /\ task' = "delete" /\ Dirties("buildNatives")
  /\ UNCHANGED <<others, plan, deb, temps, undeleted, kills>>

\* Mutant: the zip stays.
DeleteNothing == UNCHANGED zip
DeleteZip == zip' = NoZip

NativesDelete ==
  /\ Runs("buildNatives") /\ task = "delete" /\ DeleteZip /\ Fails /\ NoFault
  /\ UNCHANGED <<others, deb, temps, undeleted, kills>>

NativesDone ==
  /\ Runs("buildNatives") /\ task = "add" /\ zip.entries = Natives
  /\ zip' = [zip EXCEPT !.whole = TRUE] /\ Succeeds /\ NoFault
  /\ UNCHANGED <<others, deb, temps, undeleted, kills>>

\* TransformIDE
Transform ==
  /\ Runs("transform") /\ UNCHANGED <<deb, temps, undeleted, kills>>
  /\ \/ /\ task = "start" /\ task' = "run" /\ Dirties("transform")
        /\ TransformStarts /\ UNCHANGED <<tar, jdk, zip, plan>>
     \/ /\ task = "run" /\ step # "done" /\ TransformStep /\ UNCHANGED <<plan, task, upToDate>>
     \/ /\ task = "run" /\ step = "done" /\ (IF ok THEN Succeeds ELSE Fails)
        /\ step' = "idle" /\ left' = {} /\ at' = 0
        /\ UNCHANGED <<tar, jdk, zip, ok, streams, unclosed, processedJbr, archive, faults>>

\* CreateDeb: directories are made anew, everything else becomes a file of a temporary
\* archive, which is then copied into the package.  copyTarEntry makes a regular file of the
\* size that the entry has: of a symbolic link, which has none, an empty one.
AsFile(e) ==
  [path |-> e.path, type |-> "file", from |-> IF e.type = "link" THEN "nothing" ELSE e.from]

\* Mutant: directories are copied like files.
DataEntriesAll == {AsFile(e) : e \in Range(archive.entries)}
DataEntries == {AsFile(e) : e \in {x \in Range(archive.entries) : x.type # "dir"}}

DebData ==
  /\ Runs("createDeb") /\ task = "start" /\ temps' = temps + 1 /\ task' = "data"
  /\ Dirties("createDeb") /\ NoFault
  /\ UNCHANGED <<others, zip, plan, deb, undeleted, kills>>

\* Mutant: the temporary file stays.
DeleteTempNot == UNCHANGED <<temps, undeleted>>
DeleteTemp == temps' = temps - 1 /\ UNCHANGED undeleted
DeleteTempFails == undeleted' = undeleted + 1 /\ UNCHANGED temps

\* What makes run throw may be what makes the deletion fail, too, which is suppressed.  A stream
\* around the file of the temporary archive, or of the one that is read, may be what fails:
\* that file is not closed then.
DebThrows ==
  /\ Runs("createDeb") /\ Fault /\ Fails
  /\ IF task = "start" THEN UNCHANGED <<temps, undeleted>> ELSE DeleteTemp \/ DeleteTempFails
  /\ \/ UNCHANGED unclosed
     \/ task = "data" /\ \E file \in {"dataFile", "tarFile"} : unclosed' = unclosed \cup {file}
  /\ UNCHANGED <<tar, jdk, run, archive, zip, deb, kills>>

DebOpens ==
  /\ Runs("createDeb") /\ task = "data" /\ archive.whole /\ task' = "deb" /\ deb' = NoDeb
  /\ NoFault /\ UNCHANGED <<others, zip, plan, upToDate, temps, undeleted, kills>>

\* A deletion that fails now, in finally, is an exception.
DebDone ==
  /\ Runs("createDeb") /\ task = "deb"
  /\ deb' = [entries |-> DataEntries, whole |-> TRUE]
  /\ \/ DeleteTemp /\ Succeeds /\ NoFault
     \/ DeleteTempFails /\ Fails /\ Fault
  /\ UNCHANGED <<others, zip, kills>>

Kill ==
  /\ plan # <<>> /\ kills < MaxKills /\ kills' = kills + 1
  /\ plan' = <<>> /\ task' = "none"
  /\ step' = "idle" /\ streams' = <<>> /\ unclosed' = {} /\ left' = {} /\ at' = 0
  /\ UNCHANGED <<tar, jdk, zip, ok, processedJbr, archive, faults, upToDate, deb, temps>>
  /\ UNCHANGED undeleted

Gradle ==
  \/ FetchStart \/ FetchDone \/ FetchFails
  \/ NativesPrepareFails \/ NativesStart \/ NativesAdd \/ NativesThrow \/ NativesDelete
  \/ NativesDone \/ Transform \/ DebData \/ DebThrows \/ DebOpens \/ DebDone

Next ==
  \/ \E goal \in Providers \cup {"transform", "createDeb"} : Ask(goal)
  \/ Gradle \/ Kill

\* A task is not held up, and whoever wants the package asks for it again.
FairSpec ==
  /\ Init /\ [][Next]_vars
  /\ WF_vars(Gradle /\ NoFault) /\ SF_vars(Ask("createDeb"))

----------------------------------------------------------------------------
TypeOK ==
  /\ step \in {"idle", "open", "prefix", "entries", "jdk", "close", "done"} /\ ok \in BOOLEAN
  /\ \E n \in 0..Len(Streams) : streams = SubSeq(Streams, 1, n)
  /\ at \in 0..Len(tar) + Len(JdkEntries)
  /\ left \subseteq DOMAIN Replacement \cup Transformed \cup FilteredOut
  /\ zip.entries \cup zip.cut \subseteq Natives /\ (zip.whole => zip.exists)
  /\ temps \in Nat /\ undeleted \in Nat /\ unclosed \subseteq {"jdkFile", "dataFile", "tarFile"}
  /\ upToDate \subseteq Providers \cup {"transform", "createDeb"}

\* What the distribution for the target architecture is made of, whatever order the base
\* archive lists its files in.
Patched == DOMAIN Replacement \cup Transformed \cup FilteredOut \cup JbrPaths
Wanted ==
  {[path |-> r.target, type |-> "file", from |-> r.native] : r \in Range(Replacement)}
  \cup {[path |-> p, type |-> "file", from |-> "rewritten"] : p \in Transformed}
  \cup {e \in Range(Tail(tar)) : e.path \notin Patched}
  \cup IF jdk = "none" THEN {} ELSE Range(JdkEntries)

\* transform succeeds only if the archive on the disk is closed properly and holds every
\* file once, all natives among them, and none of another architecture.  (Natives that a
\* killed buildNatives left cut short go into it as they are.)
ArchiveRight ==
  "transform" \in upToDate /\ zip.cut = {} =>
    /\ archive.whole /\ Range(archive.entries) = Wanted
    /\ Len(archive.entries) = Cardinality(Wanted)

\* createDeb succeeds only with every regular file of these, as it is, whatever earlier
\* invocations that failed or were killed left of the archive.  Every symbolic link of the IDE
\* and of the JDK is an empty file in the package: run never looks at what a link points to.
DebRight ==
  "createDeb" \in upToDate /\ zip.cut = {} =>
    /\ deb.whole
    /\ deb.entries =
         {[path |-> e.path, type |-> "file", from |-> e.from] :
            e \in {x \in Wanted : x.type \notin {"dir", "link"}}}
         \cup {[path |-> e.path, type |-> "file", from |-> "nothing"] :
                 e \in {x \in Wanted : x.type = "link"}}

\* However an invocation ends, the streams that OpenHelper knows are closed, and a temporary
\* file is left only by one that was killed or could not delete it.  A file that was opened to
\* be read or written through another stream stays open only if that stream could not be made:
\* without an I/O error, if the JDK is not packed with gzip.
NothingLeft ==
  plan = <<>> =>
    /\ streams = <<>> /\ temps <= kills + undeleted
    /\ unclosed # {} => faults > 0 \/ (jdk = "zip" /\ unclosed = {"jdkFile"})

\* A build that failed can be repeated: from archives that are fit the package is made in
\* the end, unless an invocation was killed and left an incomplete zip, which then passes
\* for one that was built.
Fit ==
  /\ jdk \in {"none", "tar.gz"} /\ Len(tar) > 0 /\ tar[1].type = "dir"
  /\ DOMAIN Replacement \cup Transformed \cup {"jbr/"} \subseteq {e.path : e \in Range(tar)}
Torn == kills > 0 /\ plan = <<>> /\ zip.exists /\ ~(zip.whole /\ zip.entries = Natives)
BuildRepeats == <>("createDeb" \in upToDate \/ ~Fit \/ Torn)
=============================================================================
