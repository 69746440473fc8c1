----------------------------- MODULE IdeArchive -----------------------------
(***************************************************************************)
(* buildSrc, tasks/TransformIDE.java and transformer/IDETransformer.java:  *)
(* the official archive of an IDE is copied, entry by entry, into the one  *)
(* for the target architecture: native binaries are replaced by those of   *)
(* the natives zip, a few files are rewritten, and the JBR makes way for a *)
(* JDK.  The streams are opened one by one, registered in an OpenHelper,   *)
(* and closed in the opposite order whatever happened.  The contents of a  *)
(* file are where they come from.                                          *)
(***************************************************************************)
EXTENDS Naturals, Sequences, Functions

CONSTANTS
  Replacement,  \* replaced file -> its native and the path it gets
  Transformed,  \* files that are rewritten
  FilteredOut,  \* files that are dropped if they are there
  JbrPaths,     \* what is below jbr/, itself included
  JdkEntries,   \* entries of a JDK archive, below jbr/
  Bundled,      \* natives that come with the build (libjnidispatch.so, from the class path)
  MaxFaults     \* bound: I/O errors

\* The transformers are kept in a map, none of them is for a file below jbr/, and they
\* write different files.
ASSUME PathsAssumption ==
  /\ DOMAIN Replacement \cap (Transformed \cup FilteredOut) = {}
  /\ Transformed \cap FilteredOut = {}
  /\ JbrPaths \cap (DOMAIN Replacement \cup Transformed \cup FilteredOut) = {}
ASSUME TargetsAssumption ==
  \A p, q \in DOMAIN Replacement :
    /\ Replacement[p].target = Replacement[q].target => p = q
    /\ Replacement[p].target \notin Transformed

\* An archive lists a path once.
IsArchive(s) == s \in Seq(Range(s)) /\ \A i, j \in DOMAIN s : s[i].path = s[j].path => i = j
ASSUME JdkAssumption ==
  /\ IsArchive(JdkEntries)
  /\ \A e \in Range(JdkEntries) :
       e.path \notin Transformed \cup {Replacement[p].target : p \in DOMAIN Replacement}

VARIABLES
  tar,      \* entries of the base archive
  jdk,      \* the JDK archive: "none", "tar.gz", "empty", "foreign" (a second
            \* directory at its top) or "zip"
  zip,      \* the natives zip: whether it exists, its entries, those that were cut short
            \* by a failure to write them, and whether it was closed
  step,     \* where run is
  ok,       \* no exception was thrown
  streams,  \* allCloseable, as far as still open
  unclosed, \* streams whose name the program has lost: the one around them was not made
  at,       \* entries read of the archive that is being copied from
  left,     \* transformers of files that were not met yet
  processedJbr,
  archive,  \* the target file
  faults

run == <<step, ok, streams, at, left, processedJbr>>

Fault == faults < MaxFaults /\ faults' = faults + 1
NoFault == UNCHANGED faults

\* What the zip has to have.
Natives == {Replacement[p].native : p \in DOMAIN Replacement} \ Bundled

\* entries: complete entries.  pending: the last one was begun and not closed.  ended: the
\* end of the tar was written.  whole: and then that of the gzip.
NewArchive == [entries |-> <<>>, pending |-> FALSE, ended |-> FALSE, whole |-> FALSE]

TransformInit ==
  /\ step = "idle" /\ ok = TRUE /\ streams = <<>> /\ at = 0 /\ left = {}
  /\ processedJbr = FALSE /\ archive = NewArchive /\ unclosed = {} /\ faults = 0

TransformStarts ==
  /\ step' = "open" /\ ok' = TRUE /\ at' = 0 /\ left' = {} /\ processedJbr' = FALSE
  /\ UNCHANGED <<streams, unclosed, archive, faults>>

Throws == step' = "close" /\ ok' = FALSE

----------------------------------------------------------------------------
\* The constructor.  A zip without its directory is not opened.
Streams == <<"nativesZip", "baseTar", "gzipInput", "tarInput",
             "targetFile", "gzipOutput", "tarOutput">>

\* Mutant: the constructor does not close what it opened before it failed.
OpenFailsLeaking == step' = "done" /\ ok' = FALSE
OpenFails == Throws   \* onException closes what was registered

Open ==
  /\ step = "open"
  /\ LET s == Streams[Len(streams) + 1]
     IN \/ /\ s = "nativesZip" => zip.whole
           /\ streams' = Append(streams, s) /\ NoFault
           /\ archive' = IF s = "targetFile" THEN NewArchive ELSE archive
           /\ step' = IF s = "tarOutput" THEN "prefix" ELSE "open"
           /\ UNCHANGED ok
        \/ /\ Fault \/ (s = "nativesZip" /\ ~zip.whole /\ NoFault)
           /\ OpenFails /\ UNCHANGED <<streams, archive>>
  /\ UNCHANGED <<at, left, processedJbr>>

\* The first entry is the directory all others are in; getTransformers reads the natives.
Prepared == Len(tar) > 0 /\ tar[1].type = "dir" /\ Natives \subseteq zip.entries \cup zip.cut

ReadPrefix ==
  /\ step = "prefix"
  /\ \/ /\ Prepared /\ NoFault /\ step' = "entries" /\ at' = 1 /\ UNCHANGED ok
        /\ left' = DOMAIN Replacement \cup Transformed \cup FilteredOut
     \/ /\ Fault \/ (~Prepared /\ NoFault)
        /\ Throws /\ UNCHANGED <<at, left>>
  /\ UNCHANGED <<streams, processedJbr, archive>>

\* putArchiveEntry, the contents, closeArchiveEntry
Put(e) == archive' = [archive EXCEPT !.entries = Append(@, e)]

\* Reading or rewriting fails before, reading or writing after putArchiveEntry.
EntryFails ==
  /\ step \in {"entries", "jdk"} /\ Fault /\ Throws
  /\ \E pending \in BOOLEAN : archive' = [archive EXCEPT !.pending = pending]
  /\ UNCHANGED <<streams, at, left, processedJbr>>

Replaced(e) ==
  LET r == Replacement[e.path]
  IN [path |-> r.target, type |-> "file",
      from |-> IF r.native \in zip.cut THEN "cut" ELSE r.native]

Rewritten(e) == [path |-> e.path, type |-> "file", from |-> "rewritten"]

\* The file of the JDK is opened, and the GZIPInputStream around it throws: it is no gzip, or
\* it cannot be read.  Nothing closes the file: the resource is the stream around both.
JdkOpenFails ==
  /\ step = "entries" /\ at < Len(tar) /\ tar[at + 1].path = "jbr/" /\ jdk # "none"
  /\ Fault \/ (jdk = "zip" /\ NoFault)
  /\ at' = at + 1 /\ processedJbr' = TRUE /\ Throws /\ unclosed' = unclosed \cup {"jdkFile"}
  /\ UNCHANGED <<streams, left, archive>>

\* One entry of the base archive.
NextEntry ==
  /\ step = "entries" /\ at < Len(tar) /\ at' = at + 1 /\ NoFault
  /\ LET e == tar[at + 1]
     IN \/ /\ e.path \in JbrPaths /\ UNCHANGED left
           /\ e.path = "jbr/" => jdk # "zip"
           /\ IF e.path # "jbr/" THEN UNCHANGED <<step, ok, processedJbr>>
              ELSE /\ processedJbr' = TRUE
                   /\ CASE jdk = "none" -> UNCHANGED <<step, ok>>
                        [] jdk \in {"tar.gz", "foreign"} -> step' = "jdk" /\ UNCHANGED ok
                        [] jdk = "empty" -> Throws
           /\ UNCHANGED archive
        \/ /\ e.path \in left /\ left' = left \ {e.path}
           /\ CASE e.path \in DOMAIN Replacement -> Put(Replaced(e))
                [] e.path \in Transformed -> Put(Rewritten(e))
                [] e.path \in FilteredOut -> UNCHANGED archive
           /\ UNCHANGED <<step, ok, processedJbr>>
        \/ /\ e.path \notin JbrPaths \cup left /\ Put(e)
           /\ UNCHANGED <<step, ok, left, processedJbr>>
  /\ UNCHANGED streams

\* copyJRE; at counts on from where the base archive was left.
JdkAt == at - (CHOOSE i \in 1..Len(tar) : tar[i].path = "jbr/")
CopyJRE ==
  /\ step = "jdk" /\ NoFault /\ UNCHANGED <<streams, left, processedJbr>>
  /\ \/ /\ JdkAt < Len(JdkEntries) /\ ~(jdk = "foreign" /\ JdkAt = 1)
        /\ Put(JdkEntries[JdkAt + 1]) /\ at' = at + 1 /\ UNCHANGED <<step, ok>>
     \/ /\ jdk = "foreign" /\ JdkAt = 1   \* "Invalid directory entry"
        /\ Throws /\ UNCHANGED <<at, archive>>
     \/ /\ JdkAt = Len(JdkEntries)
        /\ step' = "entries" /\ at' = at - JdkAt /\ UNCHANGED <<ok, archive>>

\* The checks behind the loop.
\* Mutant: a base archive without a JBR is accepted.
CompleteWithoutJbr == left \subseteq FilteredOut
Complete == left \subseteq FilteredOut /\ processedJbr

Check ==
  /\ step = "entries" /\ at = Len(tar) /\ NoFault
  /\ IF Complete THEN step' = "close" /\ UNCHANGED ok ELSE Throws
  /\ UNCHANGED <<streams, at, left, processedJbr, archive>>

----------------------------------------------------------------------------
\* OpenHelper: everything is closed, the last opened first, and a failure to close one is
\* kept for the end.
\* Mutant: a failure to close is forgotten.
ClosingForgets(fails) == UNCHANGED ok
Closing(fails) == ok' = (ok /\ ~fails)

WithoutAt(s, i) == SubSeq(s, 1, i - 1) \o SubSeq(s, i + 1, Len(s))

\* Mutant: in the order in which they were opened.
FirstOpened == 1
LastOpened == Len(streams)

CloseStream ==
  /\ step = "close" /\ streams # <<>> /\ streams' = WithoutAt(streams, LastOpened)
  /\ \E fails \in BOOLEAN :
       LET s == streams[LastOpened]
           throws == fails \/ (s = "tarOutput" /\ archive.pending)
       IN /\ IF fails THEN Fault ELSE NoFault
          /\ archive' = CASE s = "tarOutput" -> [archive EXCEPT !.ended = ~throws]
                          [] s = "gzipOutput" -> [archive EXCEPT !.whole = archive.ended /\ ~fails]
                          [] s \notin {"tarOutput", "gzipOutput"} -> archive
          /\ Closing(throws)
  /\ UNCHANGED <<step, at, left, processedJbr>>

Closed ==
  /\ step = "close" /\ streams = <<>> /\ step' = "done" /\ NoFault
  /\ UNCHANGED <<ok, streams, at, left, processedJbr, archive>>

TransformStep ==
  /\ \/ JdkOpenFails
     \/ /\ \/ Open \/ ReadPrefix \/ NextEntry \/ CopyJRE \/ EntryFails \/ Check
           \/ CloseStream \/ Closed
        /\ UNCHANGED unclosed
  /\ UNCHANGED <<tar, jdk, zip>>
=============================================================================
