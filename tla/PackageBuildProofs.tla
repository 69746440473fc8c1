------------------------- MODULE PackageBuildProofs -------------------------
(***************************************************************************)
(* For every base archive, set of natives, JDK archive and schedule of     *)
(* invocations, failures and kills: what the build says is up to date is   *)
(* the archive, and the package, that the target architecture wants.       *)
(***************************************************************************)
EXTENDS PackageBuild, SequenceTheorems, FiniteSetTheorems, TLAPS

\* What one entry of the base archive becomes, and the first k of them (the first is the
\* directory that they are in).
Keys == DOMAIN Replacement \cup Transformed \cup FilteredOut
Out(e) ==
  IF e.path \in DOMAIN Replacement THEN {Replaced(e)}
  ELSE IF e.path \in Transformed THEN {Rewritten(e)}
  ELSE IF e.path \in FilteredOut \cup JbrPaths THEN {}
  ELSE {e}
Written(k) == UNION {Out(tar[i]) : i \in 2..k}
SeenPaths(k) == {tar[i].path : i \in 2..k}
JdkWritten(k) == {JdkEntries[i] : i \in 1..k}
JbrAt == CHOOSE i \in 1..Len(tar) : tar[i].path = "jbr/"

\* The streams that are open are the first of Streams, as many as the step needs.
StreamsOk ==
  /\ Len(streams) \in 0..7 /\ streams = SubSeq(Streams, 1, Len(streams))
  /\ step \in {"idle", "done"} => Len(streams) = 0
  /\ step = "open" => Len(streams) < 7
  /\ step \in {"prefix", "entries", "jdk"} => Len(streams) = 7

StepOk ==
  /\ step \in {"idle", "open", "prefix", "entries", "jdk", "close", "done"} /\ ok \in BOOLEAN
  /\ processedJbr \in BOOLEAN /\ (step \in {"open", "prefix"} => processedJbr = FALSE)
  /\ step \in {"open", "prefix", "entries", "jdk"} => ok = TRUE
  /\ archive \in [entries : {archive.entries}, pending : BOOLEAN, ended : BOOLEAN,
                  whole : BOOLEAN]
  /\ (step = "open" /\ Len(streams) >= 5) \/ step = "prefix" => archive = NewArchive
  /\ step \in {"entries", "jdk"} => archive.pending = FALSE

\* doTransform: what was written so far is what the entries read so far become, and no path
\* was written twice.
CopyOk ==
  /\ IsArchive(archive.entries)
  /\ left \subseteq Keys /\ at \in 0..Len(tar) + Len(JdkEntries)
  /\ step = "entries" =>
       /\ at \in 1..Len(tar) /\ left = Keys \ SeenPaths(at)
       /\ processedJbr = TRUE => "jbr/" \in SeenPaths(at)
       /\ Range(archive.entries) = Written(at) \cup
            IF processedJbr = TRUE /\ jdk # "none" THEN Range(JdkEntries) ELSE {}
  /\ step = "jdk" =>
       /\ jdk # "none" /\ processedJbr = TRUE
       /\ JbrAt \in 2..Len(tar) /\ tar[JbrAt].path = "jbr/" /\ left = Keys \ SeenPaths(JbrAt)
       /\ at - JbrAt \in 0..Len(JdkEntries)
       /\ Range(archive.entries) = Written(JbrAt) \cup JdkWritten(at - JbrAt)

\* Closing: without an exception the archive is complete, and what it takes to make it whole
\* has been written before the stream below is closed.
ArchiveGood == zip.cut = {} => Range(archive.entries) = Wanted
CloseOk ==
  step \in {"close", "done"} /\ ok = TRUE =>
    /\ archive.pending = FALSE /\ ArchiveGood
    /\ Len(streams) < 7 => archive.ended = TRUE
    /\ Len(streams) < 6 => archive.whole = TRUE

TransformInv == StreamsOk /\ StepOk /\ CopyOk /\ CloseOk

\* The invocations that Tasks can plan: a package is only made of an archive that is up to
\* date, and an archive only with a natives zip.
Plans ==
  {<<>>, <<"buildNatives">>, <<"buildNatives", "transform">>,
   <<"buildNatives", "transform", "createDeb">>, <<"fetchNatives">>,
   <<"fetchNatives", "transform">>, <<"fetchNatives", "transform", "createDeb">>,
   <<"transform">>, <<"transform", "createDeb">>, <<"createDeb">>}
RunsNow == IF plan = <<>> THEN "nothing" ELSE Head(plan)
PlanOk ==
  /\ plan \in Plans
  /\ RunsNow = "nothing" => task = "none"
  /\ RunsNow = "buildNatives" => task \in {"start", "add", "delete"}
  /\ RunsNow = "fetchNatives" => task \in {"start", "fetch"}
  /\ RunsNow = "transform" => task \in {"start", "run"}
  /\ RunsNow = "createDeb" => task \in {"start", "data", "deb"}
  /\ step # "idle" <=> RunsNow = "transform" /\ task = "run"

ZipOk ==
  /\ zip \in [exists : BOOLEAN, entries : SUBSET Natives, cut : SUBSET Natives, whole : BOOLEAN]
  /\ zip.whole = TRUE => zip.exists = TRUE
  /\ RunsNow \in {"transform", "createDeb"} => zip.exists = TRUE
  /\ RunsNow \in Providers /\ task \in {"add", "fetch"} => zip.exists = TRUE

\* What a task has begun to overwrite is not up to date, and what is up to date is right.
UpToDateOk ==
  /\ upToDate \subseteq Providers \cup {"transform", "createDeb"}
  /\ RunsNow \in Providers /\ task # "start" => upToDate = {}
  /\ RunsNow = "transform" /\ task # "start" => upToDate \subseteq Providers
  /\ RunsNow = "createDeb" => "transform" \in upToDate
  /\ RunsNow = "createDeb" /\ task # "start" => "createDeb" \notin upToDate
  /\ upToDate \cap Providers # {} => zip.exists = TRUE
  /\ "transform" \in upToDate => zip.exists = TRUE /\ archive.whole = TRUE /\ ArchiveGood
  /\ "createDeb" \in upToDate => "transform" \in upToDate /\ DebRight

TempsOk ==
  /\ temps \in Nat /\ kills \in Nat /\ undeleted \in Nat
  /\ IF RunsNow = "createDeb" /\ task \in {"data", "deb"}
     THEN temps \in 1..kills + undeleted + 1 ELSE temps <= kills + undeleted

Jdks == {"none", "tar.gz", "empty", "foreign", "zip"}
BuildInv ==
  /\ tar \in Tars /\ jdk \in Jdks
  /\ TransformInv /\ PlanOk /\ ZipOk /\ UpToDateOk /\ TempsOk

----------------------------------------------------------------------------
\* Archives: sequences of entries with different paths.
LEMMA ArchiveFacts ==
  ASSUME NEW s, IsArchive(s)
  PROVE  /\ s \in Seq(Range(s)) /\ Len(s) \in Nat /\ DOMAIN s = 1..Len(s)
         /\ Range(s) = {s[i] : i \in 1..Len(s)}
         /\ \A i, j \in 1..Len(s) : s[i].path = s[j].path => i = j
  BY LenProperties DEF IsArchive, Range

LEMMA EmptyArchive == IsArchive(<<>>) /\ Range(<<>>) = {} /\ Len(<<>>) = 0
<1>1. PICK s : s = <<>>
  OBVIOUS
<1>2. s \in Seq({}) /\ Len(s) = 0
  BY <1>1, EmptySeq
<1>3. DOMAIN s = {}
  BY <1>2, LenProperties
<1>4. Range(s) = {} /\ IsArchive(s)
  BY <1>2, <1>3 DEF Range, IsArchive
<1> QED BY <1>1, <1>2, <1>4

LEMMA AppendArchive ==
  ASSUME NEW s, IsArchive(s), NEW e, \A x \in Range(s) : x.path # e.path
  PROVE  IsArchive(Append(s, e)) /\ Range(Append(s, e)) = Range(s) \cup {e}
<1> DEFINE S == Range(s) \cup {e}  new == Append(s, e)
<1>1. s \in Seq(S) /\ Len(s) \in Nat
  BY ArchiveFacts, SeqMonotonic
<1>2. /\ new \in Seq(S) /\ Len(new) = Len(s) + 1
      /\ \A i \in 1..Len(s) : new[i] = s[i]
      /\ new[Len(s) + 1] = e
  BY <1>1, AppendProperties
<1> HIDE DEF new
<1>3. DOMAIN new = 1..Len(s) + 1
  BY <1>2, LenProperties
<1>4. Range(new) = Range(s) \cup {e}
  <2>1. Range(s) = {s[i] : i \in 1..Len(s)}
    BY ArchiveFacts
  <2>2. Range(new) = {new[i] : i \in 1..Len(s) + 1}
    BY <1>3 DEF Range
  <2>3. 1..Len(s) + 1 = 1..Len(s) \cup {Len(s) + 1}
    BY <1>1
  <2> QED BY <1>2, <2>1, <2>2, <2>3
<1>5. ASSUME NEW i \in 1..Len(s) + 1, NEW j \in 1..Len(s) + 1, new[i].path = new[j].path PROVE i = j
  <2>1. \A k \in 1..Len(s) : s[k] \in Range(s)
    BY ArchiveFacts
  <2>2. CASE i \in 1..Len(s) /\ j \in 1..Len(s)
    BY <1>2, <1>5, <2>2, ArchiveFacts
  <2>3. CASE i = Len(s) + 1 /\ j \in 1..Len(s)
    BY <1>2, <1>5, <2>1, <2>3
  <2>4. CASE i \in 1..Len(s) /\ j = Len(s) + 1
    BY <1>2, <1>5, <2>1, <2>4
  <2> QED BY <1>1, <2>2, <2>3, <2>4
<1>6. IsArchive(new)
  BY <1>2, <1>3, <1>4, <1>5 DEF IsArchive
<1> QED BY <1>4, <1>6 DEF new

LEMMA ArchiveCount ==
  ASSUME NEW s, IsArchive(s)
  PROVE  Cardinality(Range(s)) = Len(s)
<1>1. Len(s) \in Nat /\ s \in [1..Len(s) -> Range(s)] /\ DOMAIN s = 1..Len(s)
  BY ArchiveFacts, LenProperties
<1>2. IsInjective(s)
  BY DEF IsArchive, IsInjective
<1>3. s \in Bijection(1..Len(s), Range(s))
  BY <1>1, <1>2, ArchiveFacts DEF Bijection, Injection, Surjection
<1> QED BY <1>1, <1>3, FS_CountingElements DEF ExistsBijection

----------------------------------------------------------------------------
\* The entries of the base archive become files with different paths, and none of a path that
\* the JDK has.
LEMMA BaseIsArchive ==
  ASSUME tar \in Tars
  PROVE  /\ IsArchive(tar) /\ Len(tar) \in Nat
         /\ \A i \in 1..Len(tar) : tar[i] \in Range(tar)
         /\ \A i, j \in 1..Len(tar) : tar[i].path = tar[j].path => i = j
<1>1. IsArchive(tar)
  BY TarsAssumption
<1>2. Range(tar) = {tar[i] : i \in 1..Len(tar)}
  BY <1>1, ArchiveFacts
<1> QED BY <1>1, <1>2, ArchiveFacts

LEMMA OutPath ==
  ASSUME NEW e, NEW x \in Out(e)
  PROVE  \/ e.path \in DOMAIN Replacement /\ x.path = Replacement[e.path].target
         \/ e.path \in Transformed /\ x.path = e.path
         \/ e.path \notin Keys \cup JbrPaths /\ x = e
  BY DEF Out, Replaced, Rewritten, Keys

LEMMA OutPathsApart ==
  ASSUME tar \in Tars, NEW i \in 1..Len(tar), NEW x \in Out(tar[i])
  PROVE  /\ \A j \in 1..Len(tar) : j # i => \A y \in Out(tar[j]) : y.path # x.path
         /\ \A f \in Range(JdkEntries) : f.path # x.path
<1>1. \A k \in 1..Len(tar) : tar[k].path \notin Keys \cup JbrPaths =>
         /\ \A p \in DOMAIN Replacement : Replacement[p].target # tar[k].path
         /\ \A f \in Range(JdkEntries) : f.path # tar[k].path
  BY BaseIsArchive, TarsAssumption DEF Keys
<1>2. \A f \in Range(JdkEntries) : f.path # x.path
  BY <1>1, OutPath, JdkAssumption
<1>3. ASSUME NEW j \in 1..Len(tar), j # i, NEW y \in Out(tar[j]) PROVE y.path # x.path
  <2>1. tar[i].path # tar[j].path
    BY <1>3, BaseIsArchive
  <2>2. \/ tar[i].path \in DOMAIN Replacement /\ x.path = Replacement[tar[i].path].target
        \/ tar[i].path \in Transformed /\ x.path = tar[i].path
        \/ tar[i].path \notin Keys \cup JbrPaths /\ x = tar[i]
    BY OutPath
  <2>3. \/ tar[j].path \in DOMAIN Replacement /\ y.path = Replacement[tar[j].path].target
        \/ tar[j].path \in Transformed /\ y.path = tar[j].path
        \/ tar[j].path \notin Keys \cup JbrPaths /\ y = tar[j]
    BY OutPath
  <2>4. CASE tar[i].path \in DOMAIN Replacement /\ x.path = Replacement[tar[i].path].target
    BY <1>1, <2>1, <2>3, <2>4, TargetsAssumption
  <2>5. CASE tar[i].path \in Transformed /\ x.path = tar[i].path
    BY <1>1, <2>1, <2>3, <2>5, TargetsAssumption
  <2>6. CASE tar[i].path \notin Keys \cup JbrPaths /\ x = tar[i]
    BY <1>1, <2>1, <2>3, <2>6
  <2> QED BY <2>2, <2>4, <2>5, <2>6
<1> QED BY <1>2, <1>3

LEMMA NextWritten ==
  ASSUME NEW k \in Nat \ {0}
  PROVE  /\ Written(k + 1) = Written(k) \cup Out(tar[k + 1])
         /\ SeenPaths(k + 1) = SeenPaths(k) \cup {tar[k + 1].path}
<1>1. 2..k + 1 = 2..k \cup {k + 1}
  OBVIOUS
<1> QED BY <1>1 DEF Written, SeenPaths

LEMMA NothingWritten == Written(1) = {} /\ SeenPaths(1) = {}
<1>1. 2..1 = {}
  OBVIOUS
<1> QED BY <1>1 DEF Written, SeenPaths

\* When every entry was read, and none that is to be replaced or rewritten was missing, what was
\* written is what the target architecture wants.
LEMMA AllWritten ==
  ASSUME tar \in Tars, Len(tar) > 0, zip.cut = {},
         DOMAIN Replacement \cup Transformed \subseteq SeenPaths(Len(tar))
  PROVE  Written(Len(tar)) \cup (IF jdk = "none" THEN {} ELSE Range(JdkEntries)) = Wanted
<1> DEFINE n == Len(tar)
           R == {[path |-> r.target, type |-> "file", from |-> r.native] : r \in Range(Replacement)}
           T == {[path |-> p, type |-> "file", from |-> "rewritten"] : p \in Transformed}
           B == {e \in Range(Tail(tar)) : e.path \notin Patched}
<1>1. n \in Nat \ {0} /\ tar \in Seq(Range(tar))
  BY BaseIsArchive, ArchiveFacts
<1>2. Range(Tail(tar)) = {tar[i] : i \in 2..n}
  <2>1. tar # <<>>
    BY <1>1, EmptyArchive
  <2>2. /\ Tail(tar) \in Seq(Range(tar)) /\ Len(Tail(tar)) = n - 1
        /\ \A i \in 1..n - 1 : Tail(tar)[i] = tar[i + 1]
    BY <1>1, <2>1, HeadTailProperties
  <2>3. Range(Tail(tar)) = {Tail(tar)[i] : i \in 1..n - 1}
    BY <2>2, RangeEquality
  <2>4. \A i \in 2..n : i - 1 \in 1..n - 1 /\ i - 1 + 1 = i
    BY <1>1
  <2>5. \A i \in 1..n - 1 : i + 1 \in 2..n
    BY <1>1
  <2>6. \A i \in 2..n : tar[i] = Tail(tar)[i - 1]
    BY <2>2, <2>4
  <2>7. Range(Tail(tar)) \subseteq {tar[i] : i \in 2..n}
    BY <2>2, <2>3, <2>5
  <2>8. \A i \in 2..n : tar[i] \in Range(Tail(tar))
    BY <2>3, <2>4, <2>6
  <2> QED BY <2>7, <2>8
<1>3. Patched = Keys \cup JbrPaths
  BY DEF Patched, Keys
<1>4. ASSUME NEW x \in Written(n) PROVE x \in R \cup T \cup B
  <2>1. PICK i \in 2..n : x \in Out(tar[i])
    BY DEF Written
  <2>2. CASE tar[i].path \in DOMAIN Replacement
    <3>1. x = [path |-> Replacement[tar[i].path].target, type |-> "file",
               from |-> Replacement[tar[i].path].native]
      BY <2>1, <2>2 DEF Out, Replaced
    <3> QED BY <2>2, <3>1 DEF Range
  <2>3. CASE tar[i].path \in Transformed
    BY <2>1, <2>3, PathsAssumption DEF Out, Rewritten
  <2>4. CASE tar[i].path \notin DOMAIN Replacement \cup Transformed
    <3>1. x = tar[i] /\ tar[i].path \notin Keys \cup JbrPaths
      BY <2>1, <2>4 DEF Out, Keys
    <3> QED BY <1>2, <1>3, <3>1
  <2> QED BY <2>2, <2>3, <2>4
<1>5. ASSUME NEW x \in R PROVE x \in Written(n)
  <2>1. PICK p \in DOMAIN Replacement :
          x = [path |-> Replacement[p].target, type |-> "file", from |-> Replacement[p].native]
    BY DEF Range
  <2>2. PICK i \in 2..n : tar[i].path = p
    BY DEF SeenPaths
  <2>3. x \in Out(tar[i])
    BY <2>1, <2>2 DEF Out, Replaced
  <2> QED BY <2>3 DEF Written
<1>6. ASSUME NEW x \in T PROVE x \in Written(n)
  <2>1. PICK p \in Transformed : x = [path |-> p, type |-> "file", from |-> "rewritten"]
    OBVIOUS
  <2>2. PICK i \in 2..n : tar[i].path = p
    BY DEF SeenPaths
  <2>3. x \in Out(tar[i])
    BY <2>1, <2>2, PathsAssumption DEF Out, Rewritten
  <2> QED BY <2>3 DEF Written
<1>7. ASSUME NEW x \in B PROVE x \in Written(n)
  <2>1. PICK i \in 2..n : x = tar[i]
    BY <1>2
  <2>2. x \in Out(tar[i])
    BY <1>3, <2>1 DEF Out, Keys
  <2> QED BY <2>2 DEF Written
<1>8. Written(n) = R \cup T \cup B
  BY <1>4, <1>5, <1>6, <1>7
<1> QED BY <1>8 DEF Wanted

----------------------------------------------------------------------------
\* TransformIDE, step by step: while it runs nothing else changes what it reads.
SameInputs == tar \in Tars /\ jdk \in Jdks /\ UNCHANGED <<tar, jdk, zip>>

LEMMA SevenInSequence ==
  ASSUME NEW T, NEW a \in T, NEW b \in T, NEW c \in T, NEW d \in T, NEW e \in T, NEW f \in T,
         NEW g \in T
  PROVE  <<a, b, c, d, e, f, g>> \in Seq(T)
  OBVIOUS

StreamKinds ==
  {"nativesZip", "baseTar", "gzipInput", "tarInput", "targetFile", "gzipOutput", "tarOutput"}

LEMMA StreamNames ==
  /\ Streams \in Seq(StreamKinds) /\ Len(Streams) = 7
  /\ Streams[1] = "nativesZip" /\ Streams[5] = "targetFile"
  /\ Streams[6] = "gzipOutput" /\ Streams[7] = "tarOutput"
  /\ \A n \in 1..4 : Streams[n] \notin {"targetFile", "gzipOutput", "tarOutput"}
  /\ \A n \in 2..7 : Streams[n] # "nativesZip"
<1>1. Streams \in Seq(StreamKinds)
  BY SevenInSequence DEF Streams, StreamKinds
<1>2. Len(Streams) = 7
  BY DEF Streams
<1>3. Streams[1] = "nativesZip" /\ Streams[2] = "baseTar" /\ Streams[3] = "gzipInput"
  BY DEF Streams
<1>4. Streams[4] = "tarInput" /\ Streams[5] = "targetFile"
  BY DEF Streams
<1>5. Streams[6] = "gzipOutput" /\ Streams[7] = "tarOutput"
  BY DEF Streams
<1>6. 1..4 = {1, 2, 3, 4} /\ 2..7 = {2, 3, 4, 5, 6, 7}
  OBVIOUS
<1> QED BY <1>1, <1>2, <1>3, <1>4, <1>5, <1>6

LEMMA PrefixFacts ==
  ASSUME NEW T, NEW S \in Seq(T), NEW n \in 0..Len(S)
  PROVE  /\ SubSeq(S, 1, n) \in Seq(T) /\ Len(SubSeq(S, 1, n)) = n
         /\ \A i \in 1..n : SubSeq(S, 1, n)[i] = S[i]
         /\ SubSeq(S, 1, n) = <<>> <=> n = 0
<1> DEFINE s == SubSeq(S, 1, n)
<1>1. Len(S) \in Nat /\ \A i \in 1..n : S[i] \in T
  BY LenProperties, ElementOfSeq
<1>2. /\ s \in Seq(T) /\ Len(s) = IF 1 <= n THEN n - 1 + 1 ELSE 0
      /\ \A i \in 1..n - 1 + 1 : s[i] = S[1 + i - 1]
  BY <1>1, SubSeqProperties
<1> HIDE DEF s
<1>3. n \in Nat /\ n - 1 + 1 = n /\ \A i \in 1..n : 1 + i - 1 = i
  BY <1>1
<1>4. Len(s) = n
  BY <1>2, <1>3
<1>5. \A i \in 1..n : s[i] = S[i]
  BY <1>2, <1>3
<1>6. s = <<>> <=> n = 0
  <2>1. PICK e : e = <<>>
    OBVIOUS
  <2>2. e \in Seq(T) /\ Len(e) = 0
    BY <2>1, EmptySeq
  <2>3. n = 0 => s = e
    BY <1>2, <1>4, <2>2, SeqEqual
  <2>4. s = e => n = 0
    BY <1>4, <2>2
  <2> QED BY <2>1, <2>3, <2>4
<1> QED BY <1>2, <1>4, <1>5, <1>6 DEF s

LEMMA PrefixGrows ==
  ASSUME NEW T, NEW S \in Seq(T), NEW n \in 0..Len(S) - 1
  PROVE  Append(SubSeq(S, 1, n), S[n + 1]) = SubSeq(S, 1, n + 1)
<1>1. Len(S) \in Nat /\ n \in 0..Len(S) /\ n + 1 \in 0..Len(S) /\ n + 1 \in 1..Len(S)
  BY LenProperties
<1>2. PICK p : p = SubSeq(S, 1, n)
  OBVIOUS
<1>3. PICK t : t = SubSeq(S, 1, n + 1)
  OBVIOUS
<1>4. PICK s : s = Append(p, S[n + 1])
  OBVIOUS
<1>5. S[n + 1] \in T
  BY <1>1, ElementOfSeq
<1>6. p \in Seq(T) /\ Len(p) = n /\ \A i \in 1..n : p[i] = S[i]
  BY <1>1, <1>2, PrefixFacts
<1>7. t \in Seq(T) /\ Len(t) = n + 1 /\ \A i \in 1..n + 1 : t[i] = S[i]
  BY <1>1, <1>3, PrefixFacts
<1>8. /\ s \in Seq(T) /\ Len(s) = n + 1 /\ s[n + 1] = S[n + 1]
      /\ \A i \in 1..n : s[i] = S[i]
  BY <1>4, <1>5, <1>6, AppendProperties
<1>9. \A i \in 1..n + 1 : s[i] = t[i]
  <2>1. \A i \in 1..n + 1 : i \in 1..n \/ i = n + 1
    BY <1>1
  <2>2. n + 1 \in 1..n + 1
    BY <1>1
  <2> QED BY <1>7, <1>8, <2>1, <2>2
<1>10. s = t
  BY <1>7, <1>8, <1>9, SeqEqual
<1> QED BY <1>2, <1>3, <1>4, <1>10

LEMMA PrefixShrinks ==
  ASSUME NEW T, NEW S \in Seq(T), NEW n \in 1..Len(S)
  PROVE  WithoutAt(SubSeq(S, 1, n), n) = SubSeq(S, 1, n - 1)
<1>1. Len(S) \in Nat /\ n \in 0..Len(S) /\ n - 1 \in 0..Len(S) /\ n - 1 \in 0..n /\ n \in Int
  BY LenProperties
<1>2. PICK p : p = SubSeq(S, 1, n)
  OBVIOUS
<1>3. PICK t : t = SubSeq(S, 1, n - 1)
  OBVIOUS
<1>4. PICK s : s = SubSeq(p, 1, n - 1)
  OBVIOUS
<1>5. p \in Seq(T) /\ Len(p) = n /\ \A i \in 1..n : p[i] = S[i]
  BY <1>1, <1>2, PrefixFacts
<1>6. t \in Seq(T) /\ Len(t) = n - 1 /\ \A i \in 1..n - 1 : t[i] = S[i]
  BY <1>1, <1>3, PrefixFacts
<1>7. s \in Seq(T) /\ Len(s) = n - 1 /\ \A i \in 1..n - 1 : s[i] = p[i]
  BY <1>1, <1>4, <1>5, PrefixFacts
<1>8. \A i \in 1..n - 1 : i \in 1..n
  BY <1>1
<1>9. s = t
  BY <1>5, <1>6, <1>7, <1>8, SeqEqual
<1>10. PICK e : e = <<>>
  OBVIOUS
<1>11. SubSeq(p, n + 1, Len(p)) = e
  <2>1. n + 1 \in Int /\ n < n + 1
    BY <1>1
  <2> QED BY <1>1, <1>5, <1>10, <2>1, SubSeqEmpty
<1>12. s \o e = s
  BY <1>7, <1>10, ConcatEmptySeq
<1>13. WithoutAt(p, n) = s \o e
  BY <1>4, <1>11 DEF WithoutAt
<1> QED BY <1>2, <1>3, <1>9, <1>12, <1>13

\* The parts of the invariant after a step that keeps the inputs.
LEMMA CopyAfter ==
  ASSUME SameInputs, IsArchive(archive'.entries),
         left' \subseteq Keys, at' \in 0..Len(tar) + Len(JdkEntries),
         step' = "entries" =>
           /\ at' \in 1..Len(tar) /\ left' = Keys \ SeenPaths(at')
           /\ processedJbr' = TRUE => "jbr/" \in SeenPaths(at')
           /\ Range(archive'.entries) = Written(at') \cup
                IF processedJbr' = TRUE /\ jdk # "none" THEN Range(JdkEntries) ELSE {},
         step' = "jdk" =>
           /\ jdk # "none" /\ processedJbr' = TRUE
           /\ JbrAt \in 2..Len(tar) /\ tar[JbrAt].path = "jbr/"
           /\ left' = Keys \ SeenPaths(JbrAt)
           /\ at' - JbrAt \in 0..Len(JdkEntries)
           /\ Range(archive'.entries) = Written(JbrAt) \cup JdkWritten(at' - JbrAt)
  PROVE  CopyOk'
<1>1. /\ Written(at)' = Written(at') /\ Written(JbrAt)' = Written(JbrAt)
      /\ SeenPaths(at)' = SeenPaths(at') /\ SeenPaths(JbrAt)' = SeenPaths(JbrAt)
      /\ JbrAt' = JbrAt /\ JdkWritten(at - JbrAt)' = JdkWritten(at' - JbrAt)
  BY DEF SameInputs, Written, SeenPaths, Out, Replaced, Rewritten, JbrAt, JdkWritten
<1> QED BY <1>1 DEF SameInputs, CopyOk

LEMMA GoodAfter ==
  ASSUME SameInputs, zip.cut = {} => Range(archive'.entries) = Wanted
  PROVE  ArchiveGood'
<1>1. Wanted' = Wanted
  BY DEF SameInputs, Wanted, Patched
<1> QED BY <1>1 DEF SameInputs, ArchiveGood

\* An exception on the way: the archive is given up, with whatever it has.
LEMMA ThrowsAfter ==
  ASSUME SameInputs, TransformInv, step' = "close", ok' = FALSE, UNCHANGED streams,
         left' \subseteq Keys, at' \in 0..Len(tar) + Len(JdkEntries), processedJbr' \in BOOLEAN,
         archive'.entries = archive.entries,
         archive' \in [entries : {archive'.entries}, pending : BOOLEAN, ended : BOOLEAN,
                       whole : BOOLEAN]
  PROVE  TransformInv'
<1>1. StreamsOk'
  BY DEF TransformInv, StreamsOk
<1>2. StepOk' /\ CloseOk'
  BY DEF StepOk, CloseOk
<1>3. CopyOk'
  BY CopyAfter DEF TransformInv, CopyOk
<1> QED BY <1>1, <1>2, <1>3 DEF TransformInv

\* An entry was put into the archive; or the loops go on.
LEMMA PutAfter ==
  ASSUME StepOk, IsArchive(archive.entries), NEW e, Put(e),
         \A x \in Range(archive.entries) : x.path # e.path
  PROVE  /\ IsArchive(archive'.entries)
         /\ Range(archive'.entries) = Range(archive.entries) \cup {e}
         /\ archive'.pending = archive.pending
         /\ archive' \in [entries : {archive'.entries}, pending : BOOLEAN, ended : BOOLEAN,
                          whole : BOOLEAN]
<1>1. PICK s : s = Append(archive.entries, e)
  OBVIOUS
<1>2. archive' = [archive EXCEPT !.entries = s]
  BY <1>1 DEF Put
<1>3. archive' \in [entries : {s}, pending : BOOLEAN, ended : BOOLEAN, whole : BOOLEAN]
  BY <1>2 DEF StepOk
<1>4. archive'.entries = s /\ archive'.pending = archive.pending
  BY <1>2 DEF StepOk
<1>5. IsArchive(s) /\ Range(s) = Range(archive.entries) \cup {e}
  BY <1>1, AppendArchive
<1> QED BY <1>3, <1>4, <1>5

LEMMA RunningAfter ==
  ASSUME TransformInv, step \in {"prefix", "entries", "jdk"}, step' \in {"entries", "jdk"},
         ok' = TRUE, UNCHANGED streams, archive'.pending = FALSE, processedJbr' \in BOOLEAN,
         archive' \in [entries : {archive'.entries}, pending : BOOLEAN, ended : BOOLEAN,
                       whole : BOOLEAN]
  PROVE  StreamsOk' /\ StepOk' /\ CloseOk'
<1>1. StreamsOk'
  BY DEF TransformInv, StreamsOk
<1>2. StepOk' /\ CloseOk'
  BY DEF StepOk, CloseOk
<1> QED BY <1>1, <1>2

LEMMA NewPathApart ==
  ASSUME tar \in Tars, NEW k \in 1..Len(tar) - 1, NEW x \in Out(tar[k + 1]),
         NEW y \in Written(k) \cup Range(JdkEntries)
  PROVE  y.path # x.path
<1>1. Len(tar) \in Nat
  BY BaseIsArchive
<1>2. k + 1 \in 1..Len(tar)
  BY <1>1
<1>3. CASE y \in Range(JdkEntries)
  BY <1>2, <1>3, OutPathsApart
<1>4. CASE y \in Written(k)
  <2>1. PICK i \in 2..k : y \in Out(tar[i])
    BY <1>4 DEF Written
  <2>2. i \in 1..Len(tar) /\ i # k + 1
    BY <1>1
  <2> QED BY <1>2, <2>1, <2>2, OutPathsApart
<1> QED BY <1>3, <1>4

LEMMA NewPath ==
  ASSUME tar \in Tars, NEW k \in 1..Len(tar) - 1
  PROVE  tar[k + 1].path \notin SeenPaths(k)
<1>1. SUFFICES ASSUME tar[k + 1].path \in SeenPaths(k) PROVE FALSE
  OBVIOUS
<1>2. Len(tar) \in Nat
  BY BaseIsArchive
<1>3. PICK i \in 2..k : tar[i].path = tar[k + 1].path
  BY <1>1 DEF SeenPaths
<1>4. i \in 1..Len(tar) /\ k + 1 \in 1..Len(tar) /\ i # k + 1
  BY <1>2
<1> QED BY <1>3, <1>4, BaseIsArchive

LEMMA EntryWritten ==
  ASSUME SameInputs, TransformInv, step = "entries", at < Len(tar),
         step' = "entries", ok' = ok, at' = at + 1, UNCHANGED streams,
         left' = left \ {tar[at + 1].path},
         \/ processedJbr' = processedJbr
         \/ processedJbr' = TRUE /\ processedJbr = FALSE /\ jdk = "none"
            /\ tar[at + 1].path = "jbr/",
         \/ UNCHANGED archive /\ Out(tar[at + 1]) = {}
         \/ \E x : Out(tar[at + 1]) = {x} /\ Put(x)
  PROVE  TransformInv'
<1>1. /\ at \in 1..Len(tar) - 1 /\ at \in Nat \ {0} /\ at + 1 \in 1..Len(tar) /\ Len(tar) \in Nat
      /\ at' \in 0..Len(tar) + Len(JdkEntries)
  <2>1. at \in 1..Len(tar) /\ Len(tar) \in Nat /\ Len(JdkEntries) \in Nat
    BY BaseIsArchive, JdkAssumption, ArchiveFacts DEF TransformInv, CopyOk, SameInputs
  <2> QED BY <2>1
<1>2. /\ Written(at') = Written(at) \cup Out(tar[at + 1])
      /\ SeenPaths(at') = SeenPaths(at) \cup {tar[at + 1].path}
  BY <1>1, NextWritten
<1>3. left' \subseteq Keys /\ left' = Keys \ SeenPaths(at')
  BY <1>2 DEF TransformInv, CopyOk
<1>4. /\ StepOk /\ IsArchive(archive.entries) /\ archive.pending = FALSE /\ ok = TRUE
      /\ Range(archive.entries) = Written(at) \cup
            IF processedJbr = TRUE /\ jdk # "none" THEN Range(JdkEntries) ELSE {}
      /\ processedJbr = TRUE => "jbr/" \in SeenPaths(at)
  BY DEF TransformInv, CopyOk, StepOk
<1>5. /\ IsArchive(archive'.entries) /\ archive'.pending = FALSE
      /\ Range(archive'.entries) = Range(archive.entries) \cup Out(tar[at + 1])
      /\ archive' \in [entries : {archive'.entries}, pending : BOOLEAN, ended : BOOLEAN,
                       whole : BOOLEAN]
  <2>1. CASE UNCHANGED archive /\ Out(tar[at + 1]) = {}
    BY <1>4, <2>1 DEF StepOk
  <2>2. ASSUME NEW x, Out(tar[at + 1]) = {x}, Put(x)
        PROVE  /\ IsArchive(archive'.entries) /\ archive'.pending = FALSE
               /\ Range(archive'.entries) = Range(archive.entries) \cup Out(tar[at + 1])
               /\ archive' \in [entries : {archive'.entries}, pending : BOOLEAN, ended : BOOLEAN,
                                whole : BOOLEAN]
    <3>1. \A y \in Written(at) \cup Range(JdkEntries) : y.path # x.path
      BY <1>1, <2>2, NewPathApart DEF SameInputs
    <3>2. Range(archive.entries) \subseteq Written(at) \cup Range(JdkEntries)
      BY <1>4
    <3>3. \A y \in Range(archive.entries) : y.path # x.path
      BY <3>1, <3>2
    <3> QED BY <1>4, <2>2, <3>3, PutAfter
  <2> QED BY <2>1, <2>2
<1>6. processedJbr' \in BOOLEAN /\ (processedJbr' = TRUE => "jbr/" \in SeenPaths(at'))
  BY <1>2, <1>4 DEF StepOk
<1>7. Range(archive'.entries) = Written(at') \cup
        IF processedJbr' = TRUE /\ jdk # "none" THEN Range(JdkEntries) ELSE {}
  <2>1. CASE processedJbr' = processedJbr
    BY <1>2, <1>4, <1>5, <2>1
  <2>2. CASE processedJbr' # processedJbr
    BY <1>2, <1>4, <1>5, <2>2
  <2> QED BY <2>1, <2>2
<1>8. CopyOk'
  BY <1>1, <1>3, <1>5, <1>6, <1>7, CopyAfter
<1>9. StreamsOk' /\ StepOk' /\ CloseOk'
  BY <1>4, <1>5, <1>6, RunningAfter
<1> QED BY <1>8, <1>9 DEF TransformInv

LEMMA NextStream ==
  ASSUME NEW n \in 0..6, NEW s, s = SubSeq(Streams, 1, n)
  PROVE  /\ Append(s, Streams[n + 1]) = SubSeq(Streams, 1, n + 1)
         /\ Len(Append(s, Streams[n + 1])) = n + 1 /\ Append(s, Streams[n + 1]) # s
         /\ Streams[n + 1] = "targetFile" <=> n = 4
         /\ Streams[n + 1] = "tarOutput" <=> n = 6
<1>1. n \in 0..Len(Streams) - 1 /\ n \in 0..Len(Streams) /\ n + 1 \in 0..Len(Streams)
  BY StreamNames
<1>2. Append(s, Streams[n + 1]) = SubSeq(Streams, 1, n + 1)
  BY <1>1, StreamNames, PrefixGrows
<1>3. Len(SubSeq(Streams, 1, n + 1)) = n + 1 /\ Len(SubSeq(Streams, 1, n)) = n
  BY <1>1, StreamNames, PrefixFacts
<1>4. Append(s, Streams[n + 1]) # s
  <2>1. n + 1 # n
    OBVIOUS
  <2> QED BY <1>2, <1>3, <2>1
<1>5. n + 1 \in 1..4 \/ n + 1 = 5 \/ n + 1 = 6 \/ n + 1 = 7
  OBVIOUS
<1>6. (Streams[n + 1] = "targetFile" <=> n = 4) /\ (Streams[n + 1] = "tarOutput" <=> n = 6)
  <2>1. CASE n + 1 \in 1..4
    <3>1. Streams[n + 1] # "targetFile" /\ Streams[n + 1] # "tarOutput"
      BY <2>1, StreamNames
    <3>2. n # 4 /\ n # 6
      BY <2>1
    <3> QED BY <3>1, <3>2
  <2>2. CASE n + 1 = 5
    <3>1. Streams[n + 1] = "targetFile"
      BY <2>2, StreamNames
    <3>2. n = 4 /\ n # 6
      BY <2>2
    <3> QED BY <3>1, <3>2
  <2>3. CASE n + 1 = 6
    <3>1. Streams[n + 1] = "gzipOutput"
      BY <2>3, StreamNames
    <3>2. n # 4 /\ n # 6
      BY <2>3
    <3> QED BY <3>1, <3>2
  <2>4. CASE n + 1 = 7
    <3>1. Streams[n + 1] = "tarOutput"
      BY <2>4, StreamNames
    <3>2. n # 4 /\ n = 6
      BY <2>4
    <3> QED BY <3>1, <3>2
  <2> QED BY <1>5, <2>1, <2>2, <2>3, <2>4
<1> QED BY <1>2, <1>3, <1>4, <1>6

LEMMA OpenStep ==
  ASSUME SameInputs, TransformInv, Open
  PROVE  TransformInv'
<1>1. PICK n \in 0..6 : n = Len(streams) /\ streams = SubSeq(Streams, 1, n)
  BY DEF TransformInv, StreamsOk, Open
<1>2. PICK s : s = Streams[n + 1]
  OBVIOUS
<1>3. PICK next : next = Append(streams, s)
  OBVIOUS
<1>4. /\ next = SubSeq(Streams, 1, n + 1) /\ Len(next) = n + 1 /\ next # streams
      /\ s = "targetFile" <=> n = 4
      /\ s = "tarOutput" <=> n = 6
  BY <1>1, <1>2, <1>3, NextStream
<1>5. /\ ok = TRUE /\ processedJbr = FALSE /\ UNCHANGED <<at, left, processedJbr>> /\ step = "open"
      /\ n > 4 => archive = NewArchive
  BY <1>1 DEF TransformInv, StepOk, Open
<1>6. CASE streams' = next
  <2>1. /\ archive' = IF s = "targetFile" THEN NewArchive ELSE archive
        /\ step' = IF s = "tarOutput" THEN "prefix" ELSE "open"
        /\ ok' = TRUE
    BY <1>1, <1>2, <1>3, <1>4, <1>5, <1>6 DEF Open
  <2>2. IsArchive(NewArchive.entries)
    BY EmptyArchive DEF NewArchive
  <2>3. NewArchive \in [entries : {NewArchive.entries}, pending : BOOLEAN, ended : BOOLEAN,
                        whole : BOOLEAN]
    BY DEF NewArchive
  <2>4. /\ archive' = NewArchive \/ archive' = archive
        /\ n > 3 => archive' = NewArchive
    BY <1>4, <1>5, <2>1
  <2>5. n + 1 \in 0..7 /\ (n # 6 => n + 1 < 7) /\ (n = 6 => n + 1 = 7)
        /\ (n + 1 >= 5 => n > 3)
    OBVIOUS
  <2>6. StreamsOk'
    BY <1>4, <1>6, <2>1, <2>5 DEF StreamsOk
  <2>7. StepOk'
    <3>1. archive' \in [entries : {archive'.entries}, pending : BOOLEAN, ended : BOOLEAN,
                        whole : BOOLEAN]
      BY <2>3, <2>4 DEF TransformInv, StepOk
    <3>2. (step' = "open" /\ Len(streams') >= 5) \/ step' = "prefix" => archive' = NewArchive
      BY <1>4, <1>6, <2>1, <2>4, <2>5
    <3>3. step' \in {"open", "prefix"}
      BY <2>1
    <3> QED BY <1>5, <2>1, <3>1, <3>2, <3>3 DEF StepOk
  <2>8. IsArchive(archive'.entries)
    BY <2>2, <2>4 DEF TransformInv, CopyOk
  <2>9. CopyOk'
    BY <1>5, <2>1, <2>8, CopyAfter DEF TransformInv, CopyOk
  <2>10. CloseOk'
    BY <2>1 DEF CloseOk
  <2> QED BY <2>6, <2>7, <2>9, <2>10 DEF TransformInv
<1>7. CASE Throws /\ UNCHANGED <<streams, archive>>
  BY <1>5, <1>7, ThrowsAfter DEF Throws, TransformInv, StepOk, CopyOk
<1> QED BY <1>1, <1>2, <1>3, <1>6, <1>7 DEF Open, OpenFails

LEMMA ReadPrefixStep ==
  ASSUME SameInputs, TransformInv, ReadPrefix
  PROVE  TransformInv'
<1>1. /\ step = "prefix" /\ ok = TRUE /\ processedJbr = FALSE /\ archive = NewArchive
      /\ UNCHANGED <<streams, processedJbr, archive>>
  BY DEF TransformInv, StepOk, ReadPrefix
<1>2. CASE step' = "entries" /\ at' = 1 /\ UNCHANGED ok /\ left' = Keys /\ Len(tar) > 0
  <2>1. Len(tar) \in Nat /\ Len(JdkEntries) \in Nat
    BY BaseIsArchive, JdkAssumption, ArchiveFacts DEF SameInputs
  <2>2. /\ archive' = NewArchive /\ archive'.pending = FALSE /\ IsArchive(archive'.entries)
        /\ Range(archive'.entries) = {}
    BY <1>1, EmptyArchive DEF NewArchive
  <2>3. at' \in 1..Len(tar) /\ at' \in 0..Len(tar) + Len(JdkEntries)
    BY <1>2, <2>1
  <2>4. Written(at') = {} /\ SeenPaths(at') = {}
    BY <1>2, NothingWritten
  <2>5. CopyOk'
    BY <1>1, <1>2, <2>2, <2>3, <2>4, CopyAfter
  <2>6. StreamsOk' /\ StepOk' /\ CloseOk'
    BY <1>1, <1>2, <2>2, RunningAfter DEF TransformInv, StepOk
  <2> QED BY <2>5, <2>6 DEF TransformInv
<1>3. CASE Throws /\ UNCHANGED <<at, left>>
  BY <1>1, <1>3, ThrowsAfter DEF Throws, TransformInv, StepOk, CopyOk
<1> QED BY <1>1, <1>2, <1>3 DEF ReadPrefix, Prepared, Keys

LEMMA JdkOpenFailsStep ==
  ASSUME SameInputs, TransformInv, JdkOpenFails
  PROVE  TransformInv'
<1>1. Len(tar) \in Nat /\ Len(JdkEntries) \in Nat /\ at \in 0..Len(tar) + Len(JdkEntries)
  BY BaseIsArchive, JdkAssumption, ArchiveFacts DEF SameInputs, TransformInv, CopyOk
<1>2. at < Len(tar) /\ at' = at + 1 /\ processedJbr' = TRUE
  BY DEF JdkOpenFails
<1>3. at' \in 0..Len(tar) + Len(JdkEntries)
  BY <1>1, <1>2
<1> QED BY <1>2, <1>3, ThrowsAfter DEF JdkOpenFails, Throws, TransformInv, StepOk, CopyOk

LEMMA NextEntryStep ==
  ASSUME SameInputs, TransformInv, NextEntry
  PROVE  TransformInv'
<1>1. PICK e : e = tar[at + 1]
  OBVIOUS
<1>2. /\ step = "entries" /\ at < Len(tar) /\ at' = at + 1 /\ ok = TRUE /\ UNCHANGED streams
      /\ left = Keys \ SeenPaths(at) /\ at \in 1..Len(tar) /\ Len(tar) \in Nat
  BY BaseIsArchive DEF TransformInv, StepOk, CopyOk, NextEntry, SameInputs
<1>3. at \in 1..Len(tar) - 1 /\ at \in Nat \ {0}
  BY <1>2
<1>4. e.path \notin SeenPaths(at)
  BY <1>1, <1>3, NewPath DEF SameInputs
<1>5. SeenPaths(at + 1) = SeenPaths(at) \cup {e.path}
  BY <1>1, <1>3, NextWritten
<1>6. /\ DOMAIN Replacement \cap (Transformed \cup FilteredOut) = {}
      /\ Transformed \cap FilteredOut = {} /\ JbrPaths \cap Keys = {}
  BY PathsAssumption DEF Keys
<1>7. at' \in 0..Len(tar) + Len(JdkEntries)
  <2>1. Len(JdkEntries) \in Nat
    BY JdkAssumption, ArchiveFacts
  <2> QED BY <1>2, <2>1
<1>8. CASE e.path \in JbrPaths /\ UNCHANGED <<left, archive>>
  <2>1. left' = left \ {e.path} /\ Out(e) = {}
    BY <1>2, <1>6, <1>8 DEF Out, Keys
  <2>2. CASE e.path # "jbr/" /\ UNCHANGED <<step, ok, processedJbr>>
    BY <1>1, <1>2, <1>8, <2>1, <2>2, EntryWritten
  <2>3. CASE e.path = "jbr/" /\ processedJbr' = TRUE
    <3>1. processedJbr = FALSE
      BY <1>2, <1>4, <2>3 DEF TransformInv, StepOk, CopyOk
    <3>2. CASE jdk = "none" /\ UNCHANGED <<step, ok>>
      BY <1>1, <1>2, <1>8, <2>1, <2>3, <3>1, <3>2, EntryWritten
    <3>3. CASE jdk # "none" /\ step' = "jdk" /\ UNCHANGED ok
      <4>1. JbrAt = at + 1
        <5>1. at + 1 \in 1..Len(tar) /\ tar[at + 1].path = "jbr/"
          BY <1>1, <1>2, <2>3
        <5>2. \A i \in 1..Len(tar) : tar[i].path = "jbr/" => i = at + 1
          BY <5>1, BaseIsArchive DEF SameInputs
        <5> QED BY <5>1, <5>2 DEF JbrAt
      <4>2. JbrAt \in 2..Len(tar) /\ tar[JbrAt].path = "jbr/" /\ left' = Keys \ SeenPaths(JbrAt)
        BY <1>1, <1>2, <1>5, <2>1, <2>3, <4>1
      <4>3. at' - JbrAt = 0 /\ at' - JbrAt \in 0..Len(JdkEntries)
        <5>1. Len(JdkEntries) \in Nat
          BY JdkAssumption, ArchiveFacts
        <5> QED BY <1>2, <4>1, <5>1
      <4>4. JdkWritten(0) = {}
        BY DEF JdkWritten
      <4>5. Written(JbrAt) = Written(at) /\ Range(archive.entries) = Written(at)
        BY <1>1, <1>2, <1>3, <2>1, <3>1, <4>1, NextWritten DEF TransformInv, CopyOk
      <4>6. IsArchive(archive'.entries) /\ left' \subseteq Keys
        BY <1>8 DEF TransformInv, CopyOk
      <4>7. Range(archive'.entries) = Written(JbrAt) \cup JdkWritten(at' - JbrAt)
        BY <1>8, <4>3, <4>4, <4>5
      <4>8. CopyOk'
        BY <1>7, <2>3, <3>3, <4>2, <4>3, <4>6, <4>7, CopyAfter
      <4>9. StreamsOk' /\ StepOk' /\ CloseOk'
        BY <1>2, <1>8, <2>3, <3>3, RunningAfter DEF TransformInv, StepOk
      <4> QED BY <4>8, <4>9 DEF TransformInv
    <3>4. CASE Throws
      BY <1>2, <1>7, <1>8, <2>3, <3>4, ThrowsAfter DEF Throws, TransformInv, StepOk, CopyOk
    <3> QED BY <1>1, <1>2, <1>6, <1>8, <2>3, <3>2, <3>3, <3>4 DEF NextEntry, SameInputs, Jdks
  <2> QED BY <1>1, <1>2, <1>6, <1>8, <2>2, <2>3 DEF NextEntry
<1>9. CASE e.path \in left /\ left' = left \ {e.path} /\ UNCHANGED <<step, ok, processedJbr>>
  <2>1. CASE e.path \in DOMAIN Replacement /\ Put(Replaced(e))
    <3>1. Out(e) = {Replaced(e)}
      BY <2>1 DEF Out
    <3> QED BY <1>1, <1>2, <1>9, <2>1, <3>1, EntryWritten
  <2>2. CASE e.path \in Transformed /\ Put(Rewritten(e))
    <3>1. Out(e) = {Rewritten(e)}
      BY <1>6, <2>2 DEF Out
    <3> QED BY <1>1, <1>2, <1>9, <2>2, <3>1, EntryWritten
  <2>3. CASE e.path \in FilteredOut /\ UNCHANGED archive
    <3>1. Out(e) = {}
      BY <1>6, <2>3 DEF Out
    <3> QED BY <1>1, <1>2, <1>9, <2>3, <3>1, EntryWritten
  <2> QED BY <1>1, <1>2, <1>6, <1>9, <2>1, <2>2, <2>3 DEF NextEntry, Keys
<1>10. CASE e.path \notin JbrPaths \cup left /\ Put(e) /\ UNCHANGED <<step, ok, left, processedJbr>>
  <2>1. Out(e) = {e} /\ left' = left \ {e.path}
    BY <1>2, <1>4, <1>10 DEF Out, Keys
  <2> QED BY <1>1, <1>2, <1>10, <2>1, EntryWritten
<1> QED BY <1>1, <1>8, <1>9, <1>10 DEF NextEntry

LEMMA CopyJREStep ==
  ASSUME SameInputs, TransformInv, CopyJRE
  PROVE  TransformInv'
<1>1. PICK k : k = at - JbrAt
  OBVIOUS
<1>2. JdkAt = k
  BY <1>1 DEF JdkAt, JbrAt
<1>3. /\ step = "jdk" /\ ok = TRUE /\ processedJbr = TRUE /\ jdk # "none"
      /\ archive.pending = FALSE /\ UNCHANGED <<streams, left, processedJbr>>
      /\ JbrAt \in 2..Len(tar) /\ tar[JbrAt].path = "jbr/" /\ left = Keys \ SeenPaths(JbrAt)
      /\ k \in 0..Len(JdkEntries) /\ at \in 0..Len(tar) + Len(JdkEntries)
      /\ IsArchive(archive.entries) /\ StepOk
      /\ Range(archive.entries) = Written(JbrAt) \cup JdkWritten(k)
  BY <1>1 DEF TransformInv, StepOk, CopyOk, CopyJRE
<1>4. Len(tar) \in Nat /\ Len(JdkEntries) \in Nat /\ IsArchive(JdkEntries)
  BY BaseIsArchive, JdkAssumption, ArchiveFacts DEF SameInputs
<1>5. at = JbrAt + k
  BY <1>1, <1>3, <1>4
<1>6. Range(JdkEntries) = {JdkEntries[i] : i \in 1..Len(JdkEntries)}
  BY <1>4, ArchiveFacts
<1>7. CASE /\ k < Len(JdkEntries) /\ Put(JdkEntries[k + 1]) /\ at' = at + 1
           /\ UNCHANGED <<step, ok>>
  <2>1. k + 1 \in 1..Len(JdkEntries) /\ 1..k + 1 = 1..k \cup {k + 1} /\ k \in Nat
    BY <1>3, <1>4, <1>7
  <2>2. PICK e : e = JdkEntries[k + 1]
    OBVIOUS
  <2>3. JdkWritten(k + 1) = JdkWritten(k) \cup {e}
    BY <2>1, <2>2 DEF JdkWritten
  <2>4. e \in Range(JdkEntries)
    BY <1>6, <2>1, <2>2
  <2>5. ASSUME NEW x \in Written(JbrAt) PROVE x.path # e.path
    <3>1. PICK i \in 2..JbrAt : x \in Out(tar[i])
      BY <2>5 DEF Written
    <3>2. i \in 1..Len(tar)
      BY <1>3, <1>4
    <3> QED BY <2>4, <3>1, <3>2, OutPathsApart DEF SameInputs
  <2>6. ASSUME NEW x \in JdkWritten(k) PROVE x.path # e.path
    <3>1. PICK i \in 1..k : x = JdkEntries[i]
      BY <2>6 DEF JdkWritten
    <3>2. i \in 1..Len(JdkEntries) /\ i # k + 1
      BY <1>3, <1>4, <2>1
    <3> QED BY <1>4, <2>1, <2>2, <3>1, <3>2, ArchiveFacts
  <2>7. \A x \in Range(archive.entries) : x.path # e.path
    BY <1>3, <2>5, <2>6
  <2>8. /\ IsArchive(archive'.entries) /\ archive'.pending = FALSE
        /\ Range(archive'.entries) = Range(archive.entries) \cup {e}
        /\ archive' \in [entries : {archive'.entries}, pending : BOOLEAN, ended : BOOLEAN,
                         whole : BOOLEAN]
    BY <1>3, <1>7, <2>2, <2>7, PutAfter
  <2>9. at' - JbrAt = k + 1 /\ k + 1 \in 0..Len(JdkEntries) /\ at' \in 0..Len(tar) + Len(JdkEntries)
    <3>1. PICK j \in 2..Len(tar) : j = JbrAt
      BY <1>3
    <3>2. at' = j + k + 1 /\ j + k + 1 - j = k + 1 /\ j + k + 1 \in 0..Len(tar) + Len(JdkEntries)
      BY <1>3, <1>4, <1>5, <1>7, <3>1
    <3> QED BY <2>1, <3>1, <3>2
  <2>10. Range(archive'.entries) = Written(JbrAt) \cup JdkWritten(at' - JbrAt)
    BY <1>3, <2>3, <2>8, <2>9
  <2>11. left' \subseteq Keys /\ left' = Keys \ SeenPaths(JbrAt) /\ step' = "jdk"
         /\ processedJbr' = TRUE /\ ok' = TRUE
    BY <1>3, <1>7
  <2>12. CopyOk'
    BY <1>3, <2>8, <2>9, <2>10, <2>11, CopyAfter
  <2>13. StreamsOk' /\ StepOk' /\ CloseOk'
    BY <1>3, <2>8, <2>11, RunningAfter
  <2> QED BY <2>12, <2>13 DEF TransformInv
<1>8. CASE Throws /\ UNCHANGED <<at, archive>>
  BY <1>3, <1>8, ThrowsAfter DEF Throws, TransformInv, StepOk, CopyOk
<1>9. CASE k = Len(JdkEntries) /\ step' = "entries" /\ at' = at - k /\ UNCHANGED <<ok, archive>>
  <2>1. at' = JbrAt /\ JbrAt \in 1..Len(tar) /\ JbrAt \in 0..Len(tar) + Len(JdkEntries)
    BY <1>3, <1>4, <1>5, <1>9
  <2>2. JdkWritten(k) = Range(JdkEntries)
    BY <1>6, <1>9 DEF JdkWritten
  <2>3. "jbr/" \in SeenPaths(JbrAt)
    <3>1. JbrAt \in 2..JbrAt
      BY <1>3, <1>4
    <3> QED BY <1>3, <3>1 DEF SeenPaths
  <2>4. CopyOk'
    BY <1>3, <1>9, <2>1, <2>2, <2>3, CopyAfter
  <2>5. StreamsOk' /\ StepOk' /\ CloseOk'
    BY <1>3, <1>9, RunningAfter DEF StepOk
  <2> QED BY <2>4, <2>5 DEF TransformInv
<1> QED BY <1>2, <1>7, <1>8, <1>9 DEF CopyJRE

LEMMA EntryFailsStep ==
  ASSUME SameInputs, TransformInv, EntryFails
  PROVE  TransformInv'
<1>1. PICK p \in BOOLEAN : archive' = [archive EXCEPT !.pending = p]
  BY DEF EntryFails
<1>2. /\ archive' \in [entries : {archive.entries}, pending : BOOLEAN, ended : BOOLEAN,
                       whole : BOOLEAN]
      /\ archive'.entries = archive.entries
  BY <1>1 DEF TransformInv, StepOk
<1> QED BY <1>2, ThrowsAfter DEF EntryFails, Throws, TransformInv, StepOk, CopyOk

LEMMA CheckStep ==
  ASSUME SameInputs, TransformInv, Check
  PROVE  TransformInv'
<1>1. /\ step = "entries" /\ at = Len(tar) /\ ok = TRUE /\ archive.pending = FALSE
      /\ UNCHANGED <<streams, at, left, processedJbr, archive>> /\ at \in 1..Len(tar)
      /\ left = Keys \ SeenPaths(at) /\ Len(streams) = 7
      /\ Range(archive.entries) = Written(at) \cup
            IF processedJbr = TRUE /\ jdk # "none" THEN Range(JdkEntries) ELSE {}
  BY DEF TransformInv, StepOk, CopyOk, StreamsOk, Check
<1>2. CASE left \subseteq FilteredOut /\ processedJbr = TRUE /\ step' = "close" /\ UNCHANGED ok
  <2>1. DOMAIN Replacement \cup Transformed \subseteq SeenPaths(Len(tar))
    BY <1>1, <1>2, PathsAssumption DEF Keys
  <2>2. Len(tar) > 0
    BY <1>1, BaseIsArchive DEF SameInputs
  <2>3. zip.cut = {} => Range(archive'.entries) = Wanted
    BY <1>1, <1>2, <2>1, <2>2, AllWritten DEF SameInputs
  <2>4. ArchiveGood'
    BY <2>3, GoodAfter
  <2>5. StreamsOk' /\ CloseOk'
    BY <1>1, <1>2, <2>4 DEF TransformInv, StreamsOk, CloseOk
  <2>6. StepOk'
    BY <1>1, <1>2 DEF TransformInv, StepOk
  <2>7. CopyOk'
    BY <1>1, <1>2, CopyAfter DEF TransformInv, CopyOk
  <2> QED BY <2>5, <2>6, <2>7 DEF TransformInv
<1>3. CASE Throws
  BY <1>1, <1>3, ThrowsAfter DEF Throws, TransformInv, StepOk, CopyOk
<1>4. processedJbr \in BOOLEAN
  BY DEF TransformInv, StepOk
<1> QED BY <1>2, <1>3, <1>4 DEF Check, Complete

\* Closing one stream leaves those that were opened before it.
LEMMA LastStream ==
  ASSUME NEW n \in 1..7, NEW s, s = SubSeq(Streams, 1, n)
  PROVE  /\ s[n] = Streams[n] /\ s # <<>>
         /\ WithoutAt(s, n) = SubSeq(Streams, 1, n - 1) /\ Len(WithoutAt(s, n)) = n - 1
         /\ s[n] = "tarOutput" <=> n = 7
         /\ s[n] = "gzipOutput" <=> n = 6
<1>1. n \in 0..Len(Streams) /\ n \in 1..Len(Streams) /\ n - 1 \in 0..Len(Streams) /\ n # 0
      /\ n \in 1..n
  BY StreamNames
<1>2. s[n] = Streams[n] /\ s # <<>>
  BY <1>1, StreamNames, PrefixFacts
<1>3. WithoutAt(s, n) = SubSeq(Streams, 1, n - 1)
  BY <1>1, StreamNames, PrefixShrinks
<1>4. Len(SubSeq(Streams, 1, n - 1)) = n - 1
  BY <1>1, StreamNames, PrefixFacts
<1>5. CASE n \in 1..5
  <2>1. Streams[n] # "tarOutput" /\ Streams[n] # "gzipOutput"
    <3>1. CASE n \in 1..4
      BY <3>1, StreamNames
    <3>2. CASE n = 5
      BY <3>2, StreamNames
    <3> QED BY <1>5, <3>1, <3>2
  <2>2. n # 6 /\ n # 7
    BY <1>5
  <2> QED BY <1>2, <1>3, <1>4, <2>1, <2>2
<1>6. CASE n = 6
  <2>1. Streams[n] = "gzipOutput" /\ n # 7
    BY <1>6, StreamNames
  <2> QED BY <1>2, <1>3, <1>4, <1>6, <2>1
<1>7. CASE n = 7
  <2>1. Streams[n] = "tarOutput" /\ n # 6
    BY <1>7, StreamNames
  <2> QED BY <1>2, <1>3, <1>4, <1>7, <2>1
<1> QED BY <1>5, <1>6, <1>7

LEMMA CloseStreamStep ==
  ASSUME SameInputs, TransformInv, CloseStream
  PROVE  TransformInv'
<1>1. /\ step = "close" /\ streams # <<>> /\ streams' = WithoutAt(streams, Len(streams))
      /\ UNCHANGED <<step, at, left, processedJbr>>
  BY DEF CloseStream, LastOpened
<1>2. PICK n \in 1..7 : n = Len(streams) /\ streams = SubSeq(Streams, 1, n)
  <2>1. PICK n \in 0..7 : n = Len(streams) /\ streams = SubSeq(Streams, 1, n)
    BY DEF TransformInv, StreamsOk
  <2>2. n # 0
    <3>1. n \in 0..Len(Streams)
      BY StreamNames
    <3> QED BY <1>1, <2>1, <3>1, StreamNames, PrefixFacts
  <2>3. n \in 1..7
    BY <2>2
  <2> QED BY <2>1, <2>3
<1>3. PICK s : s = streams[n]
  OBVIOUS
<1>4. /\ streams' = SubSeq(Streams, 1, n - 1) /\ Len(streams') = n - 1
      /\ s = "tarOutput" <=> n = 7
      /\ s = "gzipOutput" <=> n = 6
  BY <1>1, <1>2, <1>3, LastStream
<1>5. PICK fails \in BOOLEAN :
        /\ archive' = CASE s = "tarOutput" -> [archive EXCEPT !.ended =
                               ~(fails \/ (s = "tarOutput" /\ archive.pending))]
                        [] s = "gzipOutput" -> [archive EXCEPT !.whole = archive.ended /\ ~fails]
                        [] s \notin {"tarOutput", "gzipOutput"} -> archive
        /\ ok' = (ok /\ ~(fails \/ (s = "tarOutput" /\ archive.pending)))
  BY <1>2, <1>3 DEF CloseStream, LastOpened, Closing
<1>6. n - 1 \in 0..7 /\ n - 1 < 7
  OBVIOUS
<1>7. StreamsOk'
  BY <1>1, <1>4, <1>6 DEF StreamsOk
<1>8. /\ ok \in BOOLEAN /\ archive.pending \in BOOLEAN /\ archive.ended \in BOOLEAN
      /\ archive \in [entries : {archive.entries}, pending : BOOLEAN, ended : BOOLEAN,
                      whole : BOOLEAN]
  BY DEF TransformInv, StepOk
<1>9. PICK err \in BOOLEAN : err = (fails \/ (s = "tarOutput" /\ archive.pending))
  BY <1>8
<1>10. PICK ended \in BOOLEAN : ended = ~err
  OBVIOUS
<1>11. PICK whole \in BOOLEAN : whole = (archive.ended /\ ~fails)
  BY <1>8
<1>12. \/ n = 7 /\ archive' = [archive EXCEPT !.ended = ended]
       \/ n = 6 /\ archive' = [archive EXCEPT !.whole = whole]
       \/ n < 6 /\ archive' = archive
  <2>1. n < 6 \/ n = 6 \/ n = 7
    OBVIOUS
  <2>2. CASE n = 7
    <3>1. archive' = [archive EXCEPT !.ended = ~err]
      BY <1>4, <1>5, <1>9, <2>2
    <3> QED BY <1>10, <2>2, <3>1
  <2>3. CASE n = 6
    <3>1. n # 7 /\ s # "tarOutput" /\ s = "gzipOutput"
      BY <1>4, <2>3
    <3>2. archive' = [archive EXCEPT !.whole = (archive.ended /\ ~fails)]
      BY <1>5, <3>1
    <3> QED BY <1>11, <2>3, <3>2
  <2>4. CASE n < 6
    <3>1. n # 7 /\ n # 6
      BY <2>4
    <3> QED BY <1>4, <1>5, <2>4, <3>1
  <2> QED BY <2>1, <2>2, <2>3, <2>4
<1>13. /\ archive' \in [entries : {archive.entries}, pending : BOOLEAN, ended : BOOLEAN,
                        whole : BOOLEAN]
       /\ archive'.entries = archive.entries /\ archive'.pending = archive.pending
       /\ n = 7 => archive'.ended = ended
       /\ n # 7 => archive'.ended = archive.ended
       /\ n = 6 => archive'.whole = whole
       /\ n # 6 => archive'.whole = archive.whole
  <2>1. CASE n = 7 /\ archive' = [archive EXCEPT !.ended = ended]
    BY <1>8, <2>1
  <2>2. CASE n = 6 /\ archive' = [archive EXCEPT !.whole = whole]
    BY <1>8, <2>2
  <2>3. CASE n < 6 /\ archive' = archive
    BY <1>8, <2>3
  <2> QED BY <1>12, <2>1, <2>2, <2>3
<1>14. ok' \in BOOLEAN /\ (ok' = TRUE => ok = TRUE /\ err = FALSE /\ fails = FALSE)
  <2>1. ok' = (ok /\ ~err)
    BY <1>5, <1>9
  <2>2. ok' \in BOOLEAN
    BY <1>8, <2>1
  <2>3. ok' => ok /\ ~err /\ ~fails
    BY <1>9, <2>1
  <2> QED BY <1>8, <2>2, <2>3
<1>15. StepOk'
  <2>1. processedJbr' \in BOOLEAN
    BY <1>1 DEF TransformInv, StepOk
  <2>2. step' = "close"
    BY <1>1
  <2>3. archive' \in [entries : {archive'.entries}, pending : BOOLEAN, ended : BOOLEAN,
                      whole : BOOLEAN]
    BY <1>13
  <2> QED BY <1>14, <2>1, <2>2, <2>3 DEF StepOk
<1>16. CopyOk'
  BY <1>1, <1>13, CopyAfter DEF TransformInv, CopyOk
<1>17. ASSUME ok' = TRUE
       PROVE  /\ archive'.pending = FALSE /\ ArchiveGood'
              /\ Len(streams') < 7 => archive'.ended = TRUE
              /\ Len(streams') < 6 => archive'.whole = TRUE
  <2>1. /\ ok = TRUE /\ err = FALSE /\ fails = FALSE /\ ended = TRUE
    BY <1>10, <1>14, <1>17
  <2>2. /\ archive.pending = FALSE /\ ArchiveGood /\ (n < 7 => archive.ended = TRUE)
        /\ (n < 6 => archive.whole = TRUE)
    BY <1>1, <1>2, <2>1 DEF TransformInv, CloseOk
  <2>3. n < 7 => whole = TRUE
    BY <1>11, <2>1, <2>2
  <2>4. ArchiveGood'
    BY <1>13, <2>2, GoodAfter DEF ArchiveGood
  <2>5. n < 7 \/ n = 7
    OBVIOUS
  <2>6. archive'.ended = TRUE
    BY <1>13, <2>1, <2>2, <2>5
  <2>7. n - 1 < 6 => archive'.whole = TRUE
    <3>1. n - 1 < 6 => n = 6 \/ (n < 6 /\ n # 6)
      OBVIOUS
    <3> QED BY <1>13, <2>2, <2>3, <3>1
  <2> QED BY <1>4, <1>13, <2>2, <2>4, <2>6, <2>7
<1>18. CloseOk'
  BY <1>17 DEF CloseOk
<1> QED BY <1>7, <1>15, <1>16, <1>18 DEF TransformInv

LEMMA ClosedStep ==
  ASSUME SameInputs, TransformInv, Closed
  PROVE  TransformInv'
<1>1. /\ step = "close" /\ streams = <<>> /\ step' = "done"
      /\ UNCHANGED <<ok, streams, at, left, processedJbr, archive>>
  BY DEF Closed
<1>2. StreamsOk'
  <2>1. Len(streams) = 0
    BY <1>1, EmptySeq
  <2> QED BY <1>1, <2>1 DEF TransformInv, StreamsOk
<1>3. StepOk'
  BY <1>1 DEF TransformInv, StepOk
<1>4. CopyOk'
  BY <1>1, CopyAfter DEF TransformInv, CopyOk
<1>5. CloseOk'
  <2>1. ArchiveGood => ArchiveGood'
    BY <1>1, GoodAfter DEF ArchiveGood
  <2> QED BY <1>1, <2>1 DEF TransformInv, CloseOk
<1> QED BY <1>2, <1>3, <1>4, <1>5 DEF TransformInv

LEMMA TransformSteps ==
  ASSUME tar \in Tars, jdk \in Jdks, TransformInv, TransformStep
  PROVE  TransformInv' /\ SameInputs
<1>1. SameInputs
  BY DEF SameInputs, TransformStep
<1> QED BY <1>1, OpenStep, ReadPrefixStep, JdkOpenFailsStep, NextEntryStep, CopyJREStep,
           EntryFailsStep, CheckStep, CloseStreamStep, ClosedStep DEF TransformStep

----------------------------------------------------------------------------
\* The invocation: what it still has to run.
LEMMA NoPlan == ASSUME plan = <<>> PROVE plan \in Plans /\ RunsNow = "nothing"
  BY DEF Plans, RunsNow

LEMMA PlanFacts ==
  ASSUME NEW p \in Plans, p # <<>>
  PROVE  /\ Tail(p) \in Plans
         /\ Head(p) \in Providers =>
              Tail(p) = <<>> \/ (Tail(p) # <<>> /\ Head(Tail(p)) = "transform")
         /\ Head(p) = "transform" =>
              Tail(p) = <<>> \/ (Tail(p) # <<>> /\ Head(Tail(p)) = "createDeb")
         /\ Head(p) = "createDeb" => Tail(p) = <<>>
<1>1. CASE p = <<"buildNatives">> \/ p = <<"fetchNatives">>
  BY <1>1 DEF Plans, Providers
<1>2. CASE p = <<"buildNatives", "transform">> \/ p = <<"fetchNatives", "transform">>
  <2>1. Head(p) \in Providers /\ Tail(p) = <<"transform">>
    <3>1. CASE p = <<"buildNatives", "transform">>
      <4>1. Head(p) = "buildNatives" /\ Tail(p) = <<"transform">>
        BY <3>1
      <4> QED BY <4>1 DEF Providers
    <3>2. CASE p = <<"fetchNatives", "transform">>
      <4>1. Head(p) = "fetchNatives" /\ Tail(p) = <<"transform">>
        BY <3>2
      <4> QED BY <4>1 DEF Providers
    <3> QED BY <1>2, <3>1, <3>2
  <2>2. <<"transform">> \in Plans /\ <<"transform">> # <<>> /\ Head(<<"transform">>) = "transform"
    BY DEF Plans
  <2> QED BY <2>1, <2>2 DEF Providers
<1>3. CASE \/ p = <<"buildNatives", "transform", "createDeb">>
           \/ p = <<"fetchNatives", "transform", "createDeb">>
  <2>1. Head(p) \in Providers /\ Tail(p) = <<"transform", "createDeb">>
    <3>1. CASE p = <<"buildNatives", "transform", "createDeb">>
      <4>1. Head(p) = "buildNatives" /\ Tail(p) = <<"transform", "createDeb">>
        BY <3>1
      <4> QED BY <4>1 DEF Providers
    <3>2. CASE p = <<"fetchNatives", "transform", "createDeb">>
      <4>1. Head(p) = "fetchNatives" /\ Tail(p) = <<"transform", "createDeb">>
        BY <3>2
      <4> QED BY <4>1 DEF Providers
    <3> QED BY <1>3, <3>1, <3>2
  <2>2. /\ <<"transform", "createDeb">> \in Plans /\ <<"transform", "createDeb">> # <<>>
        /\ Head(<<"transform", "createDeb">>) = "transform"
    BY DEF Plans
  <2> QED BY <2>1, <2>2 DEF Providers
<1>4. CASE p = <<"transform">>
  BY <1>4 DEF Plans, Providers
<1>5. CASE p = <<"transform", "createDeb">>
  <2>1. Head(p) = "transform" /\ Tail(p) = <<"createDeb">>
    BY <1>5
  <2>2. <<"createDeb">> \in Plans /\ <<"createDeb">> # <<>> /\ Head(<<"createDeb">>) = "createDeb"
    BY DEF Plans
  <2> QED BY <2>1, <2>2 DEF Providers
<1>6. CASE p = <<"createDeb">>
  BY <1>6 DEF Plans, Providers
<1> QED BY <1>1, <1>2, <1>3, <1>4, <1>5, <1>6 DEF Plans

LEMMA AfterSuccess ==
  ASSUME plan \in Plans, NEW t, Runs(t), Succeeds
  PROVE  /\ plan' \in Plans /\ upToDate' = upToDate \cup {t}
         /\ task' = IF RunsNow' = "nothing" THEN "none" ELSE "start"
         /\ t \in Providers => RunsNow' \in {"nothing", "transform"}
         /\ t = "transform" => RunsNow' \in {"nothing", "createDeb"}
         /\ t = "createDeb" => RunsNow' = "nothing"
<1>1. plan # <<>> /\ Head(plan) = t /\ plan' = Tail(plan) /\ upToDate' = upToDate \cup {t}
  BY DEF Runs, Succeeds
<1>2. plan' \in Plans
  BY <1>1, PlanFacts
<1>3. t \in Providers => RunsNow' \in {"nothing", "transform"}
  BY <1>1, PlanFacts DEF RunsNow
<1>4. t = "transform" => RunsNow' \in {"nothing", "createDeb"}
  BY <1>1, PlanFacts DEF RunsNow
<1>5. t = "createDeb" => RunsNow' = "nothing"
  BY <1>1, PlanFacts DEF RunsNow
<1>6. plan' # <<>> => RunsNow' # "nothing"
  <2>1. SUFFICES ASSUME plan' # <<>> PROVE Head(plan') # "nothing"
    BY DEF RunsNow
  <2>2. Head(plan') \in {"buildNatives", "fetchNatives", "transform", "createDeb"}
    BY <1>2, <2>1 DEF Plans
  <2> QED BY <2>2
<1>7. task' = IF RunsNow' = "nothing" THEN "none" ELSE "start"
  BY <1>6 DEF Succeeds, RunsNow
<1> QED BY <1>1, <1>2, <1>3, <1>4, <1>5, <1>7

LEMMA Joined ==
  ASSUME NEW T, NEW x \in T, NEW y \in T, NEW z \in T
  PROVE  /\ <<x>> \o <<y>> = <<x, y>> /\ <<x, y>> \o <<z>> = <<x, y, z>>
         /\ <<>> \o <<x>> = <<x>> /\ <<x>> \o <<>> = <<x>> /\ <<x, y>> \o <<>> = <<x, y>>
<1>1. PICK one : one = <<x>>
  OBVIOUS
<1>2. PICK two : two = <<x, y>>
  OBVIOUS
<1>3. PICK three : three = <<x, y, z>>
  OBVIOUS
<1>4. one \in Seq(T) /\ Len(one) = 1 /\ one[1] = x
  BY <1>1
<1>5. two \in Seq(T) /\ Len(two) = 2 /\ two[1] = x /\ two[2] = y
  BY <1>2
<1>6. three \in Seq(T) /\ Len(three) = 3 /\ three[1] = x /\ three[2] = y /\ three[3] = z
  BY <1>3
<1>7. Append(one, y) = two
  <2>1. PICK s : s = Append(one, y)
    OBVIOUS
  <2>2. s \in Seq(T) /\ Len(s) = 2 /\ s[1] = x /\ s[2] = y
    BY <1>4, <2>1, AppendProperties
  <2>3. \A i \in 1..2 : s[i] = two[i]
    BY <1>5, <2>2
  <2> QED BY <1>5, <2>1, <2>2, <2>3, SeqEqual
<1>8. Append(two, z) = three
  <2>1. PICK s : s = Append(two, z)
    OBVIOUS
  <2>2. s \in Seq(T) /\ Len(s) = 3 /\ s[1] = x /\ s[2] = y /\ s[3] = z
    <3>1. /\ s \in Seq(T) /\ Len(s) = Len(two) + 1 /\ s[Len(two) + 1] = z
          /\ \A i \in 1..Len(two) : s[i] = two[i]
      <4>1. two \in Seq(T)
        BY <1>5
      <4> QED BY <2>1, <4>1, AppendProperties
    <3>2. Len(two) + 1 = 3 /\ 1 \in 1..Len(two) /\ 2 \in 1..Len(two)
      BY <1>5
    <3> QED BY <1>5, <3>1, <3>2
  <2>3. \A i \in 1..3 : s[i] = three[i]
    <3>1. \A i \in 1..3 : i = 1 \/ i = 2 \/ i = 3
      OBVIOUS
    <3> QED BY <1>6, <2>2, <3>1
  <2> QED BY <1>6, <2>1, <2>2, <2>3, SeqEqual
<1>9. one \o <<y>> = two /\ two \o <<z>> = three
  BY <1>4, <1>5, <1>7, <1>8, AppendIsConcat
<1>10. <<>> \o one = one /\ one \o <<>> = one /\ two \o <<>> = two
  BY <1>4, <1>5, ConcatEmptySeq
<1> QED BY <1>1, <1>2, <1>3, <1>9, <1>10

LEMMA JoinedTasks ==
  ASSUME NEW n
  PROVE  /\ <<"transform">> \o <<"createDeb">> = <<"transform", "createDeb">>
         /\ <<n>> \o <<"transform">> = <<n, "transform">>
         /\ <<n, "transform">> \o <<"createDeb">> = <<n, "transform", "createDeb">>
         /\ <<>> \o <<"transform">> = <<"transform">>
         /\ <<n, "transform">> \o <<>> = <<n, "transform">>
<1>1. PICK a : a = n
  OBVIOUS
<1>2. PICK b : b = "transform"
  OBVIOUS
<1>3. PICK c : c = "createDeb"
  OBVIOUS
<1>4. PICK T : T = {a, b, c}
  OBVIOUS
<1>5. a \in T /\ b \in T /\ c \in T
  BY <1>4
<1>6. /\ <<b>> \o <<c>> = <<b, c>> /\ <<a>> \o <<b>> = <<a, b>> /\ <<>> \o <<b>> = <<b>>
      /\ <<a, b>> \o <<c>> = <<a, b, c>> /\ <<a, b>> \o <<>> = <<a, b>>
  BY <1>5, Joined
<1> QED BY <1>1, <1>2, <1>3, <1>6

LEMMA AskedFor ==
  ASSUME ZipOk, UpToDateOk, NEW goal \in Providers \cup {"transform", "createDeb"},
         NEW p, p = Tasks(goal)
  PROVE  /\ p \in Plans
         /\ p # <<>> /\ Head(p) = "transform" => zip.exists = TRUE
         /\ p # <<>> /\ Head(p) = "createDeb" => zip.exists = TRUE /\ "transform" \in upToDate
<1> PICK n \in Providers : n = NativesTask(goal)
  BY DEF Providers, NativesTask
<1>1. PICK a : a = Due(n, goal = "buildNatives" \/ ~zip.exists)
  OBVIOUS
<1>2. PICK b : b = Due("transform", goal \in {"transform", "createDeb"})
  OBVIOUS
<1>3. PICK c : c = Due("createDeb", goal = "createDeb")
  OBVIOUS
<1>4. p = a \o b \o c
  BY <1>1, <1>2, <1>3 DEF Tasks
<1>5. zip.exists \in BOOLEAN
  BY DEF ZipOk
<1>6. /\ a = <<>> \/ a = <<n>>
      /\ b = <<>> \/ b = <<"transform">>
      /\ c = <<>> \/ c = <<"createDeb">>
  BY <1>1, <1>2, <1>3 DEF Due
<1>7. a = <<>> => zip.exists = TRUE
  <2>1. <<n>> # <<>>
    OBVIOUS
  <2> QED BY <1>1, <1>5, <2>1 DEF Due, UpToDateOk
<1>8. c = <<"createDeb">> /\ b = <<>> => "transform" \in upToDate /\ zip.exists = TRUE /\ goal = "createDeb"
  <2>1. <<"transform">> # <<>> /\ <<"createDeb">> # <<>>
    OBVIOUS
  <2> QED BY <1>2, <1>3, <2>1 DEF Due, UpToDateOk
<1>9. c = <<"createDeb">> /\ b = <<>> => a = <<>>
  BY <1>1, <1>8 DEF Due
<1>10. CASE a = <<>> /\ b = <<>> /\ c = <<>>
  <2>1. p = <<>>
    BY <1>4, <1>10
  <2> QED BY <2>1 DEF Plans
<1>11. CASE a = <<>> /\ b = <<>> /\ c = <<"createDeb">>
  <2>1. p = <<"createDeb">>
    BY <1>4, <1>11
  <2>2. Head(p) = "createDeb" /\ p \in Plans
    BY <2>1 DEF Plans
  <2> QED BY <1>8, <1>11, <2>2
<1>12. CASE a = <<>> /\ b = <<"transform">> /\ c = <<>>
  <2>1. p = <<"transform">>
    BY <1>4, <1>12
  <2>2. Head(p) = "transform" /\ p \in Plans
    BY <2>1 DEF Plans
  <2> QED BY <1>7, <1>12, <2>2
<1>13. CASE a = <<>> /\ b = <<"transform">> /\ c = <<"createDeb">>
  <2>1. p = <<"transform", "createDeb">>
    BY <1>4, <1>13, JoinedTasks
  <2>2. Head(p) = "transform" /\ p \in Plans
    BY <2>1 DEF Plans
  <2> QED BY <1>7, <1>13, <2>2
<1>14. CASE a = <<n>> /\ b = <<>> /\ c = <<>>
  <2>1. p = <<n>>
    BY <1>4, <1>14
  <2>2. Head(p) = n /\ p \in Plans
    BY <2>1 DEF Plans, Providers
  <2> QED BY <2>2 DEF Providers
<1>15. CASE a = <<n>> /\ b = <<"transform">> /\ c = <<>>
  <2>1. p = <<n, "transform">>
    BY <1>4, <1>15, JoinedTasks
  <2>2. Head(p) = n /\ p \in Plans
    BY <2>1 DEF Plans, Providers
  <2> QED BY <2>2 DEF Providers
<1>16. CASE a = <<n>> /\ b = <<"transform">> /\ c = <<"createDeb">>
  <2>1. p = <<n, "transform", "createDeb">>
    BY <1>4, <1>16, JoinedTasks
  <2>2. Head(p) = n /\ p \in Plans
    BY <2>1 DEF Plans, Providers
  <2> QED BY <2>2 DEF Providers
<1>17. CASE a = <<n>> /\ b = <<>> /\ c = <<"createDeb">>
  <2>1. <<n>> # <<>>
    OBVIOUS
  <2> QED BY <1>9, <1>17, <2>1
<1> QED BY <1>6, <1>10, <1>11, <1>12, <1>13, <1>14, <1>15, <1>16, <1>17

\* The parts of the invariant after a step that leaves a part of the build alone.
LEMMA IdleAfter ==
  ASSUME TransformInv, step' = "idle", streams' = <<>>, left' \subseteq Keys,
         at' \in 0..Len(tar) + Len(JdkEntries), UNCHANGED <<tar, ok, processedJbr, archive>>
  PROVE  TransformInv'
<1>1. PICK e : e = <<>>
  OBVIOUS
<1>2. Len(e) = 0 /\ SubSeq(Streams, 1, 0) = e
  BY <1>1, EmptySeq, SubSeqEmpty
<1>3. StreamsOk'
  BY <1>1, <1>2 DEF StreamsOk
<1>4. StepOk' /\ CopyOk' /\ CloseOk'
  BY DEF TransformInv, StepOk, CopyOk, CloseOk
<1> QED BY <1>3, <1>4 DEF TransformInv

LEMMA StillIdle ==
  ASSUME TransformInv, step = "idle", UNCHANGED <<tar, run, archive>>
  PROVE  TransformInv'
<1>1. UNCHANGED <<tar, ok, processedJbr, archive, step, streams, left, at>>
  BY DEF run
<1>2. PICK e : e = <<>>
  OBVIOUS
<1>3. SubSeq(Streams, 1, 0) = e
  BY <1>2, SubSeqEmpty
<1>4. streams' = <<>>
  BY <1>1, <1>2, <1>3 DEF TransformInv, StreamsOk
<1> QED BY <1>1, <1>4, IdleAfter DEF TransformInv, CopyOk

\* What is up to date stays right as long as nothing of it is written.
LEMMA StaysRight ==
  ASSUME UNCHANGED <<tar, jdk, zip>>, archive' = archive
  PROVE  ArchiveGood => ArchiveGood'
  BY DEF ArchiveGood, Wanted, Patched

LEMMA PackageStaysRight ==
  ASSUME UNCHANGED <<tar, jdk, zip, deb>>, "createDeb" \in upToDate
  PROVE  DebRight => DebRight'
  BY DEF DebRight, Wanted, Patched

\* Nothing that is written, or nothing that is up to date but the tasks before.
LEMMA UpToDateAfter ==
  ASSUME UpToDateOk, UNCHANGED <<tar, jdk, zip, archive>>, upToDate' \subseteq upToDate,
         "createDeb" \in upToDate' => UNCHANGED deb /\ "transform" \in upToDate',
         RunsNow' \in Providers /\ task' # "start" => upToDate' = {},
         RunsNow' = "transform" /\ task' # "start" => upToDate' \subseteq Providers,
         RunsNow' = "createDeb" => "transform" \in upToDate',
         RunsNow' = "createDeb" /\ task' # "start" => "createDeb" \notin upToDate'
  PROVE  UpToDateOk'
<1>1. "transform" \in upToDate' => zip'.exists = TRUE /\ archive'.whole = TRUE /\ ArchiveGood'
  BY StaysRight DEF UpToDateOk
<1>2. "createDeb" \in upToDate' => "transform" \in upToDate' /\ DebRight'
  BY PackageStaysRight DEF UpToDateOk
<1>3. upToDate' \cap Providers # {} => zip'.exists = TRUE
  BY DEF UpToDateOk
<1> QED BY <1>1, <1>2, <1>3 DEF UpToDateOk

\* The steps of an invocation.
LEMMA AskStep ==
  ASSUME BuildInv, NEW goal \in Providers \cup {"transform", "createDeb"}, Ask(goal)
  PROVE  BuildInv'
<1>1. /\ plan = <<>> /\ plan' = Tasks(goal) /\ plan' # <<>> /\ task' = "start"
      /\ UNCHANGED <<others, zip, upToDate, deb, temps, undeleted, kills>> /\ RunsNow = "nothing"
  BY DEF Ask, RunsNow
<1>2. UNCHANGED <<tar, jdk, archive, step>>
  BY <1>1 DEF others, run
<1>3. step = "idle" /\ temps \in Nat /\ kills \in Nat /\ undeleted \in Nat /\ temps <= kills + undeleted
  BY <1>1 DEF BuildInv, PlanOk, TempsOk
<1>4. /\ plan' \in Plans /\ RunsNow' \in Providers \cup {"transform", "createDeb"}
      /\ RunsNow' = "transform" => zip.exists = TRUE
      /\ RunsNow' = "createDeb" => zip.exists = TRUE /\ "transform" \in upToDate
  <2>1. PICK p : p = Tasks(goal)
    OBVIOUS
  <2>2. /\ p \in Plans /\ plan' = p
        /\ p # <<>> /\ Head(p) = "transform" => zip.exists = TRUE
        /\ p # <<>> /\ Head(p) = "createDeb" => zip.exists = TRUE /\ "transform" \in upToDate
    BY <1>1, <2>1, AskedFor DEF BuildInv
  <2>3. RunsNow' = Head(p) /\ p # <<>>
    BY <1>1, <2>2 DEF RunsNow
  <2>4. Head(p) \in Providers \cup {"transform", "createDeb"}
    BY <2>2, <2>3 DEF Plans, Providers
  <2> QED BY <2>2, <2>3, <2>4
<1>5. TransformInv'
  BY <1>1, <1>3, StillIdle DEF BuildInv, others
<1>6. PlanOk'
  BY <1>1, <1>2, <1>3, <1>4 DEF PlanOk, Providers
<1>7. ZipOk'
  BY <1>1, <1>4 DEF BuildInv, ZipOk
<1>8. UpToDateOk'
  BY <1>1, <1>2, <1>4, UpToDateAfter DEF BuildInv, UpToDateOk
<1>9. TempsOk'
  BY <1>1, <1>3 DEF TempsOk
<1> QED BY <1>2, <1>5, <1>6, <1>7, <1>8, <1>9 DEF BuildInv

LEMMA NoZipOk ==
  /\ NoZip \in [exists : BOOLEAN, entries : SUBSET Natives, cut : SUBSET Natives,
                whole : BOOLEAN]
  /\ NoZip.whole = FALSE
  BY DEF NoZip

LEMMA FailsStep ==
  ASSUME BuildInv, Fails, UNCHANGED <<tar, jdk, archive, kills>>, step' = "idle", TransformInv',
         "createDeb" \in upToDate => UNCHANGED deb,
         temps' \in Nat, undeleted' \in Nat, temps' <= kills + undeleted',
         UNCHANGED zip \/ (upToDate = {} /\ zip' = NoZip)
  PROVE  BuildInv'
<1>1. plan' = <<>> /\ task' = "none" /\ UNCHANGED upToDate /\ RunsNow' = "nothing" /\ plan' \in Plans
  BY DEF Fails, Plans, RunsNow
<1>2. PlanOk' /\ TempsOk'
  BY <1>1 DEF PlanOk, TempsOk, BuildInv
<1>3. ZipOk'
  <2>1. CASE UNCHANGED zip
    BY <1>1, <2>1 DEF ZipOk, BuildInv, Providers
  <2>2. CASE zip' = NoZip
    BY <1>1, <2>2, NoZipOk DEF ZipOk, Providers
  <2> QED BY <2>1, <2>2
<1>4. UpToDateOk'
  <2>1. CASE UNCHANGED zip
    BY <1>1, <2>1, UpToDateAfter DEF BuildInv, UpToDateOk, Providers
  <2>2. CASE upToDate = {}
    BY <1>1, <2>2 DEF UpToDateOk, Providers
  <2> QED BY <2>1, <2>2
<1> QED BY <1>2, <1>3, <1>4 DEF BuildInv

LEMMA Running ==
  ASSUME BuildInv, NEW t, Runs(t)
  PROVE  /\ RunsNow = t /\ plan # <<>> /\ temps \in Nat /\ kills \in Nat /\ undeleted \in Nat
         /\ t # "transform" => step = "idle"
         /\ t # "createDeb" => temps <= kills + undeleted
         /\ upToDate \subseteq Providers \cup {"transform", "createDeb"}
<1>1. RunsNow = t /\ plan # <<>>
  BY DEF Runs, RunsNow
<1> QED BY <1>1 DEF BuildInv, PlanOk, TempsOk, UpToDateOk

LEMMA Dirtied ==
  ASSUME BuildInv, NEW t, Dirties(t)
  PROVE  /\ t \in Providers => upToDate' = {}
         /\ t = "transform" => upToDate' = upToDate \ {"transform", "createDeb"}
         /\ t = "createDeb" => upToDate' = upToDate \ {"createDeb"}
  BY DEF Dirties, BuildInv, UpToDateOk, Providers

\* fetchNatives and BuildNative.
LEMMA NativesAfter ==
  ASSUME BuildInv, NEW t \in Providers, Runs(t),
         UNCHANGED <<others, plan, temps, undeleted, kills>>, upToDate' = {},
         task' \in IF t = "buildNatives" THEN {"add", "delete"} ELSE {"fetch"},
         zip'.whole = TRUE => zip'.exists = TRUE, task' \in {"add", "fetch"} => zip'.exists = TRUE,
         zip' \in [exists : BOOLEAN, entries : SUBSET Natives, cut : SUBSET Natives,
                   whole : BOOLEAN]
  PROVE  BuildInv'
<1>1. /\ RunsNow = t /\ step = "idle" /\ temps \in Nat /\ kills \in Nat /\ undeleted \in Nat
      /\ temps <= kills + undeleted /\ plan' = plan /\ plan \in Plans
      /\ t = "buildNatives" \/ t = "fetchNatives"
  <2>1. t # "transform" /\ t # "createDeb"
    BY DEF Providers
  <2> QED BY <2>1, Running DEF BuildInv, PlanOk, Providers
<1>2. UNCHANGED <<tar, jdk, step>> /\ RunsNow' = t
  BY <1>1 DEF others, run, RunsNow
<1>3. TransformInv'
  BY <1>1, StillIdle DEF BuildInv, others
<1>4. PlanOk' /\ TempsOk'
  BY <1>1, <1>2 DEF PlanOk, TempsOk
<1>5. ZipOk'
  BY <1>1, <1>2 DEF ZipOk
<1>6. UpToDateOk'
  BY <1>1, <1>2 DEF UpToDateOk
<1> QED BY <1>2, <1>3, <1>4, <1>5, <1>6 DEF BuildInv

\* A provider that ends well leaves nothing up to date but itself.
LEMMA NativesMade ==
  ASSUME BuildInv, NEW t \in Providers, Runs(t), task # "start", Succeeds,
         UNCHANGED <<others, temps, undeleted, kills>>, zip'.exists = TRUE,
         zip' \in [exists : BOOLEAN, entries : SUBSET Natives, cut : SUBSET Natives,
                   whole : BOOLEAN]
  PROVE  BuildInv'
<1>1. /\ step = "idle" /\ temps \in Nat /\ kills \in Nat /\ undeleted \in Nat
      /\ temps <= kills + undeleted /\ RunsNow = t /\ upToDate = {}
  <2>1. t # "transform" /\ t # "createDeb"
    BY DEF Providers
  <2>2. /\ step = "idle" /\ temps \in Nat /\ kills \in Nat /\ undeleted \in Nat
        /\ temps <= kills + undeleted /\ RunsNow = t
    BY <2>1, Running
  <2>3. upToDate = {}
    BY <2>2 DEF BuildInv, UpToDateOk
  <2> QED BY <2>2, <2>3
<1>2. /\ plan' \in Plans /\ upToDate' = {t} /\ RunsNow' \in {"nothing", "transform"}
      /\ task' = IF RunsNow' = "nothing" THEN "none" ELSE "start"
  BY <1>1, AfterSuccess DEF BuildInv, PlanOk
<1>3. UNCHANGED <<tar, jdk, step>> /\ "transform" \notin upToDate' /\ "createDeb" \notin upToDate'
  BY <1>2 DEF others, run, Providers
<1>4. TransformInv'
  BY <1>1, StillIdle DEF BuildInv, others
<1>5. PlanOk' /\ TempsOk'
  BY <1>1, <1>2, <1>3 DEF PlanOk, TempsOk
<1>6. ZipOk' /\ UpToDateOk'
  BY <1>2, <1>3 DEF ZipOk, UpToDateOk, Providers
<1> QED BY <1>3, <1>4, <1>5, <1>6 DEF BuildInv

\* One that fails leaves the zip as it is, or none.
LEMMA NativesFail ==
  ASSUME BuildInv, NEW t \in Providers, Runs(t), Fails,
         UNCHANGED <<others, deb, temps, undeleted, kills>>,
         UNCHANGED zip \/ (task # "start" /\ zip' = NoZip)
  PROVE  BuildInv'
<1>1. /\ step = "idle" /\ temps \in Nat /\ undeleted \in Nat /\ temps <= kills + undeleted
      /\ RunsNow = t
  <2>1. t # "transform" /\ t # "createDeb"
    BY DEF Providers
  <2> QED BY <2>1, Running
<1>2. task # "start" => upToDate = {}
  BY <1>1 DEF BuildInv, UpToDateOk
<1>3. TransformInv'
  BY <1>1, StillIdle DEF BuildInv, others
<1>4. UNCHANGED <<tar, jdk, archive, deb, kills, step, temps, undeleted>>
  BY DEF others, run
<1> QED BY <1>1, <1>2, <1>3, <1>4, FailsStep

LEMMA NativesStep ==
  ASSUME BuildInv, \/ FetchStart \/ FetchDone \/ FetchFails
                   \/ NativesPrepareFails \/ NativesStart \/ NativesAdd \/ NativesThrow
                   \/ NativesDelete \/ NativesDone
  PROVE  BuildInv'
<1>1. /\ zip \in [exists : BOOLEAN, entries : SUBSET Natives, cut : SUBSET Natives,
                  whole : BOOLEAN]
      /\ zip.whole = TRUE => zip.exists = TRUE
      /\ "buildNatives" \in Providers /\ "fetchNatives" \in Providers
      /\ \A t : Runs(t) => RunsNow = t
  BY Running DEF BuildInv, ZipOk, Providers
<1>2. CASE NativesPrepareFails
  BY <1>1, <1>2, NativesFail DEF NativesPrepareFails
<1>3. CASE NativesStart \/ FetchStart
  <2>1. PICK t \in Providers :
          /\ Runs(t) /\ zip' = [NoZip EXCEPT !.exists = TRUE] /\ Dirties(t)
          /\ task' = IF t = "buildNatives" THEN "add" ELSE "fetch"
          /\ UNCHANGED <<others, plan, deb, temps, undeleted, kills>>
    <3>1. CASE NativesStart
      BY <1>1, <3>1 DEF NativesStart
    <3>2. CASE FetchStart
      <4>1. "fetchNatives" # "buildNatives"
        OBVIOUS
      <4> QED BY <1>1, <3>2, <4>1 DEF FetchStart
    <3> QED BY <1>3, <3>1, <3>2
  <2>2. zip' \in [exists : BOOLEAN, entries : SUBSET Natives, cut : SUBSET Natives,
                  whole : BOOLEAN]
        /\ zip'.exists = TRUE
    BY <2>1, NoZipOk
  <2>3. upToDate' = {}
    BY <2>1, Dirtied
  <2>4. task' \in IF t = "buildNatives" THEN {"add", "delete"} ELSE {"fetch"}
    BY <2>1
  <2> QED BY <2>1, <2>2, <2>3, <2>4, NativesAfter
<1>4. CASE NativesAdd
  <2>1. PICK n \in Natives : zip' = [zip EXCEPT !.entries = zip.entries \cup {n}]
    BY <1>4 DEF NativesAdd
  <2>2. /\ Runs("buildNatives") /\ task = "add"
        /\ UNCHANGED <<others, plan, task, upToDate, deb, temps, undeleted, kills>>
    BY <1>4 DEF NativesAdd
  <2>3. upToDate = {} /\ zip.exists = TRUE
    BY <1>1, <2>2 DEF BuildInv, UpToDateOk, ZipOk
  <2>4. zip' \in [exists : BOOLEAN, entries : SUBSET Natives, cut : SUBSET Natives,
                  whole : BOOLEAN]
        /\ zip'.exists = TRUE
    BY <1>1, <2>1, <2>3
  <2>5. task' \in {"add", "delete"}
    BY <2>2
  <2> QED BY <1>1, <2>2, <2>3, <2>4, <2>5, NativesAfter
<1>5. CASE NativesThrow
  <2>1. /\ Runs("buildNatives") /\ task' = "delete" /\ Dirties("buildNatives")
        /\ UNCHANGED <<others, plan, deb, temps, undeleted, kills>>
    BY <1>5 DEF NativesThrow
  <2>2. /\ zip' \in [exists : BOOLEAN, entries : SUBSET Natives, cut : SUBSET Natives,
                     whole : BOOLEAN]
        /\ zip'.whole = TRUE => zip'.exists = TRUE
    <3>1. CASE UNCHANGED zip
      BY <1>1, <3>1
    <3>2. CASE task = "add" /\ \E cut \in {{}} \cup {{n} : n \in Natives \ zip.entries} :
                 zip' = [zip EXCEPT !.cut = cut, !.whole = TRUE]
      <4>1. PICK cut \in SUBSET Natives : zip' = [zip EXCEPT !.cut = cut, !.whole = TRUE]
        BY <3>2
      <4>2. zip.exists = TRUE
        BY <1>1, <2>1, <3>2 DEF BuildInv, ZipOk
      <4> QED BY <1>1, <4>1, <4>2
    <3> QED BY <1>5, <3>1, <3>2 DEF NativesThrow
  <2>3. upToDate' = {}
    BY <1>1, <2>1, Dirtied
  <2>4. task' \in {"add", "delete"} /\ task' \notin {"add", "fetch"}
    BY <2>1
  <2> QED BY <1>1, <2>1, <2>2, <2>3, <2>4, NativesAfter
<1>6. CASE NativesDelete
  <2>1. "delete" # "start"
    OBVIOUS
  <2> QED BY <1>1, <1>6, <2>1, NativesFail DEF NativesDelete, DeleteZip
<1>7. CASE NativesDone \/ FetchDone
  <2>1. PICK t \in Providers :
          /\ Runs(t) /\ task \in {"add", "fetch"} /\ Succeeds
          /\ UNCHANGED <<others, deb, temps, undeleted, kills>>
    BY <1>1, <1>7 DEF NativesDone, FetchDone
  <2>2. zip.exists = TRUE
    BY <1>1, <2>1 DEF BuildInv, ZipOk
  <2>3. PICK E \in SUBSET Natives : zip' = [zip EXCEPT !.entries = E, !.whole = TRUE]
    <3>1. CASE NativesDone
      <4>1. zip' = [zip EXCEPT !.entries = zip.entries, !.whole = TRUE]
        BY <1>1, <3>1 DEF NativesDone
      <4> QED BY <1>1, <4>1
    <3>2. CASE FetchDone
      BY <3>2 DEF FetchDone
    <3> QED BY <1>7, <3>1, <3>2
  <2>4. /\ zip' \in [exists : BOOLEAN, entries : SUBSET Natives, cut : SUBSET Natives,
                     whole : BOOLEAN]
        /\ zip'.exists = TRUE
    BY <1>1, <2>2, <2>3
  <2>5. task # "start"
    BY <2>1
  <2> QED BY <2>1, <2>4, <2>5, NativesMade
<1>8. CASE FetchFails
  BY <1>1, <1>8, NativesFail DEF FetchFails
<1> QED BY <1>2, <1>3, <1>4, <1>5, <1>6, <1>7, <1>8

\* TransformIDE.
LEMMA StepGoesOn == ASSUME jdk \in Jdks, TransformStep PROVE step' # "idle"
<1>1. CASE Open
  BY <1>1 DEF Open, OpenFails, Throws
<1>2. CASE ReadPrefix
  BY <1>2 DEF ReadPrefix, Throws
<1>3. CASE NextEntry
  BY <1>3 DEF NextEntry, Throws, Jdks
<1>4. CASE CopyJRE
  BY <1>4 DEF CopyJRE, Throws
<1>5. CASE EntryFails \/ JdkOpenFails \/ Check \/ CloseStream \/ Closed
  BY <1>5 DEF EntryFails, JdkOpenFails, Check, CloseStream, Closed, Throws
<1> QED BY <1>1, <1>2, <1>3, <1>4, <1>5 DEF TransformStep

LEMMA TransformTask ==
  ASSUME BuildInv, Transform
  PROVE  BuildInv'
<1>1. /\ RunsNow = "transform" /\ plan # <<>> /\ temps \in Nat /\ kills \in Nat /\ undeleted \in Nat /\ temps <= kills + undeleted
      /\ upToDate \subseteq Providers \cup {"transform", "createDeb"} /\ plan \in Plans
      /\ UNCHANGED <<deb, temps, undeleted, kills>> /\ zip.exists = TRUE
      /\ zip \in [exists : BOOLEAN, entries : SUBSET Natives, cut : SUBSET Natives,
                  whole : BOOLEAN]
      /\ zip.whole = TRUE => zip.exists = TRUE
      /\ upToDate \cap Providers # {} => zip.exists = TRUE
  <2>1. Runs("transform") /\ UNCHANGED <<deb, temps, undeleted, kills>>
    BY DEF Transform
  <2>2. /\ RunsNow = "transform" /\ plan # <<>> /\ temps \in Nat /\ kills \in Nat /\ undeleted \in Nat /\ temps <= kills + undeleted
        /\ upToDate \subseteq Providers \cup {"transform", "createDeb"}
    BY <2>1, Running
  <2> QED BY <2>1, <2>2 DEF BuildInv, PlanOk, ZipOk, UpToDateOk
<1>2. CASE /\ task = "start" /\ task' = "run" /\ Dirties("transform")
           /\ TransformStarts /\ UNCHANGED <<tar, jdk, zip, plan>>
  <2>1. step = "idle"
    BY <1>1, <1>2 DEF BuildInv, PlanOk
  <2>2. /\ step' = "open" /\ ok' = TRUE /\ at' = 0 /\ left' = {} /\ processedJbr' = FALSE
        /\ UNCHANGED <<streams, archive>>
    BY <1>2 DEF TransformStarts
  <2>3. Len(streams') = 0 /\ StreamsOk'
    <3>1. StreamsOk /\ Len(streams) = 0
      BY <2>1 DEF BuildInv, TransformInv, StreamsOk
    <3>2. Len(streams') = 0
      BY <2>2, <3>1
    <3>3. streams' = SubSeq(Streams, 1, Len(streams'))
      BY <2>2, <3>1 DEF StreamsOk
    <3> QED BY <2>2, <3>2, <3>3 DEF StreamsOk
  <2>4. StepOk'
    <3>1. archive' \in [entries : {archive'.entries}, pending : BOOLEAN, ended : BOOLEAN,
                        whole : BOOLEAN]
      BY <2>2 DEF BuildInv, TransformInv, StepOk
    <3>2. /\ ~(step' = "open" /\ Len(streams') >= 5) /\ step' # "prefix"
          /\ step' \notin {"entries", "jdk"}
      BY <2>2, <2>3
    <3> QED BY <2>2, <3>1, <3>2 DEF StepOk
  <2>5. CopyOk'
    <3>1. Len(tar) \in Nat /\ Len(JdkEntries) \in Nat
      BY BaseIsArchive, JdkAssumption, ArchiveFacts DEF BuildInv
    <3>2. at' \in 0..Len(tar) + Len(JdkEntries)
      BY <2>2, <3>1
    <3>3. IsArchive(archive'.entries) /\ left' \subseteq Keys
      BY <2>2 DEF BuildInv, TransformInv, CopyOk
    <3> QED BY <1>2, <2>2, <3>2, <3>3 DEF CopyOk
  <2>6. CloseOk'
    BY <2>2 DEF CloseOk
  <2>7. upToDate' \subseteq Providers /\ upToDate' \subseteq upToDate
    <3>1. upToDate' = upToDate \ {"transform", "createDeb"}
      BY <1>2, Dirtied
    <3> QED BY <1>1, <3>1
  <2>8. RunsNow' = "transform"
    BY <1>1, <1>2 DEF RunsNow
  <2>9. PlanOk' /\ TempsOk'
    BY <1>1, <1>2, <2>2, <2>8 DEF PlanOk, TempsOk
  <2>10. ZipOk' /\ UpToDateOk'
    BY <1>1, <1>2, <2>7, <2>8 DEF ZipOk, UpToDateOk, Providers
  <2> QED BY <1>2, <2>3, <2>4, <2>5, <2>6, <2>9, <2>10 DEF BuildInv, TransformInv
<1>3. CASE /\ task = "run" /\ step # "done" /\ TransformStep /\ UNCHANGED <<plan, task, upToDate>>
  <2>1. TransformInv' /\ UNCHANGED <<tar, jdk, zip>> /\ step' # "idle"
    BY <1>3, TransformSteps, StepGoesOn DEF BuildInv, SameInputs
  <2>2. upToDate \subseteq Providers
    BY <1>1, <1>3 DEF BuildInv, UpToDateOk
  <2>3. RunsNow' = "transform"
    BY <1>1, <1>3 DEF RunsNow
  <2>4. PlanOk' /\ TempsOk'
    BY <1>1, <1>3, <2>1, <2>3 DEF PlanOk, TempsOk
  <2>5. ZipOk' /\ UpToDateOk'
    BY <1>1, <1>3, <2>1, <2>2, <2>3 DEF ZipOk, UpToDateOk, Providers
  <2> QED BY <2>1, <2>4, <2>5 DEF BuildInv
<1>4. CASE /\ task = "run" /\ step = "done" /\ (IF ok THEN Succeeds ELSE Fails)
           /\ step' = "idle" /\ left' = {} /\ at' = 0
           /\ UNCHANGED <<tar, jdk, zip, ok, streams, unclosed, processedJbr, archive, faults>>
  <2>1. Len(streams) = 0 /\ streams' = <<>> /\ ok \in BOOLEAN
    <3>1. Len(streams) = 0 /\ streams = SubSeq(Streams, 1, 0) /\ ok \in BOOLEAN
      BY <1>4 DEF BuildInv, TransformInv, StreamsOk, StepOk
    <3>2. PICK e : e = <<>>
      OBVIOUS
    <3>3. SubSeq(Streams, 1, 0) = e
      BY <3>2, SubSeqEmpty
    <3> QED BY <1>4, <3>1, <3>2, <3>3
  <2>2. TransformInv'
    <3>1. Len(tar) \in Nat /\ Len(JdkEntries) \in Nat
      BY BaseIsArchive, JdkAssumption, ArchiveFacts DEF BuildInv
    <3>2. at' \in 0..Len(tar) + Len(JdkEntries) /\ left' \subseteq Keys
      BY <1>4, <3>1
    <3> QED BY <1>4, <2>1, <3>2, IdleAfter DEF BuildInv
  <2>3. CASE ok = FALSE
    <3>1. Fails
      BY <1>4, <2>3
    <3> QED BY <1>1, <1>4, <2>2, <3>1, FailsStep
  <2>4. CASE ok = TRUE
    <3>1. Succeeds /\ Runs("transform")
      BY <1>4, <2>4 DEF Transform
    <3>2. /\ plan' \in Plans /\ upToDate' = upToDate \cup {"transform"}
          /\ RunsNow' \in {"nothing", "createDeb"}
          /\ task' = IF RunsNow' = "nothing" THEN "none" ELSE "start"
      BY <1>1, <3>1, AfterSuccess
    <3>3. upToDate \subseteq Providers
      BY <1>1, <1>4 DEF BuildInv, UpToDateOk
    <3>4. archive.whole = TRUE /\ ArchiveGood
      BY <1>4, <2>1, <2>4 DEF BuildInv, TransformInv, CloseOk
    <3>5. archive'.whole = TRUE /\ ArchiveGood' /\ zip'.exists = TRUE
      BY <1>1, <1>4, <3>4, StaysRight
    <3>6. PlanOk' /\ TempsOk'
      BY <1>1, <1>4, <3>2 DEF PlanOk, TempsOk
    <3>7. ZipOk'
      BY <1>1, <1>4, <3>2 DEF ZipOk, Providers
    <3>8. UpToDateOk'
      BY <3>2, <3>3, <3>5 DEF UpToDateOk, Providers
    <3> QED BY <1>4, <2>2, <3>6, <3>7, <3>8 DEF BuildInv
  <2> QED BY <2>1, <2>3, <2>4
<1> QED BY <1>2, <1>3, <1>4 DEF Transform

\* CreateDeb.
LEMMA DebStep ==
  ASSUME BuildInv, DebData \/ DebThrows \/ DebOpens \/ DebDone
  PROVE  BuildInv'
<1>1. /\ Runs("createDeb") /\ UNCHANGED <<tar, jdk, run, archive, zip, kills>>
      /\ RunsNow = "createDeb" /\ plan # <<>> /\ temps \in Nat /\ kills \in Nat /\ undeleted \in Nat
      /\ upToDate \subseteq Providers \cup {"transform", "createDeb"} /\ step = "idle"
  <2>1. Runs("createDeb") /\ UNCHANGED <<tar, jdk, run, archive, zip, kills>>
    BY DEF DebData, DebThrows, DebOpens, DebDone, others
  <2> QED BY <2>1, Running
<1>2. /\ plan \in Plans /\ "transform" \in upToDate /\ task \in {"start", "data", "deb"}
      /\ task # "start" => "createDeb" \notin upToDate
      /\ IF task \in {"data", "deb"} THEN temps \in 1..kills + undeleted + 1 ELSE temps <= kills + undeleted
  BY <1>1 DEF BuildInv, PlanOk, UpToDateOk, TempsOk
<1>3. UNCHANGED <<tar, jdk, archive, step, zip>>
  BY <1>1 DEF run
<1>4. TransformInv'
  BY <1>1, StillIdle DEF BuildInv, others
<1>5. ZipOk => ZipOk' \/ RunsNow' \notin {"nothing", "createDeb"}
  BY <1>1, <1>3 DEF ZipOk, Providers
<1>6. CASE DebData \/ DebOpens
  <2>1. /\ plan' = plan /\ task' \in {"data", "deb"} /\ upToDate' = upToDate \ {"createDeb"}
        /\ temps' \in 1..kills + undeleted + 1 /\ undeleted' = undeleted
    <3>1. CASE DebData
      <4>1. /\ task = "start" /\ temps' = temps + 1 /\ task' = "data" /\ Dirties("createDeb")
            /\ plan' = plan /\ undeleted' = undeleted
        BY <3>1 DEF DebData
      <4>2. temps' \in 1..kills + undeleted + 1
        BY <1>1, <1>2, <4>1
      <4> QED BY <4>1, <4>2, Dirtied
    <3>2. CASE DebOpens
      <4>1. task = "data" /\ task' = "deb" /\ UNCHANGED <<plan, upToDate, temps, undeleted>>
        BY <3>2 DEF DebOpens
      <4> QED BY <1>2, <4>1
    <3> QED BY <1>6, <3>1, <3>2
  <2>2. RunsNow' = "createDeb"
    BY <1>1, <2>1 DEF RunsNow
  <2>3. PlanOk' /\ TempsOk'
    BY <1>1, <1>2, <1>3, <2>1, <2>2 DEF PlanOk, TempsOk, Providers
  <2>4. UpToDateOk'
    <3>1. "createDeb" \notin upToDate' /\ upToDate' \subseteq upToDate /\ "transform" \in upToDate'
      BY <1>2, <2>1
    <3> QED BY <1>3, <2>2, <3>1, UpToDateAfter DEF BuildInv, Providers
  <2> QED BY <1>3, <1>4, <1>5, <2>2, <2>3, <2>4 DEF BuildInv
<1>7. CASE DebThrows \/ (DebDone /\ Fails)
  <2>1. /\ Fails /\ ("createDeb" \in upToDate => UNCHANGED deb)
        /\ \/ task = "start" /\ temps' = temps /\ undeleted' = undeleted
           \/ task # "start" /\ temps' = temps - 1 /\ undeleted' = undeleted
           \/ task # "start" /\ temps' = temps /\ undeleted' = undeleted + 1
    <3>1. CASE DebThrows
      BY <3>1 DEF DebThrows, DeleteTemp, DeleteTempFails
    <3>2. CASE DebDone /\ Fails
      <4>1. task = "deb"
        BY <3>2 DEF DebDone
      <4>2. \/ temps' = temps - 1 /\ undeleted' = undeleted
            \/ temps' = temps /\ undeleted' = undeleted + 1
        BY <3>2 DEF DebDone, DeleteTemp, DeleteTempFails
      <4> QED BY <1>2, <3>2, <4>1, <4>2
    <3> QED BY <1>7, <3>1, <3>2
  <2>2. temps' \in Nat /\ undeleted' \in Nat /\ temps' <= kills + undeleted'
    BY <1>1, <1>2, <2>1
  <2> QED BY <1>1, <1>3, <1>4, <2>1, <2>2, FailsStep
<1>8. CASE DebDone /\ ~Fails
  <2>1. /\ task = "deb" /\ temps' = temps - 1 /\ undeleted' = undeleted /\ Succeeds
        /\ deb' = [entries |-> DataEntries, whole |-> TRUE]
    BY <1>8 DEF DebDone, DeleteTemp
  <2>2. /\ plan' \in Plans /\ upToDate' = upToDate \cup {"createDeb"} /\ RunsNow' = "nothing"
        /\ task' = "none"
    BY <1>1, <1>2, <2>1, AfterSuccess
  <2>3. temps' \in Nat /\ undeleted' \in Nat /\ temps' <= kills + undeleted'
    BY <1>1, <1>2, <2>1
  <2>4. PlanOk' /\ TempsOk'
    BY <1>1, <1>3, <2>2, <2>3 DEF PlanOk, TempsOk, Providers
  <2>5. /\ archive.whole = TRUE /\ ArchiveGood /\ zip.exists = TRUE
    BY <1>2 DEF BuildInv, UpToDateOk
  <2>6. archive'.whole = TRUE /\ ArchiveGood' /\ zip'.exists = TRUE
    BY <1>3, <2>5, StaysRight
  <2>7. DebRight'
    <3>1. Wanted' = Wanted
      BY <1>3 DEF Wanted, Patched
    <3>2. deb'.whole = TRUE /\ deb'.entries = {AsFile(e) : e \in {x \in Range(archive.entries) : x.type # "dir"}}
      BY <2>1 DEF DataEntries
    <3>3. zip.cut = {} => Range(archive.entries) = Wanted
      BY <2>5 DEF ArchiveGood
    <3>4. \A W : {AsFile(e) : e \in {x \in W : x.type # "dir"}} =
                    {[path |-> e.path, type |-> "file", from |-> e.from] :
                       e \in {x \in W : x.type \notin {"dir", "link"}}}
                    \cup {[path |-> e.path, type |-> "file", from |-> "nothing"] :
                            e \in {x \in W : x.type = "link"}}
      BY DEF AsFile
    <3> QED BY <1>3, <3>1, <3>2, <3>3, <3>4 DEF DebRight
  <2>8. UpToDateOk'
    BY <1>1, <1>2, <2>2, <2>6, <2>7 DEF UpToDateOk, Providers
  <2> QED BY <1>3, <1>4, <1>5, <2>2, <2>4, <2>8 DEF BuildInv
<1> QED BY <1>6, <1>7, <1>8

LEMMA KillStep ==
  ASSUME BuildInv, Kill
  PROVE  BuildInv'
<1>1. /\ plan' = <<>> /\ task' = "none" /\ kills' = kills + 1 /\ step' = "idle" /\ streams' = <<>>
      /\ left' = {} /\ at' = 0
      /\ UNCHANGED <<tar, jdk, zip, ok, processedJbr, archive, upToDate, deb, temps, undeleted>>
  BY DEF Kill
<1>2. RunsNow' = "nothing" /\ plan' \in Plans
  BY <1>1 DEF RunsNow, Plans
<1>3. temps \in Nat /\ kills \in Nat /\ undeleted \in Nat /\ temps <= kills + 1 + undeleted
  BY DEF BuildInv, TempsOk
<1>4. TransformInv'
  <2>1. Len(tar) \in Nat /\ Len(JdkEntries) \in Nat
    BY BaseIsArchive, JdkAssumption, ArchiveFacts DEF BuildInv
  <2>2. at' \in 0..Len(tar) + Len(JdkEntries) /\ left' \subseteq Keys
    BY <1>1, <2>1
  <2> QED BY <1>1, <2>2, IdleAfter DEF BuildInv
<1>5. kills' \in Nat /\ undeleted' \in Nat /\ temps' <= kills' + undeleted'
  BY <1>1, <1>3
<1>6. PlanOk' /\ TempsOk'
  BY <1>1, <1>2, <1>3, <1>5 DEF PlanOk, TempsOk
<1>7. ZipOk'
  BY <1>1, <1>2 DEF BuildInv, ZipOk, Providers
<1>8. UpToDateOk'
  BY <1>1, <1>2, UpToDateAfter DEF BuildInv, UpToDateOk, Providers
<1> QED BY <1>1, <1>4, <1>6, <1>7, <1>8 DEF BuildInv

LEMMA NothingChanges ==
  ASSUME BuildInv, UNCHANGED vars
  PROVE  BuildInv'
<1>1. /\ UNCHANGED <<tar, jdk, zip, archive, plan, task, upToDate, deb, temps, undeleted, kills>>
      /\ UNCHANGED <<step, ok, streams, at, left, processedJbr>> /\ RunsNow' = RunsNow
  BY DEF vars, others, run, RunsNow
<1>2. TransformInv'
  <2>1. StreamsOk' /\ StepOk'
    BY <1>1 DEF BuildInv, TransformInv, StreamsOk, StepOk
  <2>2. SameInputs
    BY <1>1 DEF BuildInv, SameInputs
  <2>3. CopyOk'
    BY <1>1, <2>2, CopyAfter DEF BuildInv, TransformInv, CopyOk
  <2>4. CloseOk'
    <3>1. ArchiveGood => ArchiveGood'
      BY <1>1, StaysRight
    <3> QED BY <1>1, <3>1 DEF BuildInv, TransformInv, CloseOk
  <2> QED BY <2>1, <2>3, <2>4 DEF TransformInv
<1>3. PlanOk' /\ ZipOk' /\ TempsOk'
  BY <1>1 DEF BuildInv, PlanOk, ZipOk, TempsOk
<1>4. UpToDateOk'
  BY <1>1, UpToDateAfter DEF BuildInv, UpToDateOk
<1> QED BY <1>1, <1>2, <1>3, <1>4 DEF BuildInv

----------------------------------------------------------------------------
\* The invariant.
LEMMA BuildStarts == Init => BuildInv
<1>1. SUFFICES ASSUME Init PROVE BuildInv
  OBVIOUS
<1>2. /\ tar \in Tars /\ jdk \in Jdks /\ zip = NoZip /\ plan = <<>> /\ task = "none"
      /\ upToDate = {} /\ deb = NoDeb /\ temps = 0 /\ undeleted = 0 /\ kills = 0
      /\ step = "idle" /\ ok = TRUE /\ streams = <<>> /\ at = 0 /\ left = {}
      /\ processedJbr = FALSE /\ archive = NewArchive
  BY <1>1 DEF Init, TransformInit, Jdks
<1>3. PICK e : e = <<>>
  OBVIOUS
<1>4. SubSeq(Streams, 1, 0) = e /\ Len(e) = 0
  BY <1>3, EmptySeq, SubSeqEmpty
<1>5. StreamsOk
  BY <1>2, <1>3, <1>4 DEF StreamsOk
<1>6. StepOk
  BY <1>2 DEF StepOk, NewArchive
<1>7. CopyOk
  <2>1. Len(tar) \in Nat /\ Len(JdkEntries) \in Nat
    BY <1>2, BaseIsArchive, JdkAssumption, ArchiveFacts
  <2>2. at \in 0..Len(tar) + Len(JdkEntries)
    BY <1>2, <2>1
  <2>3. IsArchive(archive.entries)
    BY <1>2, EmptyArchive DEF NewArchive
  <2> QED BY <1>2, <2>2, <2>3 DEF CopyOk
<1>8. CloseOk
  BY <1>2 DEF CloseOk
<1>9. RunsNow = "nothing" /\ plan \in Plans
  BY <1>2, NoPlan
<1>10. PlanOk /\ TempsOk
  BY <1>2, <1>9 DEF PlanOk, TempsOk
<1>11. ZipOk
  BY <1>2, <1>9, NoZipOk DEF ZipOk, Providers
<1>12. UpToDateOk
  BY <1>2, <1>9 DEF UpToDateOk, Providers
<1> QED BY <1>2, <1>5, <1>6, <1>7, <1>8, <1>10, <1>11, <1>12 DEF BuildInv, TransformInv

LEMMA BuildNext == ASSUME BuildInv, [Next]_vars PROVE BuildInv'
<1>1. CASE \E goal \in Providers \cup {"transform", "createDeb"} : Ask(goal)
  BY <1>1, AskStep
<1>2. CASE Gradle
  BY <1>2, NativesStep, TransformTask, DebStep DEF Gradle
<1>3. CASE Kill
  BY <1>3, KillStep
<1>4. CASE UNCHANGED vars
  BY <1>4, NothingChanges
<1> QED BY <1>1, <1>2, <1>3, <1>4 DEF Next

\* A file stays open only because the stream around it could not be made.
UnclosedOk ==
  /\ faults \in Nat /\ unclosed \subseteq {"jdkFile", "dataFile", "tarFile"}
  /\ unclosed # {} => faults > 0 \/ (jdk = "zip" /\ unclosed = {"jdkFile"})

LEMMA UnclosedNext == ASSUME UnclosedOk, [Next]_vars PROVE UnclosedOk'
<1>1. /\ jdk' = jdk /\ (faults' = faults \/ faults' = faults + 1)
      /\ \/ unclosed' = unclosed \/ unclosed' = {}
         \/ /\ \E f \in {"jdkFile", "dataFile", "tarFile"} : unclosed' = unclosed \cup {f}
            /\ faults' = faults + 1
         \/ unclosed' = unclosed \cup {"jdkFile"} /\ jdk = "zip"
  <2>1. CASE \E goal \in Providers \cup {"transform", "createDeb"} : Ask(goal)
    BY <2>1 DEF Ask, others
  <2>2. CASE FetchStart \/ FetchDone \/ FetchFails \/ NativesPrepareFails \/ NativesStart
             \/ NativesAdd \/ NativesThrow \/ NativesDelete \/ NativesDone
    BY <2>2 DEF FetchStart, FetchDone, FetchFails, NativesPrepareFails, NativesStart, NativesAdd,
       NativesThrow, NativesDelete, NativesDone, Fault, NoFault, others
  <2>3. CASE Transform
    <3>1. CASE JdkOpenFails /\ UNCHANGED jdk
      BY <3>1 DEF JdkOpenFails, Fault, NoFault
    <3>2. CASE Open /\ UNCHANGED <<jdk, unclosed>>
      BY <3>2 DEF Open, Fault, NoFault
    <3>3. CASE ReadPrefix /\ UNCHANGED <<jdk, unclosed>>
      BY <3>3 DEF ReadPrefix, Fault, NoFault
    <3>4. CASE CloseStream /\ UNCHANGED <<jdk, unclosed>>
      BY <3>4 DEF CloseStream, Fault, NoFault
    <3>5. CASE (NextEntry \/ CopyJRE \/ EntryFails \/ Check \/ Closed) /\ UNCHANGED <<jdk, unclosed>>
      BY <3>5 DEF NextEntry, CopyJRE, EntryFails, Check, Closed, Fault, NoFault
    <3>6. CASE UNCHANGED <<jdk, faults, unclosed>>
      BY <3>6
    <3> QED BY <2>3, <3>1, <3>2, <3>3, <3>4, <3>5, <3>6
            DEF Transform, TransformStep, TransformStarts
  <2>4. CASE DebData \/ DebOpens \/ DebDone
    BY <2>4 DEF DebData, DebOpens, DebDone, Fault, NoFault, others
  <2>5. CASE DebThrows
    BY <2>5 DEF DebThrows, Fault
  <2>6. CASE Kill
    BY <2>6 DEF Kill
  <2>7. CASE UNCHANGED vars
    BY <2>7 DEF vars, others
  <2> QED BY <2>1, <2>2, <2>3, <2>4, <2>5, <2>6, <2>7 DEF Next, Gradle
<1>2. faults' \in Nat /\ (faults > 0 => faults' > 0) /\ (faults' = faults + 1 => faults' > 0)
  BY <1>1 DEF UnclosedOk
<1> QED BY <1>1, <1>2 DEF UnclosedOk

LEMMA UnclosedAlways == FairSpec => []UnclosedOk
<1>1. Init => UnclosedOk
  BY DEF Init, TransformInit, UnclosedOk
<1>2. UnclosedOk /\ [Next]_vars => UnclosedOk'
  BY UnclosedNext
<1> QED BY <1>1, <1>2, PTL DEF FairSpec

LEMMA BuildAlways == FairSpec => []BuildInv
<1>1. BuildInv /\ [Next]_vars => BuildInv'
  BY BuildNext
<1> QED BY <1>1, BuildStarts, PTL DEF FairSpec

----------------------------------------------------------------------------
\* The tasks keep their state within what run, doTransform and OpenHelper have: the streams
\* that are open are always the first few of those that the constructor opens.
THEOREM BuildTypes == FairSpec => []TypeOK
<1>1. BuildInv /\ UnclosedOk => TypeOK
  <2>1. SUFFICES ASSUME BuildInv, UnclosedOk PROVE TypeOK
    OBVIOUS
  <2>2. step \in {"idle", "open", "prefix", "entries", "jdk", "close", "done"} /\ ok \in BOOLEAN
    BY <2>1 DEF BuildInv, TransformInv, StepOk
  <2>3. \E n \in 0..Len(Streams) : streams = SubSeq(Streams, 1, n)
    <3>1. Len(streams) \in 0..Len(Streams) /\ streams = SubSeq(Streams, 1, Len(streams))
      BY <2>1, StreamNames DEF BuildInv, TransformInv, StreamsOk
    <3> QED BY <3>1
  <2>4. at \in 0..Len(tar) + Len(JdkEntries)
    BY <2>1 DEF BuildInv, TransformInv, CopyOk
  <2>5. left \subseteq DOMAIN Replacement \cup Transformed \cup FilteredOut
    BY <2>1 DEF BuildInv, TransformInv, CopyOk, Keys
  <2>6. zip.entries \cup zip.cut \subseteq Natives /\ (zip.whole => zip.exists)
    BY <2>1 DEF BuildInv, ZipOk
  <2>7. /\ temps \in Nat /\ undeleted \in Nat /\ unclosed \subseteq {"jdkFile", "dataFile", "tarFile"}
        /\ upToDate \subseteq Providers \cup {"transform", "createDeb"}
    BY <2>1 DEF BuildInv, TempsOk, UpToDateOk, UnclosedOk
  <2> QED BY <2>2, <2>3, <2>4, <2>5, <2>6, <2>7 DEF TypeOK
<1> QED BY <1>1, BuildAlways, UnclosedAlways, PTL

\* transform, once it is up to date, has left a closed archive with every file that the target
\* architecture wants, each of them once: for every base archive, in whatever order it lists
\* its files and wherever in it the JBR is, and whatever failed or was killed before.
THEOREM ArchivesRight == FairSpec => []ArchiveRight
<1>1. BuildInv => ArchiveRight
  <2>1. SUFFICES ASSUME BuildInv, "transform" \in upToDate, zip.cut = {}
                 PROVE  /\ archive.whole /\ Range(archive.entries) = Wanted
                        /\ Len(archive.entries) = Cardinality(Wanted)
    BY DEF ArchiveRight
  <2>2. archive.whole = TRUE /\ Range(archive.entries) = Wanted
    BY <2>1 DEF BuildInv, UpToDateOk, ArchiveGood
  <2>3. IsArchive(archive.entries)
    BY <2>1 DEF BuildInv, TransformInv, CopyOk
  <2>4. Len(archive.entries) = Cardinality(Wanted)
    BY <2>2, <2>3, ArchiveCount
  <2> QED BY <2>2, <2>4
<1> QED BY <1>1, BuildAlways, PTL

\* createDeb, once it is up to date, has left a closed package with the regular files of these as
\* they are, an empty file in the place of each symbolic link, and nothing else.
THEOREM PackagesRight == FairSpec => []DebRight
<1>1. BuildInv => DebRight
  <2>1. SUFFICES ASSUME BuildInv, "createDeb" \in upToDate PROVE DebRight
    BY DEF DebRight
  <2> QED BY <2>1 DEF BuildInv, UpToDateOk
<1> QED BY <1>1, BuildAlways, PTL

\* Between two invocations no stream of OpenHelper's is open, there are at most as many temporary
\* archives as invocations that were killed and deletions that failed, and a file inside of a
\* stream that could not be made stays open only after an I/O error, or if the JDK is no gzip.
THEOREM NothingIsLeft == FairSpec => []NothingLeft
<1>1. BuildInv /\ UnclosedOk => NothingLeft
  <2>1. SUFFICES ASSUME BuildInv, plan = <<>> PROVE streams = <<>> /\ temps <= kills + undeleted
    BY DEF NothingLeft, UnclosedOk
  <2>2. RunsNow = "nothing"
    BY <2>1 DEF RunsNow
  <2>3. step = "idle" /\ temps <= kills + undeleted
    BY <2>1, <2>2 DEF BuildInv, PlanOk, TempsOk
  <2>4. PICK e : e = <<>>
    OBVIOUS
  <2>5. SubSeq(Streams, 1, 0) = e
    BY <2>4, SubSeqEmpty
  <2>6. Len(streams) = 0 /\ streams = SubSeq(Streams, 1, Len(streams))
    BY <2>1, <2>3 DEF BuildInv, TransformInv, StreamsOk
  <2>7. streams = e
    BY <2>5, <2>6
  <2> QED BY <2>3, <2>4, <2>7
<1> QED BY <1>1, BuildAlways, UnclosedAlways, PTL
=============================================================================
