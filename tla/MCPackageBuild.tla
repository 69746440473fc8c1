--------------------------- MODULE MCPackageBuild ---------------------------
\* Values for the instance of PackageBuild that TLC checks: three natives, of which one
\* moves and one does not come from the zip, and base archives that lack at most two of their
\* entries, in two orders.
EXTENDS PackageBuild, SequencesExt

ThreeNatives ==
  [p \in {"bin/fsnotifier", "lib/jna/amd64/libjnidispatch.so",
          "lib/pty4j/linux/x86-64/libpty.so"} |->
     CASE p = "bin/fsnotifier" -> [native |-> "fsnotifier", target |-> p]
       [] p = "lib/jna/amd64/libjnidispatch.so" ->
            [native |-> "libjnidispatch.so", target |-> "lib/jna/riscv64/libjnidispatch.so"]
       [] p = "lib/pty4j/linux/x86-64/libpty.so" ->
            [native |-> "libpty.so", target |-> "lib/pty4j/linux/riscv64/libpty.so"]]

File(p) == [path |-> p, type |-> "file", from |-> "base"]
Link(p) == [path |-> p, type |-> "link", from |-> "base"]
Dir(p) == [path |-> p, type |-> "dir", from |-> "base"]
JdkDir == [path |-> "jbr/", type |-> "dir", from |-> "jdk"]
JdkFile == [path |-> "jbr/bin/java", type |-> "file", from |-> "jdk"]
JdkLink == [path |-> "jbr/legal", type |-> "link", from |-> "jdk"]
Jdk == <<JdkDir, JdkFile, JdkLink>>
Jbr == {"jbr/", "jbr/release"}

Base == <<File("bin/fsnotifier"), File("bin/libdbm.so"), Link("bin/idea"), Dir("jbr/"),
          File("jbr/release"), File("lib/jna/amd64/libjnidispatch.so"), File("lib/pty4j/linux/x86-64/libpty.so"),
          File("product-info.json")>>
Without(S) == SelectSeq(Base, LAMBDA e : e \notin S)
Lacking == {S \in SUBSET Range(Base) : Cardinality(S) <= 2}
AllTars ==
  {<<Dir("ide/")>> \o Without(S) : S \in Lacking}
  \cup {<<Dir("ide/")>> \o Reverse(Without(S)) : S \in Lacking} \cup {<<>>, Base}
=============================================================================
