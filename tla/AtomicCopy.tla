----------------------------- MODULE AtomicCopy -----------------------------
(***************************************************************************)
(* What a caller of backup or restore, and whoever opens the destination   *)
(* later, may rely on.  The destination is what it was or what the source  *)
(* was at one moment, nothing in between, whatever is written to the       *)
(* source and whenever the process dies.  backup returns SQLITE_OK exactly *)
(* when the copy took place.  A power failure may take the copy back as a  *)
(* whole.                                                                  *)
(***************************************************************************)
CONSTANT Original   \* contents of the destination before the call

VARIABLES
  src, dst,  \* contents of the source and of the destination
  way,       \* "backup" or "restore"
  outcome    \* "none", what the call returned, or "crashed"

vars == <<src, dst, way, outcome>>

Init == dst = Original /\ way \in {"backup", "restore"} /\ outcome = "none"

\* Anybody writes to the source.
Write == UNCHANGED <<dst, way, outcome>>

Copy == outcome = "none" /\ dst = Original /\ dst' = src /\ UNCHANGED <<src, way, outcome>>

Return ==
  /\ outcome = "none" /\ outcome' \in {"OK", "BUSY", "ERROR"}
  /\ way = "backup" => (outcome' = "OK" <=> dst # Original)
  /\ UNCHANGED <<src, dst, way>>

Crash == outcome' = "crashed" /\ dst' \in {dst, Original} /\ UNCHANGED <<src, way>>

Next == Write \/ Copy \/ Return \/ Crash

Spec == Init /\ [][Next]_vars
=============================================================================
