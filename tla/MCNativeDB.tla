----------------------------- MODULE MCNativeDB -----------------------------
\* Two Java threads, two connections one after the other, three contexts, one
\* statement, batches of two rows.
EXTENDS NativeDB, TLC

CONSTANTS t1, t2, c1, c2, x1, x2, x3, s1

TwoThreads == {t1, t2}
TwoConns == {c1, c2}
ThreeContexts == {x1, x2, x3}
OneStmt == {s1}
Symmetric == Permutations(TwoThreads) \cup Permutations(TwoConns)
               \cup Permutations(ThreeContexts)
=============================================================================
