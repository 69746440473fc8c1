----------------------------- MODULE MCExecPty -----------------------------
\* Instances of ExecPty for TLC: eight descriptors, so that masters, slaves and the
\* listing of /proc/self/fd fall on both sides of 5.
EXTENDS ExecPty

EightFds == 0..7
=============================================================================
