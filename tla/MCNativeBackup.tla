--------------------------- MODULE MCNativeBackup ---------------------------
\* Instances of NativeBackup for TLC.  The small numbers are in the configurations; a
\* negative one needs a name.
EXTENDS NativeBackup

AllPages == -1
=============================================================================
