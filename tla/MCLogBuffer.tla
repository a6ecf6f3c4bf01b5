---------------------------- MODULE MCLogBuffer -----------------------------
(* Small instances of LogBuffer: the two stream labels as line contents.   *)
EXTENDS LogBuffer

StreamLabels == {"stdout", "stderr"}

=============================================================================
