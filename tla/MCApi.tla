------------------------------- MODULE MCApi --------------------------------
(* Small instances of Api: a few concurrent requests, and as many job IDs  *)
(* as there are requests, so that generateJobID never runs out of them.    *)
EXTENDS Api

TwoStatuses == {"success", "failed"}

=============================================================================
