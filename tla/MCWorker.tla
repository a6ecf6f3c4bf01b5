------------------------------ MODULE MCWorker ------------------------------
(* Small instances of Worker: as many job IDs as requests, so that one is  *)
(* always left for a submission.                                           *)
EXTENDS Worker

=============================================================================
