---------------------------- MODULE MCCoreS3Shell ----------------------------
(* Instance of CoreS3Shell for TLC: a timer that carries soon.              *)
EXTENDS CoreS3Shell
=============================================================================
