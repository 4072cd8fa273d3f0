------------------------------ MODULE MCAppFx ------------------------------
(* Instance of AppFx for TLC: the pages of page_id.hpp that can be shown.  *)
EXTENDS AppFx

CONSTANTS AppTestEPDiy, AppBLE, AppSignage

MCMenuTargets == {AppTestEPDiy, AppDrawCanvas, AppBLE, AppSignage}
=============================================================================
