---------------------------- MODULE MCBatchAction ----------------------------
(* Instances of BatchAction: its constants are numbers.                      *)
EXTENDS BatchAction
===============================================================================
