--------------------------- MODULE MCJobRetention ---------------------------
(* An instance of JobRetention with more jobs than either limit allows.     *)
EXTENDS JobRetention
=============================================================================
