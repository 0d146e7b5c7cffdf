----------------------------- MODULE MCLogBuffer -----------------------------
(* Small instances of LogBuffer.                                             *)
EXTENDS LogBuffer, TLC

CONSTANTS a, b

\* The whole backlog, none of it, or at most one entry.
AnyLimit == {-1, 0, 1}

All == {-1}
===============================================================================
