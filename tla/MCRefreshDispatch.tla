-------------------------- MODULE MCRefreshDispatch --------------------------
(* Instances of RefreshDispatch for TLC. *)
EXTENDS RefreshDispatch

AllModes == {"csv", "fipiran", "chain"}
\* FIPIRAN: no answer, a block page or another schema.  A file: not there, not
\* readable as numbers and dates, a row that is too short.
AllOutcomes ==
    [s \in Sources |-> IF s = "fipiran" THEN {"records", "empty", "http", "value"}
                       ELSE {"records", "empty", "missing", "value", "other"}]
=============================================================================
