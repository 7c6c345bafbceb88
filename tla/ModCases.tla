------------------------------ MODULE ModCases ------------------------------
(***************************************************************************)
(* The modcases table of one guild as the wrappers read it: rows           *)
(* [id, cmd, target], and the prepared statement "casecount", the last of  *)
(* their ids.                                                              *)
(***************************************************************************)
EXTENDS Naturals

CaseIds(rows) == {row.id : row \in rows}

\* 0 for an empty table.
LastCaseId(rows) ==
    IF rows = {} THEN 0
    ELSE CHOOSE n \in CaseIds(rows) : \A m \in CaseIds(rows) : m <= n

\* The ids number the cases without gaps.
Contiguous(rows) == CaseIds(rows) = 1 .. LastCaseId(rows)

=============================================================================
