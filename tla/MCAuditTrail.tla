---------------------------- MODULE MCAuditTrail ----------------------------
(* Model-checking instance of AuditTrail: records the reader wants and one it *)
(* does not, pages of one row and of more rows than the maximum.              *)
EXTENDS AuditTrail, TLC

MCRecords == {"r1", "r2", "r3"}
MCWanted == {"r1", "r2"}
MCLimits == {1, 3}
=============================================================================
