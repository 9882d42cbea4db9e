---------------------------- MODULE MCAuditQueue ----------------------------
(* Instance of AuditQueue, with a reader of the audit log, for TLC.         *)
EXTENDS AuditListing
=============================================================================
