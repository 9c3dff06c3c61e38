---------------------------- MODULE MCAuditStream ----------------------------
EXTENDS AuditStream
=============================================================================
