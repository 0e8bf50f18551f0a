---------------------------- MODULE MC_PageAudit ----------------------------
(* One audit_page call on page /a of the site of MCSite, for TLC. *)
EXTENDS PageAudit, MCSite

MCU == [host |-> Base, path |-> "/a", slash |-> TRUE]

MCEntryTab == [host |-> Base, path |-> "/"]

=============================================================================
