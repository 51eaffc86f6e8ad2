----------------------------- MODULE MCAdminAccess -----------------------------
(* AdminAccess for TLC: one tab, two reads, and an account that comes and     *)
(* goes as an administrator while the gate is opened and closed.              *)
EXTENDS AdminAccess

CONSTANTS tab, kim, boss

Lists == {{}, {boss}, {kim}}
=============================================================================
