------------------------------ MODULE MCReports ------------------------------
(* Reports on books of up to three invoices, with pages of two. *)
EXTENDS Reports, TLC
=============================================================================
