---------------------------- MODULE MCInquiries ----------------------------
(***************************************************************************)
(* Small instances of Inquiries for TLC.                                   *)
(***************************************************************************)
EXTENDS Inquiries, TLC

\* handler invocations are interchangeable, and so are admins
Interchangeable == Permutations(Tasks) \cup Permutations(Admins)
=============================================================================
