------------------------------ MODULE MCQrLogin ------------------------------
(* QrLogin over one redirect and a short queue, for TLC. *)
EXTENDS QrLogin
=============================================================================
