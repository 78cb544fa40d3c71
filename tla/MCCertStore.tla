----------------------------- MODULE MCCertStore -----------------------------
(***************************************************************************)
(* Small instances of CertStore for TLC: content 1 is a file that does not *)
(* parse, two handshakes and signals look at once.                         *)
(***************************************************************************)
EXTENDS CertStore
=============================================================================
