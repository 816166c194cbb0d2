-------------------------- MODULE MCCertificateRow --------------------------
(* Two edges, each with a task that persists its heartbeats.                 *)
EXTENDS CertificateRow

MCEdgeOf == <<1, 2>>
=============================================================================
