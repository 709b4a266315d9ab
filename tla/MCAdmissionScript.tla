------------------------- MODULE MCAdmissionScript -------------------------
(* Four logical cpus, not hyperthreaded: every scenario of the script      *)
(* runs (it stops early below 4 cpus or with hyperthreading).              *)
EXTENDS AdmissionScript

\* the node of a 4-cpu host without hyperthreading, two-line format
MCNcpusNode == <<4, 4>>
=============================================================================
