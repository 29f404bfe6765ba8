----------------------------- MODULE MCHostScan -----------------------------
(***************************************************************************)
(* Instances of HostScan for TLC.                                          *)
(***************************************************************************)
EXTENDS HostScan

\* Scans compete for the slots, a batch meets a full buffer, and a scan is
\* forgotten whose messages may still come.
ASSUME InstanceAssumption ==
    /\ Cardinality(Scan) > MaxScans
    /\ Batches > EventLimit
    /\ RetiredLimit < Cardinality(Scan)
=============================================================================
