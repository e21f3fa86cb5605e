--------------------------- MODULE MCRateCollector ---------------------------
(***************************************************************************)
(* RateCollector for TLC.  The names are those of a host with a SCSI disk, *)
(* its partition and an NVMe disk; none is configured unless a cfg says    *)
(* so, which stands for "all devices".                                     *)
(***************************************************************************)
EXTENDS RateCollector

EndsInDigit == Name \cap {"sda1", "nvme0n1"}
=============================================================================
