--------------------------- MODULE MCTransferJobs ---------------------------
(***************************************************************************)
(* Instances of TransferJobs for TLC: the kinds are given per job.          *)
(***************************************************************************)
EXTENDS TransferJobs, TLC

CONSTANTS t1, a1, p1, e1

KindOf == [j \in Jobs |->
             CASE j = t1 -> "transfer"
               [] j = a1 -> "attach"
               [] j = p1 -> "paste"
               [] OTHER -> "extract"]
=============================================================================
