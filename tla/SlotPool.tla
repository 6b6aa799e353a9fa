------------------------------ MODULE SlotPool ------------------------------
(***************************************************************************)
(* What the transfer gate promises (maxConcurrentTransfers, acquireTransfer *)
(* and releaseTransfer of internal/service/file_service.go): a job is       *)
(* admitted only while fewer than Slots jobs are in, it leaves once, and a  *)
(* job that gives up while it queues was never in.                          *)
(***************************************************************************)
EXTENDS Naturals, FiniteSets

CONSTANTS Jobs, Slots

VARIABLE phase  \* phase[j]: "out", "queued", "in" or "left"

Inside == {j \in Jobs : phase[j] = "in"}

Init == phase = [j \in Jobs |-> "out"]

Goes(j, from, to) == phase[j] = from /\ phase' = [phase EXCEPT ![j] = to]

Enter(j) == Cardinality(Inside) < Slots /\ Goes(j, "queued", "in")

Next == \E j \in Jobs :
          \/ Goes(j, "out", "queued") \/ Goes(j, "out", "left")
          \/ Enter(j)
          \/ Goes(j, "queued", "left")
          \/ Goes(j, "in", "left")

Spec == Init /\ [][Next]_phase
=============================================================================
