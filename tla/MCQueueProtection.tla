------------------------- MODULE MCQueueProtection -------------------------
(* QueueProtection with three flows that collide in both, one or no bucket. *)
EXTENDS QueueProtection, TLC
CONSTANTS f1, f2, f3

MCAttempted == f1 :> <<0, 1>> @@ f2 :> <<1, 0>> @@ f3 :> <<0, 0>>
=============================================================================
