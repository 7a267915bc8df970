------------------------- MODULE MCPaymentPipeline -------------------------
(* PaymentPipeline with symmetric worker slots, for model checking. *)
EXTENDS PaymentPipeline, TLC

WorkerSymmetry == Permutations(Workers)
=============================================================================
