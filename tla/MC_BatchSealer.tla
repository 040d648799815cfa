--------------------------- MODULE MC_BatchSealer ---------------------------
(* Model-checking instance of BatchSealer: a batch of two sectors, the     *)
(* planner's batch_size as #[derive(Default)] leaves it, a release build.  *)
EXTENDS BatchSealer

CONSTANTS t1, t2

MCTickets == {t1, t2}
=============================================================================
