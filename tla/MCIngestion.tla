----------------------------- MODULE MCIngestion -----------------------------
(* Small instances of Ingestion for TLC. *)
EXTENDS Ingestion, TLC

CONSTANTS pr1, d1, d2, x1, x2, w1, w2

(* The third version of the pull request is over GitHub's file limit.     *)
ThirdTooLarge == {<<pr1, 3>>}
WorkerSymmetry == Permutations(Workers)
=============================================================================
