---------------------------- MODULE MCEmbedWorker ----------------------------
(* Four symbols, two of which have the same text; a channel for two jobs,  *)
(* batches of up to three.                                                 *)
EXTENDS EmbedWorker

CONSTANTS j1, j2, j3, j4, t1, t2, t3

MCJob == {j1, j2, j3, j4}
MCText == {t1, t2, t3}
MCTextOf == [j \in MCJob |-> IF j \in {j1, j2} THEN t1 ELSE IF j = j3 THEN t2 ELSE t3]
MCFaultSets == { {}, {"fails", "busy"}, {"short"}, {"cancel"}, {"kill"} }
=============================================================================
