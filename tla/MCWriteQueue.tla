---------------------------- MODULE MCWriteQueue ----------------------------
(* Small instances of WriteQueue for TLC. *)
EXTENDS WriteQueue

\* A single setValue or removeValue, and the pair "write here, remove there".
MCBatches ==
    {<<w>> : w \in Write}
        \cup {<<w1, w2>> : w1 \in {w \in Write : w.val # None},
                            w2 \in {w \in Write : w.val = None}}
=============================================================================
