--------------------------- MODULE MC_LwipNetif ---------------------------
(***************************************************************************)
(* Model-checking instance of LwipNetif: frames of 20 or 44 bytes (the    *)
(* cfgs fix how many), a pool of three 32-byte pbufs (a 44-byte frame      *)
(* takes a chain of two, so allocation fails while lwIP keeps a chain),    *)
(* and a 54-byte transmit chain: a 14-byte header pbuf and a 40-byte       *)
(* payload pbuf.                                                           *)
(***************************************************************************)
EXTENDS LwipNetif

CONSTANTS pb1, pb2, pb3, tb1, tb2, mRecv, mSend, noFrame

MCPoolBufs == {pb1, pb2, pb3}
MCBuffers == MCPoolBufs \cup {tb1, tb2}

MCAddr == [b \in MCBuffers \cup {mRecv, mSend} |->
             CASE b = mRecv -> <<0, 5120>>
               [] b = mSend -> <<0, 5136>>
               [] b = pb1   -> <<0, 12288>>
               [] b = pb2   -> <<0, 12800>>
               [] b = pb3   -> <<0, 13312>>
               [] b = tb1   -> <<0, 16384>>
               [] b = tb2   -> <<0, 16896>>]

MCFrameLens == {20, 44}

MCTxChains == { <<[buf |-> tb1, len |-> 14], [buf |-> tb2, len |-> 40]>> }

=============================================================================
