---------------------------- MODULE MC_RvNetif ----------------------------
(***************************************************************************)
(* Model-checking instance of RvNetif: three frames of two lengths, the    *)
(* single receive buffer of main.c, and the buffer addresses.              *)
(***************************************************************************)
EXTENDS RvNetif

CONSTANTS bPkt, mRecv, mSend, noFrame

MCBuffers == {bPkt}

(* Word addresses in the data RAM: meta_buffer, meta_buffer_send and       *)
(* buf_recv_pkt on the stack.                                              *)
MCAddr == [b \in {bPkt, mRecv, mSend} |->
             CASE b = mRecv -> <<0, 5120>>
               [] b = mSend -> <<0, 5136>>
               [] b = bPkt  -> <<0, 8704>>]

MCFrameLens == {44, 60}

=============================================================================
