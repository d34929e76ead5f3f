------------------------------ MODULE RvNetif ------------------------------
(***************************************************************************)
(* rv_recv and rv_send (NanoCore-two-issue/.../netif/netif.c) driven by    *)
(* the MAC-swap echo loop of singleCore_Replace_MAC_Addr/src/main.c, with  *)
(* dma_irq_handler (DmaIrq) as the only writer of a non-zero completion    *)
(* count.  The foreground keeps one program counter; each register access  *)
(* that the hardware or the interrupt can observe in between is one step.  *)
(* A length write and the address write that latches it are one step: the *)
(* hardware acts on the address write only.                                *)
(***************************************************************************)
EXTENDS DmaIrq

CONSTANT PktBuf  \* buf_recv_pkt[2000] of main.c, the one frame buffer

ASSUME PktBuf \in Buffers

VARIABLES
  pc,       \* the foreground's position
  pkt_len,  \* pkt_len of rv_recv, returned as get_pkt_len, passed as len
  rxLog     \* history: [frame, len] of every frame rv_recv returned

vars == <<irqVars, pc, pkt_len, rxLog>>

PCs == {"poll", "reset", "arm_meta", "arm_pkt", "wait",
        "send_meta", "send_pkt", "send_end"}

TypeOK ==
  /\ HwTypeOK
  /\ inIrq \in BOOLEAN
  /\ pc \in PCs
  /\ pkt_len \in W!Word
  /\ rxLog \in Seq([frame : Frames \cup {NoFrame}, len : W!Word])

Init ==
  /\ HwInit
  /\ inIrq = FALSE
  /\ pc = "poll"
  /\ pkt_len = W!Zero
  /\ rxLog = <<>>

(* The foreground only runs while no interrupt handler does.               *)
Fg(from, to) ==
  /\ ~inIrq
  /\ pc = from
  /\ pc' = to

----------------------------------------------------------------------------
(* rv_recv                                                                 *)

(* The tag reads 0x80000000: rv_recv returns 0 and the loop polls again.  *)
RecvPollEmpty ==
  /\ Fg("poll", "poll")
  /\ TagWord = EmptyWord
  /\ UNCHANGED <<hwVars, inIrq, pkt_len, rxLog>>

(* A frame is pending: clear the completion count, take its length.       *)
RecvTagged ==
  /\ Fg("poll", "reset")
  /\ TagWord # EmptyWord
  /\ ReadTag
  /\ pkt_len' = W!BitAnd(TagWord, W!FromNat(65535))
  /\ UNCHANGED <<frameLen, arrived, rxq, rxdesc, txdesc, txq, irqq, cnt, mem,
                 wireOut, inIrq, rxLog>>

(* Mutant: DMA_CNT_RECV_PKT is not cleared before the descriptors.        *)
RecvResetCntSkipped ==
  /\ Fg("reset", "arm_meta")
  /\ UNCHANGED <<hwVars, inIrq, pkt_len, rxLog>>

RecvResetCnt ==
  /\ Fg("reset", "arm_meta")
  /\ cnt' = W!Zero
  /\ UNCHANGED <<frameLen, arrived, rxq, tagq, rxdesc, txdesc, txq, irqq, mem,
                 wireOut, inIrq, pkt_len, rxLog>>

RecvArmMeta ==
  /\ Fg("arm_meta", "arm_pkt")
  /\ WriteRecvDesc(W!FromNat(MetaLen), MetaRecv)
  /\ UNCHANGED <<frameLen, arrived, rxq, tagq, txdesc, txq, irqq, cnt, mem,
                 wireOut, inIrq, pkt_len, rxLog>>

RecvArmPkt ==
  /\ Fg("arm_pkt", "wait")
  /\ WriteRecvDesc(pkt_len, PktBuf)
  /\ UNCHANGED <<frameLen, arrived, rxq, tagq, txdesc, txq, irqq, cnt, mem,
                 wireOut, inIrq, pkt_len, rxLog>>

(* The spin on DMA_CNT_RECV_PKT ends; rv_recv returns pkt_len and main     *)
(* swaps the MAC addresses in the buffer (local to buf) and calls rv_send *)
(* when the length is positive.                                           *)
RecvWait ==
  /\ ~inIrq
  /\ pc = "wait"
  /\ cnt # W!Zero
  /\ pc' = IF pkt_len # W!Zero THEN "send_meta" ELSE "poll"
  /\ rxLog' = Append(rxLog, [frame |-> mem[PktBuf], len |-> pkt_len])
  /\ UNCHANGED <<hwVars, inIrq, pkt_len>>

----------------------------------------------------------------------------
(* rv_send: metadata descriptor, frame descriptor, terminator; no wait.    *)

(* The metadata word: pkt_len << 16 plus 0x10.                            *)
SendMetaWord(len) == W!Add(W!Shl(len, 16), W!FromNat(16))

SendMeta ==
  /\ Fg("send_meta", "send_pkt")
  /\ WriteSendDesc(SendMetaWord(pkt_len), MetaSend)
  /\ UNCHANGED <<frameLen, arrived, rxq, tagq, rxdesc, txq, irqq, cnt, mem,
                 wireOut, inIrq, pkt_len, rxLog>>

SendPkt ==
  /\ Fg("send_pkt", "send_end")
  /\ WriteSendDesc(pkt_len, PktBuf)
  /\ UNCHANGED <<frameLen, arrived, rxq, tagq, rxdesc, txq, irqq, cnt, mem,
                 wireOut, inIrq, pkt_len, rxLog>>

SendEnd ==
  /\ Fg("send_end", "poll")
  /\ WriteSendEnd
  /\ UNCHANGED <<frameLen, arrived, rxq, tagq, rxdesc, irqq, cnt, mem,
                 wireOut, inIrq, pkt_len, rxLog>>

----------------------------------------------------------------------------
Foreground ==
  \/ RecvPollEmpty \/ RecvTagged \/ RecvResetCnt \/ RecvArmMeta
  \/ RecvArmPkt \/ RecvWait \/ SendMeta \/ SendPkt \/ SendEnd

Hardware == HwNext /\ UNCHANGED <<inIrq, pc, pkt_len, rxLog>>
Irq == DmaIrqNext /\ UNCHANGED <<pc, pkt_len, rxLog>>

Next == Foreground \/ Irq \/ Hardware

(* The CPU keeps running the loop, a pending DMA interrupt is taken (it   *)
(* is enabled at boot and never masked), and the engine finishes a        *)
(* transfer it has descriptors for.  Frame arrival is the environment's.  *)
Spec ==
  /\ Init /\ [][Next]_vars
  /\ WF_vars(Foreground)
  /\ WF_vars(Irq)
  /\ WF_vars(RxDmaComplete /\ UNCHANGED <<inIrq, pc, pkt_len, rxLog>>)
  /\ WF_vars(TxDmaComplete /\ UNCHANGED <<inIrq, pc, pkt_len, rxLog>>)

----------------------------------------------------------------------------
(* Properties                                                              *)

(* Every frame that arrives is eventually handed to main by rv_recv: the   *)
(* busy-wait on DMA_CNT_RECV_PKT always ends.                             *)
EveryFrameReceived ==
  \A f \in Frames : (arrived >= f) ~> (Len(rxLog) >= f)

(* The receive path seen by main: the frames on the wire and the frames   *)
(* rv_recv has returned, with the word it returned as their length.       *)
FIO == INSTANCE FrameIO WITH
         Lens <- {W!FromNat(l) : l \in FrameLens},
         frameLen <- [f \in Frames |-> W!FromNat(frameLen[f])],
         delivered <- rxLog

(* rv_recv with dma_irq_handler implements FrameIO: every frame it returns *)
(* is the oldest one not yet returned, completely written, with its own   *)
(* length, and every frame that arrives is returned: the completion count *)
(* is cleared before the descriptors are armed, only the handler's 1 for  *)
(* this frame ends the spin, and the spin always ends.                    *)
FrameIORefined == FIO!Spec

(* The echo transmits each received frame, in order: the engine reads     *)
(* buf_recv_pkt for the i-th transmission while it still holds the i-th   *)
(* received frame.                                                        *)
EchoIntegrity ==
  \A i \in 1..Len(wireOut) :
    i <= Len(rxLog) /\ wireOut[i].data = <<rxLog[i].frame>>

=============================================================================
