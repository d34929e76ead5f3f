------------------------------ MODULE MC_Netif ------------------------------
(***************************************************************************)
(* One harness for the passing checks of the interrupt-driven firmware:   *)
(* rv_recv / rv_send under the MAC-swap loop (the constants of            *)
(* MC_RvNetif), the lwIP port (the constants of MC_LwipNetif_TxLen.cfg)    *)
(* and the console of the lwiperf build (Console).  Each driver has its   *)
(* own copy of the DMA engine's state, named r... and l...; a step stays  *)
(* within the family chosen at the start, so the states add up.  The      *)
(* violation runs keep using MC_RvNetif and MC_LwipNetif.                 *)
(***************************************************************************)
EXTENDS Naturals

CONSTANTS bPkt, pb1, pb2, pb3, tb1, tb2, mRecv, mSend, noFrame

VARIABLES
  family,
  rFrameLen, rArrived, rRxq, rTagq, rRxdesc, rTxdesc, rTxq, rIrqq, rCnt, rMem,
  rWireOut, rInIrq, rPc, rPktLen, rRxLog,
  lFrameLen, lArrived, lRxq, lTagq, lRxdesc, lTxdesc, lTxq, lIrqq, lCnt, lMem,
  lWireOut, lInIrq, lPc, lPktLen, lP, lQ, lFree, lStackHeld, lTxp, lRxLog, lTxLog,
  fgPc, fgOut, mie, ctx, rxFifo, rxLog, ticks, timer_irq_count, out

rVars == <<rFrameLen, rArrived, rRxq, rTagq, rRxdesc, rTxdesc, rTxq, rIrqq, rCnt, rMem,
           rWireOut, rInIrq, rPc, rPktLen, rRxLog>>
lVars == <<lFrameLen, lArrived, lRxq, lTagq, lRxdesc, lTxdesc, lTxq, lIrqq, lCnt, lMem,
           lWireOut, lInIrq, lPc, lPktLen, lP, lQ, lFree, lStackHeld, lTxp, lRxLog, lTxLog>>
cVars == <<fgPc, fgOut, mie, ctx, rxFifo, rxLog, ticks, timer_irq_count, out>>
allVars == <<family, rVars, lVars, cVars>>
lFg == <<lPc, lPktLen, lP, lQ, lFree, lStackHeld, lTxp, lRxLog, lTxLog>>

(* The addresses of MC_RvNetif and MC_LwipNetif.                           *)
RvAddr == [b \in {bPkt, mRecv, mSend} |->
             CASE b = mRecv -> <<0, 5120>> [] b = mSend -> <<0, 5136>>
               [] b = bPkt -> <<0, 8704>>]
LwipPool == {pb1, pb2, pb3}
LwipAddr == [b \in LwipPool \cup {tb1, tb2, mRecv, mSend} |->
               CASE b = mRecv -> <<0, 5120>> [] b = mSend -> <<0, 5136>>
                 [] b = pb1 -> <<0, 12288>> [] b = pb2 -> <<0, 12800>>
                 [] b = pb3 -> <<0, 13312>> [] b = tb1 -> <<0, 16384>>
                 [] b = tb2 -> <<0, 16896>>]

RV == INSTANCE RvNetif WITH
        NumFrames <- 3, FrameLens <- {44, 60}, Buffers <- {bPkt}, PktBuf <- bPkt,
        MetaRecv <- mRecv, MetaSend <- mSend, Addr <- RvAddr, NoFrame <- noFrame,
        TagAdvancesOnRead <- TRUE,
        frameLen <- rFrameLen, arrived <- rArrived, rxq <- rRxq, tagq <- rTagq,
        rxdesc <- rRxdesc, txdesc <- rTxdesc, txq <- rTxq, irqq <- rIrqq, cnt <- rCnt,
        mem <- rMem, wireOut <- rWireOut, inIrq <- rInIrq, pc <- rPc,
        pkt_len <- rPktLen, rxLog <- rRxLog

LW == INSTANCE LwipNetif WITH
        NumFrames <- 2, FrameLens <- {20, 44}, Buffers <- LwipPool \cup {tb1, tb2},
        PoolBufs <- LwipPool, PoolBufSize <- 32, StackHoldMax <- 1,
        TxChains <- {<<[buf |-> tb1, len |-> 14], [buf |-> tb2, len |-> 40]>>},
        ReplyInPlace <- TRUE, MetaRecv <- mRecv, MetaSend <- mSend, Addr <- LwipAddr,
        NoFrame <- noFrame, TagAdvancesOnRead <- FALSE,
        frameLen <- lFrameLen, arrived <- lArrived, rxq <- lRxq, tagq <- lTagq,
        rxdesc <- lRxdesc, txdesc <- lTxdesc, txq <- lTxq, irqq <- lIrqq, cnt <- lCnt,
        mem <- lMem, wireOut <- lWireOut, inIrq <- lInIrq, pc <- lPc,
        pkt_len <- lPktLen, p <- lP, q <- lQ, free <- lFree, stackHeld <- lStackHeld,
        txp <- lTxp, rxLog <- lRxLog, txLog <- lTxLog

(* The console with two UART bytes and the banner shortened to "Lw\n\r".   *)
CON == INSTANCE Console WITH
         UartBytes <- {97, 98}, Banner <- <<76, 119, 10, 13, 0>>, MaxRx <- 2, MaxTicks <- 2

(* The state a family keeps while the other one runs.                      *)
RvRest == RV!Init /\ rFrameLen = [f \in 1..3 |-> 44]
LwipRest == LW!Init /\ lFrameLen = [f \in 1..2 |-> 20]

Init ==
  \/ family = "rv" /\ RV!Init /\ LwipRest /\ CON!Init
  \/ family = "lwip" /\ LW!Init /\ RvRest /\ CON!Init
  \/ family = "console" /\ CON!Init /\ RvRest /\ LwipRest

(* A step of one family's own next-state relation.                         *)
RvStep(A) == family = "rv" /\ A /\ UNCHANGED <<family, lVars, cVars>>
LwipStep(A) == family = "lwip" /\ A /\ UNCHANGED <<family, rVars, cVars>>
ConStep(A) == family = "console" /\ A /\ UNCHANGED <<family, rVars, lVars>>

Next == RvStep(RV!Next) \/ LwipStep(LW!Next) \/ ConStep(CON!Next)

(* The fairness of each module's Spec, within its family.                  *)
Spec ==
  /\ Init /\ [][Next]_allVars
  /\ WF_allVars(RvStep(RV!Foreground)) /\ WF_allVars(RvStep(RV!Irq))
  /\ WF_allVars(RvStep(RV!RxDmaComplete /\ UNCHANGED <<rInIrq, rPc, rPktLen, rRxLog>>))
  /\ WF_allVars(RvStep(RV!TxDmaComplete /\ UNCHANGED <<rInIrq, rPc, rPktLen, rRxLog>>))
  /\ WF_allVars(LwipStep(LW!Foreground)) /\ WF_allVars(LwipStep(LW!Irq))
  /\ WF_allVars(LwipStep(LW!RxDmaComplete /\ UNCHANGED <<lInIrq, lFg>>))
  /\ WF_allVars(LwipStep(LW!TxDmaComplete /\ UNCHANGED <<lInIrq, lFg>>))
  /\ WF_allVars(ConStep(CON!IrqInit)) /\ WF_allVars(ConStep(CON!FgPutc))
  /\ WF_allVars(ConStep(CON!FgZero)) /\ WF_allVars(ConStep(CON!UartIrq))
  /\ WF_allVars(ConStep(CON!UartEcho)) /\ WF_allVars(ConStep(CON!UartReturn))

----------------------------------------------------------------------------
(* The properties, each on its own family; RvNetif, LwipNetif and Console  *)
(* state them in words.                                                     *)

(* rv_recv with dma_irq_handler implements FrameIO.  In the lwip family   *)
(* the r... state stays at RvNetif's initial state, which refines FrameIO *)
(* by stuttering, so the property is stated for every behaviour.          *)
RvFrameIORefined == RV!FrameIORefined

(* The engine never writes a free or lwIP-held pbuf.                        *)
NoDmaIntoReleasedPbuf == family = "lwip" => LW!NoDmaIntoReleasedPbuf

(* Every pool pbuf is in exactly one place.                                 *)
PoolConserved == family = "lwip" => LW!PoolConserved

(* ethernetif_input with low_level_input implements FrameIO's safety part *)
(* (likewise in every behaviour).                                          *)
LwipFrameIOSafe == LW!FrameIOSafe

(* Every byte the UART receives is eventually echoed.                      *)
EveryByteEchoed == CON!EveryByteEchoed

=============================================================================
