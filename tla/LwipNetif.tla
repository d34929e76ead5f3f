----------------------------- MODULE LwipNetif -----------------------------
(***************************************************************************)
(* The lwIP port (firmware/demos/lwiperf/lwip_v213/contrib/ports/riscv/    *)
(* netif/riscvnetif.c): ethernetif_input, called forever by the main loop *)
(* of lwiperf/main.c, with low_level_input receiving a frame into a pbuf   *)
(* chain from PBUF_POOL and low_level_output transmitting a pbuf chain     *)
(* when lwIP answers from inside netif->input.  dma_irq_handler (DmaIrq)   *)
(* ends the completion wait.                                               *)
(* lwIP itself is not modelled: pbuf_alloc takes the fewest pool buffers  *)
(* of PoolBufSize bytes that hold the frame or fails when the pool has too *)
(* few free; netif->input either accepts the chain or the driver frees it; *)
(* an accepted chain is freed at once or kept (out-of-sequence queue,      *)
(* application) and released later; with ReplyInPlace, lwIP may answer in *)
(* the received chain itself and free it once low_level_output returns,    *)
(* as icmp_input of lwIP 2.1.3 does for an echo request.                  *)
(***************************************************************************)
EXTENDS DmaIrq, Functions

CONSTANTS
  PoolBufs,      \* the pbufs of PBUF_POOL
  PoolBufSize,   \* bytes of frame one pool pbuf holds
  StackHoldMax,  \* chains lwIP may keep after netif->input returns
  TxChains,      \* pbuf chains lwIP may pass to low_level_output
  ReplyInPlace   \* whether lwIP may answer a frame in its own pbuf chain

ASSUME PoolBufs \subseteq Buffers
ASSUME PoolBufSize \in Nat \ {0}
ASSUME StackHoldMax \in Nat
ASSUME ReplyInPlace \in BOOLEAN
ASSUME \A c \in TxChains :
         /\ c \in Seq([buf : Buffers \ PoolBufs, len : 1..65535])
         /\ Len(c) >= 1

VARIABLES
  pc,         \* the foreground's position
  pkt_len,    \* pkt_len of ethernetif_input (u16_t), the len of low_level_input
  p,          \* the pbuf chain being received, <<>> for NULL
  q,          \* index of the pbuf q in the descriptor loops
  free,       \* pool pbufs not allocated
  stackHeld,  \* chains (sets of pbufs) lwIP still holds
  txp,        \* the chain low_level_output is transmitting
  rxLog,      \* history: [frames, len] of every chain whose wait ended
  txLog       \* history: the frames in each transmitted chain when it was queued

vars == <<irqVars, pc, pkt_len, p, q, free, stackHeld, txp, rxLog, txLog>>
fgVars == <<pc, pkt_len, p, q, free, stackHeld, txp, rxLog, txLog>>

PCs == {"poll", "reset", "alloc", "arm_meta", "arm_pbuf", "wait", "dispatch",
        "out_meta", "out_pbuf", "out_end"}

Pbuf == [buf : Buffers, len : 0..65535]

ChainBufs(c) == {c[i].buf : i \in DOMAIN c}

TypeOK ==
  /\ HwTypeOK
  /\ inIrq \in BOOLEAN
  /\ pc \in PCs
  /\ pkt_len \in W!Word
  /\ p \in Seq(Pbuf) /\ txp \in Seq(Pbuf)
  /\ q \in 1..(Cardinality(PoolBufs) + 1) \cup DOMAIN txp
  /\ free \subseteq PoolBufs
  /\ stackHeld \subseteq SUBSET PoolBufs
  /\ rxLog \in Seq([frames : SUBSET (Frames \cup {NoFrame}), len : W!Word])
  /\ txLog \in Seq(Seq(Frames \cup {NoFrame}))

Init ==
  /\ HwInit
  /\ inIrq = FALSE
  /\ pc = "poll"
  /\ pkt_len = W!Zero
  /\ p = <<>> /\ q = 1 /\ txp = <<>>
  /\ free = PoolBufs
  /\ stackHeld = {}
  /\ rxLog = <<>> /\ txLog = <<>>

Fg(from, to) ==
  /\ ~inIrq
  /\ pc = from
  /\ pc' = to

----------------------------------------------------------------------------
(* ethernetif_input                                                        *)

(* The tag reads 0x80000000: return, and the main loop calls again.       *)
InputPollEmpty ==
  /\ Fg("poll", "poll")
  /\ TagWord = EmptyWord
  /\ UNCHANGED <<hwVars, inIrq, pkt_len, p, q, free, stackHeld, txp, rxLog, txLog>>

(* A frame is pending: keep its length.                                    *)
InputTagged ==
  /\ Fg("poll", "reset")
  /\ TagWord # EmptyWord
  /\ ReadTag
  /\ pkt_len' = W!BitAnd(TagWord, W!FromNat(65535))
  /\ UNCHANGED <<frameLen, arrived, rxq, rxdesc, txdesc, txq, irqq, cnt, mem,
                 wireOut, inIrq, p, q, free, stackHeld, txp, rxLog, txLog>>

(* Mutant: DMA_CNT_RECV_PKT is not cleared before the descriptors.        *)
InputResetCntSkipped ==
  /\ Fg("reset", "alloc")
  /\ UNCHANGED <<hwVars, inIrq, pkt_len, p, q, free, stackHeld, txp, rxLog, txLog>>

InputResetCnt ==
  /\ Fg("reset", "alloc")
  /\ cnt' = W!Zero
  /\ UNCHANGED <<frameLen, arrived, rxq, tagq, rxdesc, txdesc, txq, irqq, mem,
                 wireOut, inIrq, pkt_len, p, q, free, stackHeld, txp, rxLog, txLog>>

(* The pbuf lengths pbuf_alloc(PBUF_RAW, len, PBUF_POOL) gives a chain.    *)
PoolChainLens(len) ==
  LET n == (len + PoolBufSize - 1) \div PoolBufSize
  IN  [i \in 1..n |-> IF i < n THEN PoolBufSize ELSE len - (n - 1) * PoolBufSize]

(* low_level_input: pbuf_alloc succeeds.                                   *)
LowLevelInputAlloc ==
  /\ Fg("alloc", "arm_meta")
  /\ LET lens == PoolChainLens(W!Lo(pkt_len))
     IN  \E sel \in [DOMAIN lens -> free] :
           /\ IsInjective(sel)
           /\ p' = [i \in DOMAIN lens |-> [buf |-> sel[i], len |-> lens[i]]]
           /\ free' = free \ Range(sel)
  /\ UNCHANGED <<hwVars, inIrq, pkt_len, q, stackHeld, txp, rxLog, txLog>>

(* pbuf_alloc returns NULL: low_level_input arms nothing and               *)
(* ethernetif_input returns ("get pbuf error"), the frame left behind.     *)
LowLevelInputAllocFail ==
  /\ Fg("alloc", "poll")
  /\ Cardinality(free) < Len(PoolChainLens(W!Lo(pkt_len)))
  /\ UNCHANGED <<hwVars, inIrq, pkt_len, p, q, free, stackHeld, txp, rxLog, txLog>>

LowLevelInputArmMeta ==
  /\ Fg("arm_meta", "arm_pbuf")
  /\ WriteRecvDesc(W!FromNat(MetaLen), MetaRecv)
  /\ q' = 1
  /\ UNCHANGED <<frameLen, arrived, rxq, tagq, txdesc, txq, irqq, cnt, mem,
                 wireOut, inIrq, pkt_len, p, free, stackHeld, txp, rxLog, txLog>>

(* One iteration of for (q = p; q != NULL; q = q->next).                  *)
LowLevelInputArmPbuf ==
  /\ Fg("arm_pbuf", IF q = Len(p) THEN "wait" ELSE "arm_pbuf")
  /\ WriteRecvDesc(W!FromNat(p[q].len), p[q].buf)
  /\ q' = q + 1
  /\ UNCHANGED <<frameLen, arrived, rxq, tagq, txdesc, txq, irqq, cnt, mem,
                 wireOut, inIrq, pkt_len, p, free, stackHeld, txp, rxLog, txLog>>

(* Mutant: no wait for the DMA (the "TODO, do not need to wait dma" of    *)
(* ethernetif_input): the chain is dispatched at once.                    *)
InputWaitNoSpin ==
  /\ Fg("wait", "dispatch")
  /\ rxLog' = Append(rxLog, [frames |-> {mem[b] : b \in ChainBufs(p)},
                             len |-> pkt_len])
  /\ UNCHANGED <<hwVars, inIrq, pkt_len, p, q, free, stackHeld, txp, txLog>>

(* The spin on DMA_CNT_RECV_PKT ends.                                      *)
InputWait ==
  /\ Fg("wait", "dispatch")
  /\ cnt # W!Zero
  /\ rxLog' = Append(rxLog, [frames |-> {mem[b] : b \in ChainBufs(p)},
                             len |-> pkt_len])
  /\ UNCHANGED <<hwVars, inIrq, pkt_len, p, q, free, stackHeld, txp, txLog>>

(* IP or ARP and netif->input returns ERR_OK: lwIP owns the chain, frees   *)
(* it or keeps it, and may transmit through low_level_output before it    *)
(* returns.  lwIP runs only inside netif->input (main drives no timer), so *)
(* this is also the only place where it lets go of chains it kept before  *)
(* (rel): a segment that fills a gap of the out-of-sequence queue, or the *)
(* application consuming received data.                                   *)
InputDeliver ==
  /\ ~inIrq
  /\ pc = "dispatch"
  /\ \E rel \in SUBSET stackHeld :
       LET kept == stackHeld \ rel
       IN  \/ /\ free' = free \cup UNION rel \cup ChainBufs(p)
              /\ stackHeld' = kept
           \/ /\ Cardinality(kept) < StackHoldMax
              /\ stackHeld' = kept \cup {ChainBufs(p)}
              /\ free' = free \cup UNION rel
  /\ \/ /\ pc' = "poll"
        /\ UNCHANGED txp
     \/ \E c \in TxChains : pc' = "out_meta" /\ txp' = c
  /\ p' = <<>>
  /\ UNCHANGED <<hwVars, inIrq, pkt_len, q, rxLog, txLog>>

(* IP and netif->input answers in the received chain (an ICMP echo reply): *)
(* low_level_output transmits p, which lwIP frees only after it returns.  *)
InputReplyInPlace ==
  /\ ReplyInPlace
  /\ Fg("dispatch", "out_meta")
  /\ txp' = p
  /\ UNCHANGED <<hwVars, inIrq, pkt_len, p, q, free, stackHeld, rxLog, txLog>>

(* Mutant: the chain is dropped without pbuf_free.                         *)
InputDropNoFree ==
  /\ Fg("dispatch", "poll")
  /\ p' = <<>>
  /\ UNCHANGED <<hwVars, inIrq, pkt_len, q, free, stackHeld, txp, rxLog, txLog>>

(* Any other ethertype, or netif->input fails: pbuf_free(p).               *)
InputDrop ==
  /\ Fg("dispatch", "poll")
  /\ free' = free \cup ChainBufs(p)
  /\ p' = <<>>
  /\ UNCHANGED <<hwVars, inIrq, pkt_len, q, stackHeld, txp, rxLog, txLog>>

----------------------------------------------------------------------------
(* low_level_output                                                        *)

(* The metadata word: META_LEN + ((tot_len << 28) >> 12).                 *)
OutputMetaWord(totLen) ==
  W!Add(W!FromNat(MetaLen), W!Shr(W!Shl(W!FromNat(totLen), 28), 12))

LowLevelOutputMeta ==
  /\ Fg("out_meta", "out_pbuf")
  /\ WriteSendDesc(OutputMetaWord(FoldLeft(LAMBDA acc, d : acc + d.len, 0, txp)),
                   MetaSend)
  /\ q' = 1
  /\ UNCHANGED <<frameLen, arrived, rxq, tagq, rxdesc, txq, irqq, cnt, mem,
                 wireOut, inIrq, pkt_len, p, free, stackHeld, txp, rxLog, txLog>>

(* The first pbuf, then one iteration of while (q != NULL).               *)
LowLevelOutputPbuf ==
  /\ Fg("out_pbuf", IF q = Len(txp) THEN "out_end" ELSE "out_pbuf")
  /\ WriteSendDesc(W!FromNat(txp[q].len), txp[q].buf)
  /\ q' = q + 1
  /\ UNCHANGED <<frameLen, arrived, rxq, tagq, rxdesc, txq, irqq, cnt, mem,
                 wireOut, inIrq, pkt_len, p, free, stackHeld, txp, rxLog, txLog>>

(* DMA_SEND_ADDR_ADDR := 0x80000000 and ERR_OK, without waiting for the     *)
(* engine; lwIP frees a chain it answered in (pbuf_free after             *)
(* ip4_output_if), and ethernetif_input returns.                           *)
LowLevelOutputEnd ==
  /\ Fg("out_end", "poll")
  /\ WriteSendEnd
  /\ txLog' = Append(txLog, [i \in DOMAIN txp |-> mem[txp[i].buf]])
  /\ txp' = <<>>
  /\ free' = free \cup ChainBufs(p)
  /\ p' = <<>>
  /\ UNCHANGED <<frameLen, arrived, rxq, tagq, rxdesc, irqq, cnt, mem,
                 wireOut, inIrq, pkt_len, q, stackHeld, rxLog>>

----------------------------------------------------------------------------
Foreground ==
  \/ InputPollEmpty \/ InputTagged \/ InputResetCnt
  \/ LowLevelInputAlloc \/ LowLevelInputAllocFail
  \/ LowLevelInputArmMeta \/ LowLevelInputArmPbuf \/ InputWait
  \/ InputDeliver \/ InputReplyInPlace \/ InputDrop
  \/ LowLevelOutputMeta \/ LowLevelOutputPbuf \/ LowLevelOutputEnd

Hardware == HwNext /\ UNCHANGED <<inIrq, fgVars>>
Irq == DmaIrqNext /\ UNCHANGED fgVars

Next == Foreground \/ Irq \/ Hardware

(* As for RvNetif.  Nothing makes lwIP let go of a kept chain on its own: *)
(* it does so only in InputDeliver, a step of the foreground.             *)
Spec ==
  /\ Init /\ [][Next]_vars
  /\ WF_vars(Foreground)
  /\ WF_vars(Irq)
  /\ WF_vars(RxDmaComplete /\ UNCHANGED <<inIrq, fgVars>>)
  /\ WF_vars(TxDmaComplete /\ UNCHANGED <<inIrq, fgVars>>)

----------------------------------------------------------------------------
(* Properties                                                              *)

(* A latched receive descriptor only ever points into the chain the driver *)
(* is receiving: the engine never writes a pbuf that is free or that lwIP  *)
(* owns.                                                                   *)
NoDmaIntoReleasedPbuf ==
  \A i \in 1..Len(rxdesc) :
    rxdesc[i].buf \in PoolBufs => rxdesc[i].buf \in ChainBufs(p)

(* Every pool pbuf is in exactly one place: free, in the chain being       *)
(* received, or held by lwIP.                                              *)
PoolConserved ==
  LET held == UNION stackHeld
  IN  /\ free \cup ChainBufs(p) \cup held = PoolBufs
      /\ free \cap ChainBufs(p) = {}
      /\ free \cap held = {}
      /\ ChainBufs(p) \cap held = {}
      /\ \A c1, c2 \in stackHeld : c1 # c2 => c1 \cap c2 = {}

(* The engine transmits what low_level_output queued: each buffer of the  *)
(* i-th transmitted chain still holds the frame it held when the list was *)
(* closed, although the driver returns before the engine reads it.        *)
TxSendsQueuedData ==
  \A i \in 1..Len(wireOut) : i <= Len(txLog) /\ wireOut[i].data = txLog[i]

(* Every frame that arrives is eventually received into a pbuf chain.     *)
EveryFrameReceived ==
  \A f \in Frames : (arrived >= f) ~> (Len(rxLog) >= f)

(* The one frame a received chain holds, or NoFrame for a chain holding   *)
(* none or parts of several.                                               *)
OneFrame(S) == IF \E x \in S : S = {x} THEN CHOOSE x \in S : TRUE ELSE NoFrame

(* The receive path seen by lwIP: the frames on the wire and the chains    *)
(* ethernetif_input has finished waiting for, with pkt_len as length.     *)
FIO == INSTANCE FrameIO WITH
         Lens <- {W!FromNat(l) : l \in FrameLens},
         frameLen <- [f \in Frames |-> W!FromNat(frameLen[f])],
         delivered <- [i \in DOMAIN rxLog |->
                         [frame |-> OneFrame(rxLog[i].frames), len |-> rxLog[i].len]]

(* ethernetif_input with low_level_input implements the safety part of   *)
(* FrameIO: each chain it hands on holds exactly the oldest frame not yet  *)
(* handed on, with its length, whatever pbuf_alloc does.  That every frame *)
(* is handed on is not claimed: see EveryFrameReceived.                    *)
FrameIOSafe == FIO!SafeSpec

(* The chain low_level_input arms is sized for the frame the engine will   *)
(* write into it: from the tag read until the wait ends, pkt_len is the    *)
(* length of the oldest frame the NIC still holds.                         *)
ArmedForHeadFrame ==
  pc \in {"reset", "alloc", "arm_meta", "arm_pbuf", "wait"} /\ rxq # <<>>
    => W!Lo(pkt_len) = frameLen[Head(rxq)]

=============================================================================
