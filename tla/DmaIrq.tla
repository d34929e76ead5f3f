------------------------------ MODULE DmaIrq ------------------------------
(***************************************************************************)
(* dma_irq_handler (firmware/demos/lwiperf/irq.c): the DMA interrupt,      *)
(* enabled for good by irq_init at boot, preempts the foreground at any   *)
(* instruction boundary while the interrupt FIFO is not empty.  The       *)
(* handler reads DMA_INT_ADDR until it reads 0x80000000 and writes 1 to    *)
(* DMA_CNT_RECV_PKT for every word with bit 31 set.  One loop iteration is *)
(* one step; the foreground does not run while inIrq holds.                *)
(***************************************************************************)
EXTENDS NanoDma

VARIABLE inIrq  \* the CPU is executing dma_irq_handler

irqVars == <<hwVars, inIrq>>

(* Mutant: the bit-31 test inverted, 1 written for finished sends.        *)
DmaIrqEventInverted ==
  /\ inIrq \/ irqq # <<>>
  /\ IntReadWord # EmptyWord
  /\ IntReadPop
  /\ cnt' = IF W!BitAnd(IntReadWord, EmptyWord) = W!Zero THEN W!FromNat(1) ELSE cnt
  /\ inIrq' = TRUE
  /\ UNCHANGED <<frameLen, arrived, rxq, tagq, rxdesc, txdesc, txq, mem, wireOut>>

(* One iteration: the word read is not the empty word.  Entering the       *)
(* handler is the first iteration; the interrupt is pending exactly when   *)
(* the FIFO is not empty.                                                  *)
DmaIrqEvent ==
  /\ inIrq \/ irqq # <<>>
  /\ IntReadWord # EmptyWord
  /\ IntReadPop
  /\ cnt' = IF W!BitAnd(IntReadWord, EmptyWord) # W!Zero THEN W!FromNat(1) ELSE cnt
  /\ inIrq' = TRUE
  /\ UNCHANGED <<frameLen, arrived, rxq, tagq, rxdesc, txdesc, txq, mem, wireOut>>

(* The read returns the empty word: the loop ends and the handler returns. *)
(* A finished receive whose first address has zero low 16 bits reads as   *)
(* this word too, and is popped and dropped here.                         *)
DmaIrqReturn ==
  /\ inIrq \/ irqq # <<>>
  /\ IntReadWord = EmptyWord
  /\ IntReadPop
  /\ inIrq' = FALSE
  /\ UNCHANGED <<frameLen, arrived, rxq, tagq, rxdesc, txdesc, txq, cnt, mem, wireOut>>

DmaIrqNext == DmaIrqEvent \/ DmaIrqReturn

=============================================================================
