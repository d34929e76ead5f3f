------------------------------ MODULE NanoDma ------------------------------
(***************************************************************************)
(* The packet DMA engine of NanoCore as the firmware sees it: the register *)
(* block at 0x1007xxxx (DMA_ registers of firmware.h) and what the       *)
(* engine does behind it.  The RTL is not part of the C sources, so the    *)
(* hardware's behaviour is taken from the register comments in firmware.h and from    *)
(* the specification (sections 3, 4.1 and 6):                              *)
(*   - DMA_TAG_ADDR reads 0x80000000 when no frame is pending, otherwise   *)
(*     the pending frame's length in its low 16 bits; the specification  *)
(*     says a read advances it, firmware.h does not (TagAdvancesOnRead);  *)
(*   - a write to DMA_RECV_ADDR_ADDR latches one receive descriptor with   *)
(*     the length last written to DMA_RECV_LEN_ADDR; the engine puts the   *)
(*     16-byte metadata in the first descriptor of a frame and the frame   *)
(*     bytes in the following ones until the frame's length is covered;    *)
(*   - writes to DMA_SEND_LEN_ADDR/DMA_SEND_ADDR_ADDR build a transmit     *)
(*     descriptor list that the address 0x80000000 closes; the engine      *)
(*     reads the buffers later, when it transmits the frame;               *)
(*   - each finished transfer pushes a word into the FIFO read at          *)
(*     DMA_INT_ADDR and raises the DMA interrupt: bit 31 set for a         *)
(*     finished receive, clear for a finished send, and the start       *)
(*     address of the transfer in bits 30:0 (firmware.h:98); the FIFO     *)
(*     reads 0x80000000 when empty.                                        *)
(*   - DMA_CNT_RECV_PKT is a plain shared register the hardware never      *)
(*     writes.                                                             *)
(* Buffer contents are abstracted to the identity of the frame last        *)
(* written into the buffer.                                                *)
(***************************************************************************)
EXTENDS Naturals, Sequences, SequencesExt, FiniteSets

(* uint32_t registers and values.                                          *)
W == INSTANCE Words WITH HalfBits <- 16

CONSTANTS
  NumFrames,   \* frames the wire offers during a behaviour
  FrameLens,   \* the byte lengths a frame may have
  Buffers,     \* frame buffers the firmware can hand to the engine
  MetaRecv,    \* meta_buffer (netif.c:13, riscvnetif.c:65)
  MetaSend,    \* meta_buffer_send / meta_send_buffer (netif.c:14, riscvnetif.c:66)
  Addr,        \* the address of every buffer
  NoFrame,     \* content of a buffer no frame was written to
  TagAdvancesOnRead  \* a read of DMA_TAG_ADDR moves it to the next frame

ASSUME NumFrames \in Nat \ {0}
ASSUME TagAdvancesOnRead \in BOOLEAN
ASSUME FrameLens \subseteq 1..65535
ASSUME {MetaRecv, MetaSend} \cap Buffers = {}
ASSUME \A b \in Buffers \cup {MetaRecv, MetaSend} : Addr[b] \in W!Word

Frames == 1..NumFrames

(* 0x80000000: the empty tag, the empty interrupt FIFO, and the address    *)
(* that closes a transmit descriptor list.                                 *)
EmptyWord == W!TopBit

(* Length of the metadata prefix, META_LEN (riscvnetif.c:60).              *)
MetaLen == 16

VARIABLES
  frameLen,  \* frameLen[f]: length of frame f (fixed for the behaviour)
  arrived,   \* number of frames that have arrived from the wire
  rxq,       \* frames held by the NIC, not yet written to memory
  tagq,      \* frames whose tag has not been read from DMA_TAG_ADDR
  rxdesc,    \* receive descriptors latched and not yet used
  txdesc,    \* the transmit descriptor list being written
  txq,       \* closed transmit descriptor lists not yet transmitted
  irqq,      \* the interrupt FIFO behind DMA_INT_ADDR
  cnt,       \* the register DMA_CNT_RECV_PKT
  mem,       \* mem[b]: the frame last written into buffer b
  wireOut    \* frames the engine has transmitted, as read from memory

hwVars == <<frameLen, arrived, rxq, tagq, rxdesc, txdesc, txq, irqq, cnt,
            mem, wireOut>>

Desc == [len : W!Word, buf : Buffers \cup {MetaRecv, MetaSend}]
Event == [kind : {"recv", "send"}, addr : W!Word]

HwTypeOK ==
  /\ frameLen \in [Frames -> FrameLens]
  /\ arrived \in 0..NumFrames
  /\ rxq \in Seq(Frames) /\ tagq \in Seq(Frames)
  /\ rxdesc \in Seq(Desc) /\ txdesc \in Seq(Desc) /\ txq \in Seq(Seq(Desc))
  /\ irqq \in Seq(Event)
  /\ cnt \in W!Word
  /\ mem \in [Buffers -> Frames \cup {NoFrame}]
  /\ wireOut \in Seq([meta : W!Word, data : Seq(Frames \cup {NoFrame})])

HwInit ==
  /\ frameLen \in [Frames -> FrameLens]
  /\ arrived = 0
  /\ rxq = <<>> /\ tagq = <<>>
  /\ rxdesc = <<>> /\ txdesc = <<>> /\ txq = <<>>
  /\ irqq = <<>>
  /\ cnt = W!Zero
  /\ mem = [b \in Buffers |-> NoFrame]
  /\ wireOut = <<>>

----------------------------------------------------------------------------
(* Register reads and writes the firmware performs.                        *)

(* The word read from DMA_TAG_ADDR.                                        *)
TagWord == IF tagq = <<>> THEN EmptyWord ELSE W!FromNat(frameLen[Head(tagq)])

(* The word the interrupt FIFO holds for event e: bit 31 the kind, bits   *)
(* 30:0 the start address (DMA_INT_ADDR in firmware.h).                    *)
IntWord(e) ==
  LET kind == IF e.kind = "recv" THEN W!Hi(EmptyWord) ELSE 0
  IN  << kind + (W!Hi(e.addr) % W!Hi(EmptyWord)), W!Lo(e.addr) >>

(* The word read from DMA_INT_ADDR; a read pops a non-empty FIFO.          *)
IntReadWord == IF irqq = <<>> THEN EmptyWord ELSE IntWord(Head(irqq))
IntReadPop == irqq' = IF irqq = <<>> THEN irqq ELSE Tail(irqq)

(* A read of DMA_TAG_ADDR; it advances past the frame it reports, or the  *)
(* tag keeps reporting that frame until the engine has written it.        *)
ReadTag == tagq' = IF TagAdvancesOnRead /\ tagq # <<>> THEN Tail(tagq) ELSE tagq

(* DMA_RECV_LEN_ADDR := len; DMA_RECV_ADDR_ADDR := Addr[buf]               *)
WriteRecvDesc(len, buf) ==
  rxdesc' = Append(rxdesc, [len |-> len, buf |-> buf])

(* DMA_SEND_LEN_ADDR := len; DMA_SEND_ADDR_ADDR := Addr[buf]               *)
WriteSendDesc(len, buf) ==
  txdesc' = Append(txdesc, [len |-> len, buf |-> buf])

(* DMA_SEND_ADDR_ADDR := 0x80000000 closes the list.                       *)
WriteSendEnd ==
  /\ txq' = Append(txq, txdesc)
  /\ txdesc' = <<>>

----------------------------------------------------------------------------
(* What the hardware does on its own.                                      *)

(* A frame arrives from the wire; the NIC reports its tag.                 *)
FrameArrives ==
  /\ arrived < NumFrames
  /\ arrived' = arrived + 1
  /\ rxq' = Append(rxq, arrived + 1)
  /\ tagq' = Append(tagq, arrived + 1)
  /\ UNCHANGED <<frameLen, rxdesc, txdesc, txq, irqq, cnt, mem, wireOut>>

(* Bytes covered by the frame descriptors rxdesc[2..k]; the engine takes  *)
(* the low 16 bits of a length word.                                      *)
Covered(k) == FoldLeft(LAMBDA acc, d : acc + W!Lo(d.len), 0, SubSeq(rxdesc, 2, k))

(* The engine writes the head frame into the metadata descriptor and the   *)
(* fewest following descriptors that hold it, and reports the finished    *)
(* receive with the address of the first descriptor.                      *)
RxDmaComplete ==
  /\ rxq # <<>>
  /\ \E k \in 2..Len(rxdesc) :
       /\ Covered(k) >= frameLen[Head(rxq)]
       /\ Covered(k - 1) < frameLen[Head(rxq)]
       /\ LET used == {SubSeq(rxdesc, 2, k)[i].buf : i \in 1..(k - 1)}
          IN mem' = [b \in Buffers |-> IF b \in used THEN Head(rxq) ELSE mem[b]]
       /\ rxdesc' = SubSeq(rxdesc, k + 1, Len(rxdesc))
  /\ rxq' = Tail(rxq)
  /\ tagq' = IF TagAdvancesOnRead THEN tagq ELSE Tail(tagq)
  /\ irqq' = Append(irqq, [kind |-> "recv", addr |-> Addr[rxdesc[1].buf]])
  /\ UNCHANGED <<frameLen, arrived, txdesc, txq, cnt, wireOut>>

(* The engine transmits the oldest closed list, reading its buffers now,   *)
(* and reports the finished send.                                          *)
TxDmaComplete ==
  /\ txq # <<>>
  /\ LET chain == Head(txq)
     IN /\ wireOut' = Append(wireOut,
              [meta |-> chain[1].len,
               data |-> [i \in 1..(Len(chain) - 1) |-> mem[chain[i + 1].buf]]])
        /\ irqq' = Append(irqq, [kind |-> "send", addr |-> Addr[chain[1].buf]])
  /\ txq' = Tail(txq)
  /\ UNCHANGED <<frameLen, arrived, rxq, tagq, rxdesc, txdesc, cnt, mem>>

HwNext == FrameArrives \/ RxDmaComplete \/ TxDmaComplete

----------------------------------------------------------------------------
(* Properties of the transmit descriptor lists the firmware hands over.    *)

(* Total length of the frame descriptors of a transmit list.               *)
FragTotal(chain) == FoldLeft(LAMBDA acc, d : acc + W!Lo(d.len), 0, Tail(chain))

(* Every closed transmit list starts with a metadata descriptor whose low *)
(* 16 bits are the metadata length and whose high 16 bits are the total   *)
(* length of the frame descriptors that follow it (rv_send's encoding).   *)
TxMetaDescribesFrame ==
  \A i \in 1..Len(txq) :
    /\ W!Lo(txq[i][1].len) = MetaLen
    /\ W!Hi(txq[i][1].len) = FragTotal(txq[i])

=============================================================================
