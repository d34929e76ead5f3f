------------------------------ MODULE Console ------------------------------
(***************************************************************************)
(* The console side of the lwiperf firmware: main's boot (irq_init, the    *)
(* banner printf, timer_irq_count = 0) and the two interrupt handlers of  *)
(* irq.c that print, uart_irq_handler (uart_echo) and time_irq_handler.   *)
(* All of them write to OUTPORT through printf, which does not mask       *)
(* interrupts (its __irq_save is commented out), so a handler may run     *)
(* between any two bytes the foreground prints.  A handler itself is not  *)
(* interrupted: the core clears mstatus.MIE on trap entry and mret sets it *)
(* again.  out is what reaches OUTPORT, each byte tagged with the context *)
(* that wrote it; the tag is a ghost for the properties.                  *)
(***************************************************************************)
EXTENDS Naturals, Sequences, SequencesExt

CONSTANTS
  UartBytes,   \* the bytes the UART may receive
  Banner,      \* the bytes of main's first format string, NUL-terminated
  MaxRx,       \* bytes the UART receives during a behaviour
  MaxTicks     \* timer interrupts during a behaviour

SL == INSTANCE SystemLib
W == INSTANCE Words WITH HalfBits <- 16

(* "%c\r\n" of uart_echo and "cnt: %d\n\r" of time_irq_handler.            *)
EchoFmt == <<37, 99, 13, 10, 0>>
CntFmt == <<99, 110, 116, 58, 32, 37, 100, 10, 13, 0>>

VARIABLES
  fgPc,             \* where main is: "init", "banner", "loop"
  fgOut,            \* the bytes main's printf has still to write
  mie,              \* interrupts enabled (irq_init)
  ctx,              \* "fg", or "uart" while uart_irq_handler runs
  rxFifo,           \* bytes the UART holds; a read of it empty is 0x80000000
  rxLog,            \* every byte the UART received, in order
  ticks,            \* timer interrupts taken
  timer_irq_count,
  out               \* [by, ch] for every byte written to OUTPORT

vars == <<fgPc, fgOut, mie, ctx, rxFifo, rxLog, ticks, timer_irq_count, out>>

Tagged(by, bytes) == [i \in 1..Len(bytes) |-> [by |-> by, ch |-> bytes[i]]]

TypeOK ==
  /\ fgPc \in {"init", "banner", "loop"}
  /\ fgOut \in Seq(0..255) /\ mie \in BOOLEAN /\ ctx \in {"fg", "uart"}
  /\ rxFifo \in Seq(UartBytes) /\ rxLog \in Seq(UartBytes)
  /\ ticks \in 0..MaxTicks /\ timer_irq_count \in Nat
  /\ out \in Seq([by : {"fg", "uart", "timer"}, ch : 0..255])

Init ==
  /\ fgPc = "init" /\ fgOut = <<>> /\ mie = FALSE /\ ctx = "fg"
  /\ rxFifo = <<>> /\ rxLog = <<>> /\ ticks = 0 /\ timer_irq_count = 0
  /\ out = <<>>

----------------------------------------------------------------------------
(* main, up to its while (1) loop.                                         *)

(* Mutant: __set_irq_mask left out, interrupts stay disabled.            *)
IrqInitNoEnable ==
  /\ fgPc = "init"
  /\ mie' = FALSE /\ fgPc' = "banner" /\ fgOut' = SL!Printf(Banner, <<>>).out
  /\ UNCHANGED <<ctx, rxFifo, rxLog, ticks, timer_irq_count, out>>

(* irq_init: ie_mask32_std = 0xFFFFFFFF and __set_irq_mask; then printf   *)
(* starts on the banner.                                                   *)
IrqInit ==
  /\ fgPc = "init"
  /\ mie' = TRUE /\ fgPc' = "banner" /\ fgOut' = SL!Printf(Banner, <<>>).out
  /\ UNCHANGED <<ctx, rxFifo, rxLog, ticks, timer_irq_count, out>>

(* print_chr of the next banner byte; the foreground runs only when no     *)
(* handler does.                                                           *)
FgPutc ==
  /\ ctx = "fg" /\ fgPc = "banner" /\ fgOut # <<>>
  /\ out' = Append(out, [by |-> "fg", ch |-> Head(fgOut)])
  /\ fgOut' = Tail(fgOut)
  /\ UNCHANGED <<fgPc, mie, ctx, rxFifo, rxLog, ticks, timer_irq_count>>

(* printf has returned: timer_irq_count = 0, then the DMA start writes.  *)
FgZero ==
  /\ ctx = "fg" /\ fgPc = "banner" /\ fgOut = <<>>
  /\ timer_irq_count' = 0 /\ fgPc' = "loop"
  /\ UNCHANGED <<fgOut, mie, ctx, rxFifo, rxLog, ticks, out>>

(* The while (1) loop around ethernetif_input (LwipNetif models it).      *)
FgLoop ==
  /\ ctx = "fg" /\ fgPc = "loop"
  /\ UNCHANGED vars

----------------------------------------------------------------------------
(* The UART and the timer.                                                 *)

(* A byte arrives from the serial line.                                    *)
UartArrive ==
  /\ Len(rxLog) < MaxRx
  /\ \E b \in UartBytes : rxFifo' = Append(rxFifo, b) /\ rxLog' = Append(rxLog, b)
  /\ UNCHANGED <<fgPc, fgOut, mie, ctx, ticks, timer_irq_count, out>>

(* The UART interrupt is taken while the UART holds data and MIE is set;   *)
(* the dispatch to uart_irq_handler is not in the sources.                 *)
UartIrq ==
  /\ mie /\ ctx = "fg" /\ rxFifo # <<>>
  /\ ctx' = "uart"
  /\ UNCHANGED <<fgPc, fgOut, mie, rxFifo, rxLog, ticks, timer_irq_count, out>>

(* One iteration of uart_echo: the UART_RD_ADDR read pops a byte and      *)
(* printf("%c\r\n") writes it.  Nothing else writes OUTPORT while the      *)
(* handler runs, so the three bytes are one step.                          *)
UartEcho ==
  /\ ctx = "uart" /\ rxFifo # <<>>
  /\ out' = out \o Tagged("uart", SL!Printf(EchoFmt, <<W!FromNat(Head(rxFifo))>>).out)
  /\ rxFifo' = Tail(rxFifo)
  /\ UNCHANGED <<fgPc, fgOut, mie, ctx, rxLog, ticks, timer_irq_count>>

(* The read returns 0x80000000: the loop ends and the handler returns.    *)
UartReturn ==
  /\ ctx = "uart" /\ rxFifo = <<>>
  /\ ctx' = "fg"
  /\ UNCHANGED <<fgPc, fgOut, mie, rxFifo, rxLog, ticks, timer_irq_count, out>>

(* time_irq_handler, entry to return: timer_irq_count++ and its printf.   *)
(* main never programs TIMERCMP (the writes are commented out) and the     *)
(* compare register's reset value is not in the sources, so up to MaxTicks *)
(* of them at any time over-approximate whatever the timer does.           *)
TimerIrq ==
  /\ mie /\ ctx = "fg" /\ ticks < MaxTicks
  /\ ticks' = ticks + 1
  /\ timer_irq_count' = timer_irq_count + 1
  /\ out' = out \o Tagged("timer", SL!Printf(CntFmt, <<W!FromNat(timer_irq_count + 1)>>).out)
  /\ UNCHANGED <<fgPc, fgOut, mie, ctx, rxFifo, rxLog>>

Next ==
  \/ IrqInit \/ FgPutc \/ FgZero \/ FgLoop
  \/ UartArrive \/ UartIrq \/ UartEcho \/ UartReturn \/ TimerIrq

(* The foreground and the echo loop keep running; the UART interrupt is   *)
(* level-sensitive, so it is taken while data is pending.  Arrivals and    *)
(* ticks belong to the environment.                                        *)
Spec ==
  /\ Init /\ [][Next]_vars
  /\ WF_vars(IrqInit) /\ WF_vars(FgPutc) /\ WF_vars(FgZero)
  /\ WF_vars(UartIrq) /\ WF_vars(UartEcho) /\ WF_vars(UartReturn)

----------------------------------------------------------------------------
(* Properties                                                              *)

(* The bytes the echo handler wrote, in order.                             *)
EchoOut == [i \in 1..Len(SelectSeq(out, LAMBDA o : o.by = "uart")) |->
              SelectSeq(out, LAMBDA o : o.by = "uart")[i].ch]

(* Every byte the UART receives is eventually echoed: the handler is taken *)
(* once interrupts are on and keeps reading until the UART is empty, even  *)
(* when a byte arrives after it has started.                               *)
EveryByteEchoed ==
  \A k \in 1..MaxRx : Len(rxLog) >= k ~> Len(EchoOut) >= 3 * k

=============================================================================
