# TLA+ models of the NanoCore packet DMA firmware

These modules model how the firmware drives NanoCore's packet DMA engine. They
cover the two drivers of the repository and the interrupt handler they share:

- `rv_recv`/`rv_send` (`NanoCore-two-issue/firmware/Firmware_Runtime/src/netif/netif.c`),
  used by the MAC-swap echo demo;
- the lwIP port (`firmware/demos/lwiperf/lwip_v213/contrib/ports/riscv/netif/riscvnetif.c`);
- `dma_irq_handler` (`firmware/demos/lwiperf/irq.c`);
- the libc replacements of `firmware/Firmware_Runtime/src/system.c` (the
  `printf` family, the `mem*` and `str*` routines, `atoi`), which the drivers
  and the demos call;
- the Sudoku demo (`firmware/demos/sudoku/src/main.c`);
- the console of the lwiperf build: `irq_init`, `main`'s banner and the
  UART echo and timer handlers of `irq.c`;
- the host packet tools `recvPacket` and `sendPacket`
  (`NanoCore-two-issue/pktIO/capPkt/`).

The rest of the repository is listed under "Not modelled" below.

## The system

- **Engine.** The DMA engine sits behind a register block at `0x1007xxxx`
  (`firmware.h`). The firmware uses four parts of it:
  - **`DMA_TAG_ADDR`** reads `0x80000000` when no frame is pending. Otherwise it
    reads the pending frame's length in its low 16 bits.
  - **Receive descriptors:** a write of `DMA_RECV_ADDR_ADDR` latches one
    descriptor, with the length last written to `DMA_RECV_LEN_ADDR`. The first
    descriptor of a frame receives the 16-byte metadata; the ones after it
    receive the frame's bytes.
  - **Transmit descriptors:** the same pair of registers on the send side. The
    address `0x80000000` closes a list.
  - **`DMA_INT_ADDR`** is a FIFO of completion words. Bit 31 is set for a
    finished receive. Bits 30:0 are the start address of the transfer
    (`firmware.h:98`). A read of the empty FIFO returns `0x80000000`.
- **`DMA_CNT_RECV_PKT`** is a plain register. The foreground zeroes it before it
  arms a receive. `dma_irq_handler` writes 1 to it for every receive completion
  it drains from the FIFO. The foreground then spins until the register is
  non-zero.
- **Interleaving.** The interrupt is enabled at boot (`irq_init`) and never
  masked, so the handler can run between any two register accesses of the
  foreground.
- **Buffer ownership on transmit.** A transmit is fire-and-forget: the driver
  returns as soon as the list is closed, and the engine reads the buffers later.
- **Host tools.** `recvPacket` captures frames with libpcap and, for each frame
  whose first four destination bytes are broadcast or the board's, rewrites a
  text file, `../pktIn.txt`: a counter line, a header word
  `valid << 8 | lines`, and the bytes in hex. `sendPacket` polls another file
  of the same format, `../pktOut.txt`, in a `while (1)` loop and replays its
  frame with libnet whenever the counter changes. The two tools do not share
  a file; whatever writes `pktOut.txt` is not in the sources, and nothing
  synchronises it with `sendPacket`.

## Modules

| Module | Models | State | Actions |
|---|---|---|---|
| `Words` | `uint32_t` arithmetic as pairs of 16-bit halves, since TLC's integers stop at 2^31 | none (operators) | `Shl`, `Shr`, `Add`, `BitAnd`: the C operators the drivers apply |
| `NanoDma` | the register block and the engine (hardware contract) | see below | see below |
| `DmaIrq` | `dma_irq_handler` | `inIrq` | `DmaIrqEvent`, `DmaIrqReturn` |
| `RvNetif` | the MAC-swap loop with `rv_recv`/`rv_send` | `pc`, `pkt_len`, `rxLog` | one action per register access |
| `LwipNetif` | `ethernetif_input`, `low_level_input`, `low_level_output` | `pc`, `pkt_len`, `p`, `q`, `free`, `stackHeld`, `txp`, `rxLog` | one action per register access and per loop iteration |
| `FrameIO` | what a receive path promises its caller (abstract) | `frameLen`, `arrived`, `delivered` | `Arrive`, `Deliver` |
| `MC_RvNetif`, `MC_LwipNetif` | model values and constant definitions for the drivers' violation runs | | |
| `Console` | `irq_init`, `main`'s banner `printf` and `timer_irq_count = 0`, `uart_irq_handler`/`uart_echo`, `time_irq_handler` | `fgPc`, `fgOut`, `mie`, `ctx`, `rxFifo`, `rxLog`, `ticks`, `timer_irq_count`, `out` | `IrqInit`, `FgPutc` (one `print_chr`), `FgZero`, `FgLoop`; `UartArrive`, `UartIrq`, `UartEcho`, `UartReturn`, `TimerIrq` |
| `MC_Netif` | runs `RvNetif`, `LwipNetif` and `Console` side by side for the passing checks: a `family` variable picks one; each driver has its own copy of the engine's state (`r...`, `l...`), and the other families stay at their initial state | `family` and the three families' state | the chosen family's steps |
| `SystemLib` | `system.c`: `print`, `printf`, `print_dec`, `print_hex`, `memcpy`, `memset`, `memcmp`, `memmove`, `strnlen`, `strlen`, `strcpy`, `strcmp`, `strncmp`, `atoi` | none (operators) | each C function is an operator over a byte memory `[addr -> byte]`; loops are RECURSIVE operators or folds |
| `StringsCheck` | checks the string and memory operators against definitions by sequences | `src`, six bytes of memory | one byte changes per step |
| `ConvCheck` | checks `atoi`, `print_dec` and `print_hex` against arithmetic | `pre`, `digs`, `tail`: the parts of an input string | one part changes per step |
| `PrintCheck` | checks `printf` on formats built from pieces | `pieces`, the format as a sequence of pieces | append or drop a piece |
| `PktIO`, `MC_PktIO` | `get_packet`/`main` of `recvPacket.c`, writing `pktIn.txt`; `main` of `sendPacket.c`, reading `pktOut.txt`; the writer of `pktOut.txt` as an environment | capture: `cnt_recvPkt`, `wpc`, `pending`, `fileIn`, `captured`; `pktOut.txt`: `outCnt`, `fileOut`, `written`, `outSeq`; replay: `pc`, `cnt_sendPkt`, `nopen`, `snap`, `snapSeq`, `sent` | `CaptureDrop`, `CaptureOpen` (fopen "w", `++cnt`), `CaptureClose` (the fprintfs and fclose), `CaptureExit`; `OutOpen`, `OutClose` (the writer's truncation and new record); `Poll` (fopen, counter compare), `Send` (libnet init, the reads, build, write) |
| `Sudoku`, `MC_Sudoku` | `solve_sudoku` and `main` of the Sudoku demo; `MC_Sudoku` holds the boards | `board`, `stack` (one frame per active call), `pc`, `ret`, `given` | `Enter`, `TryNum`, `Exhaust`, `Return`, `Finish`, `Spin` |
| `MC_Algorithms` | runs the four library checks and the Sudoku search side by side: a `family` variable picks one, and the other families' state stays fixed, so the state counts add | `family` and the five families' state | the chosen family's steps |

- **`NanoDma`.** The RTL is not in the sources, so this module is written from
  the register comments and the specification. Those entries are marked
  `spec_modelled` in `PROJECT.json`.
  - **State:** `rxq`/`tagq` are the frames held by the NIC and the frames whose
    tag is unread. `rxdesc`, `txdesc` and `txq` are the latched descriptors.
    `irqq` is the FIFO, `cnt` the counter, and `mem` the frame last written into
    each buffer. `wireOut` is what the engine has transmitted.
  - **Register actions:** `ReadTag`, `WriteRecvDesc`, `WriteSendDesc`,
    `WriteSendEnd`, `IntReadPop`.
  - **Engine actions:** `FrameArrives`, `RxDmaComplete` (it uses the fewest
    descriptors that cover the frame), `TxDmaComplete`.
- **Words and data.** Register words are modelled as words because the drivers
  shift, mask and add them; every comparison with `0x80000000` is on words.
- **Foreground steps.** Each foreground action is a register access, or a loop
  iteration, that the engine or the handler can observe in between. The action's
  guard is `~inIrq`: the foreground does not run while the handler does.
- **lwIP as environment.** `LwipNetif` treats lwIP as its environment:
  - `pbuf_alloc` takes any free pool pbufs enough for the frame, or fails when
    too few are free;
  - `netif->input` either frees the chain or keeps it, and may answer through
    `low_level_output` before returning;
  - lwIP runs only inside `netif->input` (`main` drives no lwIP timer), so it
    lets go of chains it kept only there: `InputDeliver` may release any of
    them while it handles a later frame (a segment filling the TCP
    out-of-sequence queue, the application consuming data);
  - with `ReplyInPlace`, `netif->input` may answer in the received chain
    itself (`InputReplyInPlace`), as lwIP 2.1.3's `icmp_input` does for an
    echo request, and that chain is freed when `low_level_output` returns.

- **`SystemLib`.** `uint32_t` values are `Words` pairs, so wrap-around is
  exact. `strcpy` and `strcmp` read aligned words little-endian, as RV32 does,
  and stop with the code's zero-byte test `(v - 0x01010101) & ~v & 0x80808080`.
  `print_chr`'s store to `OUTPORT` is an append to the output sequence, and
  `printf`'s result is the output together with its return value.
- **`PktIO`.** A frame is a record of its MAC bytes, its EtherType bytes, an
  identity for its remaining bytes and its length. A file is either empty
  (between `fopen("w")` and `fclose`: stdio holds a whole frame's text in its
  buffer) or a whole record. `get_packet` writes `fileIn`; its body is the
  frame's bytes only when the frame fits the 1514-byte snapshot, beyond which
  the loop reads past what pcap captured. `fileOut` is written by an
  environment (`OutOpen`, `OutClose`, marked `spec_modelled`) in
  `recvPacket`'s format with a counter one higher each time. `Poll` models the open and the
  counter read: an empty file leaves `tag_cnt_senPkt` at `cnt_sendPkt`; a
  changed counter keeps the stream open (only the unchanged path calls
  `fclose`), and once `MaxFds` streams are open `fopen` returns NULL and the
  process crashes. `Send` decodes the length from the header word exactly as
  line 28 does, sign-extends `payload[0..1]` as a signed `char` when
  `CharIsSigned`, and pads the payload as line 30 does. `outSeq` and
  `snapSeq` are ghost variables: the number of the record `pktOut.txt` and
  `sendPacket`'s snapshot hold. Each sent frame carries its `seq`.
- **`Console`.** `printf` does not mask interrupts (its `__irq_save` is
  commented out), so `FgPutc` writes one banner byte and a handler may run
  between two of them. A handler is not interrupted (trap entry clears
  `mstatus.MIE`), so each `uart_echo` iteration (read, `printf("%c\r\n")`)
  is one step and `time_irq_handler` is one step. The bytes written are
  `SystemLib`'s `Printf` of the code's format strings, so the echo is the
  byte followed by CR LF and the count is printed in decimal. `out` tags
  each byte with the context that wrote it. The banner is shortened to
  `"Lw\n\r"`. `UartArrive` and the interrupt entry are the hardware: the
  UART interrupt is taken while the UART holds data and `MIE` is set.
  `main` never programs `TIMERCMP` (the writes at lines 116-117 are
  commented out) and its reset value is not in the sources, so `TimerIrq`,
  up to `MaxTicks` times at any point after `irq_init`, over-approximates
  what the timer does.
- **`Sudoku`.** Recursion becomes an explicit stack. A frame holds `row`, `col`
  and the loop variable `num`; `num = 0` marks a frame whose cell was given and
  which only forwards its callee's result. `Return` is the code after the
  recursive call: a true result returns at once, a false one clears the cell
  (line 75) and the loop goes on with `num + 1`.

## Refinement

`FrameIO` is the receive path as its caller sees it: frames arrive, and a
receive call returns the oldest frame not yet returned with the length the
NIC reported (`SafeSpec`); a frame that has arrived is eventually returned
(`Spec`, weak fairness on `Deliver`). Each driver module defines
`FIO == INSTANCE FrameIO WITH ...`. `RvNetif` implements the whole `Spec`
(`FrameIORefined`, checked in `MC_Netif` as `RvFrameIORefined`). `LwipNetif`
implements only `SafeSpec` (`FrameIOSafe`, checked as `LwipFrameIOSafe`):
once lwIP keeps enough chains that `pbuf_alloc` fails for the frame in the
NIC, nothing lets them go and no frame is returned again (run
`lwip_pool_stall`). The mapping:

- `arrived` is the hardware's `arrived`;
- `frameLen` is the NIC's frame length, as the 32-bit word the tag reports;
- `delivered` is `rxLog`, the frames whose completion spin has ended. In
  `LwipNetif` a chain stands for its one frame, or for `NoFrame` (which
  `FrameIO` never delivers) when it holds none or parts of several.

The violation run `lwip_pool_stall` checks eventual delivery alone, as
`EveryFrameReceived`, so its trace shows only the hang.

## Runs

| Run | Config | Expect | Shows |
|---|---|---|---|
| netif | `MC_Netif.cfg` | pass | Both drivers and the console, side by side. `rv_recv` with `dma_irq_handler` implements `FrameIO` (`RvFrameIORefined`): every frame it returns is the oldest not yet returned, with its own length, and every arrived frame is eventually returned. With a tag that reports a frame until it is written, every chain `ethernetif_input` hands to lwIP holds the oldest frame not yet handed on, with its length, `pbuf_alloc` failures included (`LwipFrameIOSafe`); no descriptor ever points at a free or lwIP-held pbuf (`NoDmaIntoReleasedPbuf`); every pool pbuf is in exactly one place (`PoolConserved`). While `main` prints its banner and the timer handler its count, every byte the UART receives is eventually echoed (`EveryByteEchoed`). |
| rv_echo_buffer_reuse | `MC_RvNetif_Echo.cfg` | violation | `EchoIntegrity` fails: the echo transmits a newer frame than the one it received. |
| lwip_alloc_fail_advancing_tag | `MC_LwipNetif_TagAdvance.cfg` | violation | `ArmedForHeadFrame` fails: with the tag advancing on read, as the specification describes it, a `pbuf_alloc` failure leaves the frame in the NIC, and the next call arms a chain sized for the next frame; in the model the engine then waits for descriptors covering the old frame and the spin never ends. |
| lwip_pool_stall | `MC_LwipNetif_PoolStall.cfg` | violation | `EveryFrameReceived` fails: lwIP keeps a two-pbuf chain, the next 44-byte frame needs two of the one free pbuf, `pbuf_alloc` fails on every call, `netif->input` is never called again, and lwIP never runs to let its chain go (riscvnetif.c:262-266). |
| lwip_tx_length | `MC_LwipNetif_TxLen.cfg` | violation | `low_level_output` does not encode the length the way `rv_send` does. |
| lwip_tx_reuse | `MC_LwipNetif_TxReuse.cfg` | violation | `TxSendsQueuedData` fails: an echo reply sent in the received pbuf is freed when `low_level_output` returns, the next receive takes the pbuf, and the engine transmits the next frame's bytes as the reply (riscvnetif.c:185). |
| atoi_wrap | `ConvCheck_Wrap.cfg` | violation | `atoi("4294967296")` returns 0: `s*10 + digit` wraps to a non-negative int and the `s < 0` test that should saturate misses it. |
| algorithms | `MC_Algorithms.cfg` | pass | Four families side by side. For every 6-byte memory over {0, 1, 128}, at every alignment, the word-at-a-time `strcmp` and `strcpy` agree with byte-wise definitions; `memmove` is right for every overlap; `memcmp` and `strncmp` order their operands. `atoi` parses every input whose value fits in an int; `print_dec` and `print_hex` read back as the word. `print` renders formats of up to three pieces with their arguments (`PrintfFollowsFormat`). On main.c's Sudoku board and nine boards built from its solution, the board agrees with the call stack (`SearchMatchesStack`), a true result leaves a valid completion (`SolvedIsCompletion`), a false one means none exists (`UnsolvedMeansNone`), and the search terminates (`Termination`). |
| pktio | `MC_PktIO.cfg` | pass | Every frame `sendPacket` transmits comes from a whole record of `pktOut.txt`, each record at most once and in the order written, even when it opens the file while the writer is rewriting it (`ReplayFollowsWrites`); the header word of `recvPacket`'s format decodes to the frame length for every length from 42 to 1600 (`LengthDecodes`; the format encodes lengths up to 4080). |
| pktio_ethertype | `MC_PktIO_EtherType.cfg` | violation | `ReplayMatchesFile` fails: an IPv6 frame (EtherType `0x86DD`) goes out as `0x85DD`, because `(unsigned short) payload[1]` sign-extends a signed `char` (sendPacket.c:54). |
| pktio_fd_leak | `MC_PktIO_FdLeak.cfg` | violation | `ReplayKeepsRunning` fails: a stream opened for a new counter is never closed, so after `MaxFds` replays `fopen` returns NULL and `fscanf` crashes (sendPacket.c:18). |
| pktio_capture_overread | `MC_PktIO_Overread.cfg` | violation | `CaptureKeepsFrame` fails: for a 1600-byte frame `get_packet` writes `p_pkthdr->len` bytes though pcap captured only the first 1514, so `pktIn.txt` holds bytes read past the capture (recvPacket.c:20). |

Each property of a passing run has a mutant in `PROJECT.json`: a plausible bug
in the mapped definition that TLC shows breaks the property. The mutants are:

- the counter reset skipped;
- the completion spin removed (the `TODO, do not need to wait dma` of
  `ethernetif_input`);
- `pbuf_free` missing on the drop path;
- `irq_init` without `__set_irq_mask`;
- `strcmp` reading words big-endian; `strcpy`'s last word missing its last
  byte; `memmove` always copying forwards; `memcmp` with `count--` for
  `--count`; `strncmp` not stopping at a shared terminator;
- `atoi` not skipping `+`; `print_dec` printing nothing for 0; `print_hex`
  shifting one digit too far; `print` advancing one byte after `%%`;
- `sendPacket` starting `tag_cnt_senPkt` at 0; `recvPacket` writing the
  commented-out `unvalid << 8 | len` header;
- `solve_sudoku` not clearing a cell after a failed call, retrying the same
  number, looping only while `num < N`, and `is_valid` skipping the box test.

`printf` is a reduced formatter, not C's: it returns 1 per conversion and 0
for `%s` instead of a byte count, prints `%d` of a negative int as unsigned,
ignores the width of `%d`, and prints `%x` as exactly width upper-case digits.
The callers in the sources use `%d` of non-negative values, `%02x`, `%08x`,
`%c` and `%s` and ignore the return value, so these are listed as hazards in
`PROJECT.json`, not as a run.

## Bounds

- **`netif`, RvNetif family:** three frames of 44 or 60 bytes and the single receive buffer
  of `main.c`. Three frames are enough for a frame to arrive while the previous
  one is being echoed and another is being armed.
- **`netif`, LwipNetif family:**
  - two frames of 20 or 44 bytes and a pool of three 32-byte pbufs; with
    in-place replies a third frame makes the run take over five minutes,
    and two already give a kept chain, a failed allocation, a release and
    a reply still queued while the next frame is armed;
  - a 44-byte frame takes a chain of two, so allocation fails exactly while lwIP
    keeps a chain (`StackHoldMax = 1`);
  - one two-pbuf transmit chain of 54 bytes.
- **`lwip_pool_stall`, `lwip_alloc_fail_advancing_tag`:** three frames, so
  that a frame is in the NIC when allocation fails and another follows it.
- **`netif`, Console family:** two UART bytes of two values, so a second
  byte can arrive while the first is echoed and the order matters; two
  timer interrupts, so one can fall inside the banner and one after the
  zeroing; a four-byte banner, so handlers can run before, between and
  after its bytes.
- **Buffer addresses:** every buffer has a distinct address in the data RAM.
- **`algorithms`, family "mem":** six variable bytes followed by two terminators, so every string
  ends inside the words the word loops read. Bytes 0, 1 and 128 make every case
  of the zero-byte test (a zero, a low byte, a byte with bit 7 set). The
  first string starts at 0..3 and the second at 4..7, so all 16 alignment
  pairs occur.
- **`algorithms`, family "conv":** leading parts with spaces, `+`, `-` and double signs;
  digit runs from `{0, 7, 214748364, 429496729, 858993459, 1000000000}`
  extended by up to two digits. These cover `INT_MAX` (`2147483647`), one past
  it, 10-digit values above 2^31, and values that wrap past 2^32.
- **`algorithms`, family "print":** three pieces, so every pair of adjacent kinds occurs
  and a conversion can follow `%%` or a literal `0`.
- **`algorithms`, family "sudoku":** main.c's board (8416 steps to its solution) and nine boards
  built from that solution:
  - four solvable boards with 3 to 5 blanks;
  - two boards whose blanks form a rectangle across boxes, which a search
    without the box test fills wrongly;
  - three boards with a changed given that have no completion.
  `UnsolvedMeansNone` enumerates only fills that give each blank a number its
  row, column and box do not already hold. Every completion is such a fill, so
  the check is exact.
- **`pktio`:** six frames: to the board (60, 1514 and 1600 bytes), broadcast
  ARP (42, a length under the 46-byte payload minimum), to a neighbour whose
  MAC shares the board's first four bytes (58, a runt), and to another host
  (dropped by `get_packet`'s filter). Two captures and three records of
  `pktOut.txt` against two open streams let the writer outrun `sendPacket`,
  let `sendPacket` see the empty file, and reach the descriptor limit. The
  violation runs use two frames each so that the traces are short.

## Fairness

- **Foreground:** weak fairness, because the CPU keeps executing the main loop.
- **Handler:** weak fairness, because the interrupt is enabled at boot and
  never masked.
- **Engine completions:** weak fairness, because the engine finishes a
  transfer it has descriptors for.
- **lwIP:** no fairness of its own: it lets go of kept chains only inside
  `InputDeliver`, a foreground step that needs a successful `pbuf_alloc`.
- **Frame arrival:** the environment's choice, with no fairness.
- **Console:** the foreground's steps and the echo loop are weakly fair;
  the UART interrupt entry is weakly fair because the interrupt is
  level-sensitive and `MIE` stays set after `irq_init`. UART bytes and
  timer ticks are the environment's, with no fairness.
- **pktIO:** `Poll` and `Send` are weakly fair, since `sendPacket`'s loop
  never blocks, and so is `CaptureClose`, since `get_packet` runs to
  `fclose` once pcap calls it. Whether another frame arrives, or
  `pktOut.txt` is rewritten, has no fairness. Both processes may exit, so
  deadlock is not checked.
- **Sudoku:** weak fairness on the search's steps (`SudokuStep` of
  `MC_Algorithms`), because `main` runs the search sequentially with nothing
  else scheduled. `Spin` is main's
  final `while(1)`.

## Not modelled

- **DMA start and filter registers:** written once at boot or never.
- **`irq_puts`:** it has no caller. The trap entry that dispatches to the
  handlers is not in the sources.
- **`timer_irq_count`:** nothing reads it in the lwiperf build (the
  `tcp_tmr` call is commented out), so no property is stated about it.
- **lwIP core:** not part of the sources; it is modelled as an environment.
- **`sys_gettime`:** it only reads the timer registers.
- **`print_board`:** it only writes the board to the UART.
- **`memcpy`, `memset`, `strlen`, `strnlen`** are operators of `SystemLib` used
  by the others but have no property of their own.
- **CoreMark port, ISA tests:** benchmark and CPU test glue.
- **pktIO:** what reads `../pktIn.txt` and writes `../pktOut.txt` (the board
  or its simulator) is not in the sources; `pktOut.txt`'s writer is an
  environment and `pktIn.txt` has no reader in the model. The `%02x` stores into
  `unsigned char` (undefined: each writes four bytes) and `payload` overflow
  above 1600 bytes are hazards with notes, not runs. The `printf` diagnostics
  are left out.

## Plan

1. Model lwIP's `PBUF_RAM` heap for ARP replies, which are freed the same way.
2. Give `memset` and `strlen` their own reference checks in `StringsCheck`.
