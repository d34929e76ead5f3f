------------------------------- MODULE PktIO -------------------------------
(***************************************************************************)
(* The host-side packet tools of pktIO/capPkt.  recvPacket captures frames *)
(* with libpcap and writes each one to ../pktIn.txt (a counter line, a     *)
(* header word, the bytes in hex, 16 per line).  sendPacket polls          *)
(* ../pktOut.txt, a file in the same format, and replays a frame with      *)
(* libnet whenever the counter changes.  The two tools use different      *)
(* files: what carries pktIn.txt to the board and writes pktOut.txt is not *)
(* in the sources, so pktOut.txt's writer is an environment that writes   *)
(* records in recvPacket's format, a counter one higher each time.        *)
(* A frame is a record of its destination and source MAC bytes, its      *)
(* EtherType bytes, an identity for the rest of its bytes and its wire    *)
(* length.  A file is either empty (opened for writing and not yet        *)
(* flushed) or a whole record: stdio's buffer holds a file of a frame up  *)
(* to BUFSIZE bytes.                                                       *)
(***************************************************************************)
EXTENDS Naturals, Sequences, Bitwise

CONSTANTS
  Frames,         \* the frames pcap may hand to get_packet, or pktOut.txt hold
  MaxCaptures,    \* bound on the frames get_packet writes
  MaxOut,         \* bound on the records written to pktOut.txt
  MaxFds,         \* the open-file limit of the sendPacket process
  CharIsSigned,   \* whether char is signed on the host (x86-64: TRUE)
  LibnetMayFail   \* whether libnet_init / libnet_write may fail

BUFSIZE == 1514                                   \* pcap snapshot length
DST_MAC == <<0, 10, 53, 0, 1, 2>>                 \* DST_MAC_0 .. DST_MAC_5
Bcast == <<255, 255, 255, 255, 255, 255>>
DefaultDst == <<136, 136, 136, 136, 137, 136>>    \* dst_mac's initialiser
DefaultSrc == <<0, 1, 2, 3, 4, 5>>                \* src_mac's initialiser
Empty == [content |-> "none"]     \* an empty file

VARIABLES
  cnt_recvPkt,   \* recvPacket's counter (unsigned short)
  wpc,           \* recvPacket: "idle" in pcap_loop, "writing", or "exited"
  pending,       \* the frame get_packet is writing
  fileIn,        \* ../pktIn.txt: Empty or the record get_packet wrote
  captured,      \* the frames get_packet kept, in order (history)
  outCnt,        \* the counter of the last record written to ../pktOut.txt
  fileOut,       \* ../pktOut.txt: Empty or a whole record
  written,       \* the frames written to ../pktOut.txt, in order (history)
  pc,            \* sendPacket: "poll", "send", "crashed" or "exited"
  cnt_sendPkt,   \* sendPacket's counter (unsigned short)
  nopen,         \* the FILE streams sendPacket holds open
  snap,          \* the record sendPacket read in this iteration
  sent,          \* the frames put on the wire, with the record read (history)
  outSeq,        \* which record of written pktOut.txt holds, 0 when empty (ghost)
  snapSeq        \* which record snap holds (ghost)

vars == <<cnt_recvPkt, wpc, pending, fileIn, captured, outCnt, fileOut, written,
          pc, cnt_sendPkt, nopen, snap, sent, outSeq, snapSeq>>
capVars == <<cnt_recvPkt, wpc, pending, fileIn, captured>>
outVars == <<outCnt, fileOut, written, outSeq>>
repVars == <<pc, cnt_sendPkt, nopen, snap, sent, snapSeq>>

----------------------------------------------------------------------------
(* recvPacket                                                              *)

(* get_packet keeps a frame whose first four destination bytes are the    *)
(* broadcast address or the board's.                                       *)
Filter(f) == SubSeq(f.dst, 1, 4) \in {SubSeq(Bcast, 1, 4), SubSeq(DST_MAC, 1, 4)}

(* Mutant: the commented-out header, unvalid << 8 | len.                   *)
HeaderUnvalid(L) == ((16 - (L % 16)) * 256) | ((L + 15) \div 16)

(* The header word: valid << 8 | len, where valid = (len - 1) % 16 and len *)
(* counts 16-byte lines.                                                    *)
Header(L) == (((L - 1) % 16) * 256) | ((L + 15) \div 16)

(* What get_packet writes: the counter, the header and p_pkthdr->len      *)
(* bytes, of which only the first BUFSIZE (the snapshot length) were       *)
(* captured; the rest is read past the capture.                            *)
FileOf(f, c) ==
  [cnt |-> c, hdr |-> Header(f.len), dst |-> f.dst, src |-> f.src, type |-> f.type,
   len |-> f.len, body |-> IF f.len <= BUFSIZE THEN f.body ELSE "overread"]

(* pcap_lookupdev or pcap_open_live may fail: main exits before capturing. *)
InitCapture ==
  /\ cnt_recvPkt = 0 /\ wpc \in {"idle", "exited"}
  /\ pending = Empty /\ fileIn = Empty /\ captured = <<>>

(* A frame the filter drops leaves everything as it is.                    *)
CaptureDrop == wpc = "idle" /\ \E f \in Frames : ~Filter(f) /\ UNCHANGED vars

(* fopen(file_recvPkt, "w") truncates the file; the counter is incremented. *)
CaptureOpen ==
  /\ wpc = "idle" /\ Len(captured) < MaxCaptures
  /\ \E f \in Frames : Filter(f) /\ pending' = f
  /\ fileIn' = Empty
  /\ cnt_recvPkt' = (cnt_recvPkt + 1) % 65536
  /\ wpc' = "writing"
  /\ UNCHANGED captured /\ UNCHANGED outVars /\ UNCHANGED repVars

(* The fprintf calls fill the stdio buffer; fclose writes the file.        *)
CaptureClose ==
  /\ wpc = "writing"
  /\ fileIn' = FileOf(pending, cnt_recvPkt)
  /\ captured' = Append(captured, pending)
  /\ wpc' = "idle"
  /\ UNCHANGED <<cnt_recvPkt, pending>> /\ UNCHANGED outVars /\ UNCHANGED repVars

(* pcap_loop returns an error: main exits.                                  *)
CaptureExit ==
  /\ wpc = "idle" /\ wpc' = "exited"
  /\ UNCHANGED <<cnt_recvPkt, pending, fileIn, captured>>
  /\ UNCHANGED outVars /\ UNCHANGED repVars

----------------------------------------------------------------------------
(* The writer of ../pktOut.txt (not in the sources): records in           *)
(* recvPacket's format, the counter one higher each time; it truncates    *)
(* the file when it opens it and fills it when it closes it.              *)

InitOut == outCnt = 0 /\ fileOut = Empty /\ written = <<>> /\ outSeq = 0

OutOpen ==
  /\ Len(written) < MaxOut /\ fileOut # Empty
  /\ fileOut' = Empty /\ outSeq' = 0
  /\ UNCHANGED <<outCnt, written>> /\ UNCHANGED capVars /\ UNCHANGED repVars

OutClose ==
  /\ Len(written) < MaxOut
  /\ \E f \in Frames :
       /\ fileOut' = FileOf(f, (outCnt + 1) % 65536)
       /\ written' = Append(written, f)
  /\ outCnt' = (outCnt + 1) % 65536
  /\ outSeq' = Len(written) + 1
  /\ UNCHANGED capVars /\ UNCHANGED repVars

----------------------------------------------------------------------------
(* sendPacket                                                              *)

InitReplay ==
  pc = "poll" /\ cnt_sendPkt = 0 /\ nopen = 0 /\ snap = Empty /\ sent = <<>> /\ snapSeq = 0

(* The frame length the header decodes to, less the two MAC addresses.     *)
DecodedLen(w) == ((w & 255) * 16) - 15 + shiftR(w & 3840, 8) - 12
LenPayload(len) == IF len < 46 THEN 46 ELSE len - 2

(* payload is a char array: (unsigned short) payload[i] sign-extends.     *)
SExt(x) == IF CharIsSigned /\ x >= 128 THEN x + 65280 ELSE x
EthType(t) == (SExt(t[1]) * 256 + SExt(t[2])) % 65536

(* The frame libnet_build_ethernet builds from what the loop read: the     *)
(* MACs, the EtherType from payload[0..1] and len_payload bytes from       *)
(* payload[2].  On an empty file every fscanf fails and the initialisers   *)
(* and the previous payload remain.                                         *)
Replay(s) ==
  IF s = Empty
  THEN [dst |-> DefaultDst, src |-> DefaultSrc, type |-> "stale", body |-> "stale",
        len |-> "stale", decoded |-> "stale"]
  ELSE LET len == DecodedLen(s.hdr)
       IN  [dst |-> s.dst, src |-> s.src, type |-> EthType(s.type), body |-> s.body,
            len |-> 14 + LenPayload(len), decoded |-> len]

(* Mutant: tag_cnt_senPkt starts at 0 instead of cnt_sendPkt.              *)
PollTagZero ==
  /\ pc = "poll"
  /\ \/ nopen = MaxFds /\ pc' = "crashed" /\ UNCHANGED <<cnt_sendPkt, nopen, snap, sent, snapSeq>>
     \/ /\ nopen < MaxFds
        /\ LET tag == IF fileOut = Empty THEN 0 ELSE fileOut.cnt % 65536
           IN  IF tag = cnt_sendPkt THEN UNCHANGED repVars
               ELSE cnt_sendPkt' = tag /\ nopen' = nopen + 1 /\ snap' = fileOut
                    /\ snapSeq' = outSeq /\ pc' = "send" /\ UNCHANGED sent
  /\ UNCHANGED capVars /\ UNCHANGED outVars

(* One iteration up to the comparison: fopen fails once the process holds  *)
(* MaxFds streams and fscanf(NULL) crashes; fscanf of an empty file leaves *)
(* tag_cnt_senPkt at cnt_sendPkt.  An unchanged counter closes the file    *)
(* and polls again; a new one is taken and the stream stays open.  The     *)
(* "%08x" conversion stores into an unsigned short: the low 16 bits.      *)
Poll ==
  /\ pc = "poll"
  /\ \/ nopen = MaxFds /\ pc' = "crashed" /\ UNCHANGED <<cnt_sendPkt, nopen, snap, sent, snapSeq>>
     \/ /\ nopen < MaxFds
        /\ LET tag == IF fileOut = Empty THEN cnt_sendPkt ELSE fileOut.cnt % 65536
           IN  IF tag = cnt_sendPkt THEN UNCHANGED repVars
               ELSE cnt_sendPkt' = tag /\ nopen' = nopen + 1 /\ snap' = fileOut
                    /\ snapSeq' = outSeq /\ pc' = "send" /\ UNCHANGED sent
  /\ UNCHANGED capVars /\ UNCHANGED outVars

(* The rest of the iteration: libnet_init, the reads, libnet_write; a      *)
(* failure of libnet exits the process.                                     *)
Send ==
  /\ pc = "send"
  /\ \/ LibnetMayFail /\ pc' = "exited" /\ UNCHANGED sent
     \/ /\ sent' = Append(sent, [tag |-> cnt_sendPkt, seq |-> snapSeq, frame |-> Replay(snap)])
        /\ pc' = "poll"
  /\ UNCHANGED <<cnt_sendPkt, nopen, snap, snapSeq>> /\ UNCHANGED capVars /\ UNCHANGED outVars

----------------------------------------------------------------------------
Init == InitCapture /\ InitOut /\ InitReplay

Next == CaptureDrop \/ CaptureOpen \/ CaptureClose \/ CaptureExit
          \/ OutOpen \/ OutClose \/ Poll \/ Send

(* sendPacket's loop never blocks: its steps are weakly fair; so is the    *)
(* end of get_packet, which runs to fclose once called.  Whether pcap      *)
(* delivers another frame, or pktOut.txt is written, has no fairness.     *)
Spec == Init /\ [][Next]_vars /\ WF_vars(Poll) /\ WF_vars(Send) /\ WF_vars(CaptureClose)

----------------------------------------------------------------------------
(* Once get_packet has returned, ../pktIn.txt holds the frame it kept last *)
(* and the counter it incremented to: the bytes of the frame, as many as   *)
(* its length says.                                                        *)
CaptureKeepsFrame ==
  wpc # "writing" /\ captured # <<>> =>
    LET f == captured[Len(captured)]
    IN  /\ fileIn.cnt = cnt_recvPkt
        /\ fileIn.dst = f.dst /\ fileIn.len = f.len /\ fileIn.body = f.body

(* Every frame sendPacket transmits comes from a whole record of           *)
(* ../pktOut.txt, in the order they were written and each at most once:   *)
(* the empty file between the writer's fopen and fclose is not taken for  *)
(* a new record, and an unchanged counter is not replayed again.          *)
ReplayFollowsWrites ==
  \A i \in 1..Len(sent) :
    /\ sent[i].seq \in 1..Len(written)
    /\ sent[i].frame.dst = written[sent[i].seq].dst
    /\ sent[i].frame.src = written[sent[i].seq].src
    /\ \A j \in 1..(i - 1) : sent[j].seq < sent[i].seq

(* The length sendPacket decodes from the header word of recvPacket's      *)
(* format is the frame length less the 12 MAC bytes (the format encodes   *)
(* lengths up to 4080; the frames here are shorter).                       *)
LengthDecodes ==
  \A i \in 1..Len(sent) : sent[i].frame.decoded + 12 = written[sent[i].seq].len

(* The frame on the wire is the frame of the record: the same MACs,       *)
(* EtherType and bytes, padded to the 60-byte minimum.                     *)
ReplayMatchesFile ==
  \A i \in 1..Len(sent) :
    LET f == written[sent[i].seq]
        r == sent[i].frame
    IN  /\ r.dst = f.dst /\ r.src = f.src /\ r.body = f.body
        /\ r.type = f.type[1] * 256 + f.type[2]
        /\ r.len = IF f.len < 60 THEN 60 ELSE f.len

(* sendPacket runs until libnet fails: its while (1) loop never crashes.   *)
ReplayKeepsRunning == pc # "crashed"

=============================================================================
