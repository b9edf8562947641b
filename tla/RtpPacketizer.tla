--------------------------- MODULE RtpPacketizer ---------------------------
(***************************************************************************)
(* sendH264 and find_nal_units of src/agent/src/webrtc/WebRtcProducer.cpp: *)
(* an encoded frame becomes RTP packets.  Bytes are small numbers, and the *)
(* first byte of a NAL unit is its type; the constants are those of the    *)
(* source, scaled down.  Timestamps and pacing are left out.               *)
(*                                                                         *)
(* A frame is given as the encoder writes it: NAL units, each after a      *)
(* start code of three or four bytes.  What a receiver reads from the      *)
(* packets (RFC 6184) is defined here for the property and is external.    *)
(***************************************************************************)
EXTENDS Naturals, Sequences

CONSTANTS
    kMaxPayload,        \* of a packet, without the RTP header: 1188
    kStapSmallLimit,    \* NAL units up to this size are aggregated: 600
    SeqModulus,         \* of uint16_t: 65536
    Slices,             \* NAL units of pictures the encoder may write
    Versions,           \* of the parameter sets the encoder may write
    MaxSlices           \* bound: pictures' NAL units in a frame

kFuHeaderSize == 2
SPS == 7
PPS == 8
Bytes == 0..255

\* What H.264 has every encoder guarantee (7.4.1): no NAL unit is empty, ends
\* in a zero byte, or has a start code inside.
IsNalUnit(n) ==
    /\ n \in Seq(Bytes) /\ n # << >> /\ n[Len(n)] # 0
    /\ \A i \in 1..(Len(n) - 2) : ~(n[i] = 0 /\ n[i + 1] = 0 /\ n[i + 2] = 1)

ASSUME PacketizerAssumption ==
    /\ kMaxPayload \in Nat /\ kMaxPayload > kFuHeaderSize
    /\ kStapSmallLimit \in Nat /\ SeqModulus \in Nat \ {0}
    /\ \A n \in Slices : IsNalUnit(n) /\ n[1] \notin {SPS, PPS}
    /\ Versions \subseteq Bytes \ {0}
    /\ MaxSlices \in Nat

VARIABLES
    m_spsNal, m_ppsNal,     \* empty, or the newest parameter sets
    rtpSeqNum,
    frame,                  \* the frame sendH264 was called with
    packets                 \* the packets it has built and not yet sent

packetizerVars == <<m_spsNal, m_ppsNal, rtpSeqNum, frame, packets>>

ParameterSet(type, v) == <<type, v>>
NoFrameYet == [sets |-> << >>, slices |-> << >>, isKeyFrame |-> FALSE, seq |-> 0]

PacketizerInit ==
    /\ m_spsNal = << >> /\ m_ppsNal = << >>
    /\ rtpSeqNum = 0
    /\ frame = NoFrameYet
    /\ packets = << >>

\* A loop of the code: its state after n turns, when turn maps the state
\* before a turn to the one after it, and a state at which the loop has ended
\* to itself.
Loop(turn, first) ==
    LET after[n \in Nat] == IF n = 0 THEN first ELSE turn[after[n - 1]]
    IN  after

----------------------------------------------------------------------------
(* find_nal_units *)

\* The length of the start code at position i of buf, 0 if there is none.
StartCode(buf, i) ==
    IF /\ i + 3 <= Len(buf) /\ buf[i] = 0 /\ buf[i + 1] = 0
       /\ buf[i + 2] = 0 /\ buf[i + 3] = 1 THEN 4
    ELSE IF /\ i + 2 <= Len(buf) /\ buf[i] = 0 /\ buf[i + 1] = 0
            /\ buf[i + 2] = 1 THEN 3
    ELSE 0

\* A NAL unit ends before the next start code after its first byte.
NalEnd(buf, start) ==
    LET later == {j \in (start + 1)..Len(buf) : StartCode(buf, j) > 0}
    IN  IF later = {} THEN Len(buf) + 1
        ELSE CHOOSE j \in later : \A k \in later : j <= k

\* The outer loop; every turn goes on by a byte at least.
FindTurn(buf) ==
    [s \in [i : Nat, nals : Seq(Seq(Bytes))] |->
       LET start == s.i + StartCode(buf, s.i)
           end   == NalEnd(buf, start)
       IN  IF s.i > Len(buf) THEN s
           ELSE IF start = s.i THEN [i |-> s.i + 1, nals |-> s.nals]
           ELSE IF start > Len(buf) THEN [i |-> Len(buf) + 1, nals |-> s.nals]
           ELSE [i |-> end, nals |-> Append(s.nals, SubSeq(buf, start, end - 1))]]

FindNalUnits(buf) ==
    Loop(FindTurn(buf), [i |-> 1, nals |-> << >>])[Len(buf)].nals

----------------------------------------------------------------------------
(* Wrong versions, one slip each. *)

\* Only the first parameter sets are kept.
NewestFirstOnly(nals, type, stored) ==
    LET found == {i \in DOMAIN nals : nals[i][1] = type}
    IN  IF found = {} \/ stored # << >> THEN stored
        ELSE nals[CHOOSE i \in found : \A j \in found : j <= i]

----------------------------------------------------------------------------
(* sendH264 *)

\* What is stored of a parameter set after the loop over a key frame.
Newest(nals, type, stored) ==
    LET found == {i \in DOMAIN nals : nals[i][1] = type}
    IN  IF found = {} THEN stored
        ELSE nals[CHOOSE i \in found : \A j \in found : j <= i]

\* The loop that fills the send queue of a key frame: its own parameter sets
\* are left out.
QueueTurn(nals) ==
    [s \in [i : Nat, queue : Seq(Seq(Bytes))] |->
       IF s.i > Len(nals) THEN s
       ELSE [i |-> s.i + 1,
             queue |-> IF nals[s.i][1] \in {SPS, PPS} THEN s.queue
                       ELSE Append(s.queue, nals[s.i])]]

\* A key frame is sent with the stored parameter sets in place of its own.
SendQueue(nals, isKeyFrame, sps, pps) ==
    LET stored == IF sps # << >> /\ pps # << >> THEN <<sps, pps>> ELSE << >>
    IN  IF isKeyFrame
        THEN Loop(QueueTurn(nals), [i |-> 1, queue |-> stored])[Len(nals)].queue
        ELSE nals

Packet ==
    [kind : {"single", "STAP-A", "FU-A"}, type : Bytes, start : BOOLEAN,
     end : BOOLEAN, data : Seq(Seq(Bytes)), size : Nat, marker : BOOLEAN]

\* FU-A: a large unit goes without its first byte, which is spread over the
\* two bytes in front of every part.
Chunk(nal, sent) ==
    LET remaining == Len(nal) - 1 - sent
    IN  IF remaining < kMaxPayload - kFuHeaderSize THEN remaining
        ELSE kMaxPayload - kFuHeaderSize

FuPacket(nal, sent, chunk, lastNal) ==
    LET isEnd == sent + chunk = Len(nal) - 1
    IN  [kind |-> "FU-A", type |-> nal[1], start |-> sent = 0, end |-> isEnd,
         data |-> <<SubSeq(nal, sent + 2, sent + 1 + chunk)>>,
         size |-> kFuHeaderSize + chunk, marker |-> isEnd /\ lastNal]

FuATurn(nal, lastNal) ==
    [s \in [sent : Nat, packets : Seq(Packet)] |->
       LET chunk == Chunk(nal, s.sent)
       IN  IF s.sent >= Len(nal) - 1 THEN s
           ELSE [sent    |-> s.sent + chunk,
                 packets |-> Append(s.packets, FuPacket(nal, s.sent, chunk, lastNal))]]

FuA(built, nal, lastNal) ==
    Loop(FuATurn(nal, lastNal), [sent |-> 0, packets |-> built])[Len(nal)].packets

\* The loop that looks for the end of a run of small units that fits one
\* packet; bytes is the packet's size.
StapTurn(queue) ==
    [s \in [end : Nat, bytes : Nat] |->
       IF \/ s.end > Len(queue) \/ Len(queue[s.end]) > kStapSmallLimit
          \/ s.bytes + 2 + Len(queue[s.end]) > kMaxPayload
       THEN s
       ELSE [end |-> s.end + 1, bytes |-> s.bytes + 2 + Len(queue[s.end])]]

StapEnd(queue, ni) ==
    Loop(StapTurn(queue), [end |-> ni, bytes |-> 1])[Len(queue)]

\* A packet of one NAL unit or of several.
WholePacket(kind, nals, size, marker) ==
    [kind |-> kind, type |-> nals[1][1], start |-> TRUE, end |-> TRUE,
     data |-> nals, size |-> size, marker |-> marker]

\* The loop over the send queue; sequence numbers are given afterwards.
PacketTurn(queue) ==
    [s \in [ni : Nat, packets : Seq(Packet)] |->
       LET nal  == queue[s.ni]
           last == s.ni = Len(queue)
           stap == StapEnd(queue, s.ni)
           Send(ni, p) == [ni |-> ni, packets |-> Append(s.packets, p)]
       IN  IF s.ni > Len(queue) THEN s
           ELSE IF Len(nal) > kMaxPayload
           THEN [ni |-> s.ni + 1, packets |-> FuA(s.packets, nal, last)]
           ELSE IF stap.end > s.ni + 1
           THEN Send(stap.end,
                     WholePacket("STAP-A", SubSeq(queue, s.ni, stap.end - 1),
                                 stap.bytes, stap.end = Len(queue) + 1))
           ELSE Send(s.ni + 1, WholePacket("single", <<nal>>, Len(nal), last))]

Packetize(queue) ==
    Loop(PacketTurn(queue), [ni |-> 1, packets |-> << >>])[Len(queue)].packets

CodeBytes(c) == IF c = 4 THEN <<0, 0, 0, 1>> ELSE <<0, 0, 1>>
Write(buf, c, nal) == (buf \o CodeBytes(c)) \o nal

\* The bytes the encoder wrote: nals[i] after a start code of codes[i] bytes.
EncoderTurn(nals, codes) ==
    [s \in [i : Nat, buf : Seq(Bytes)] |->
       IF s.i > Len(nals) THEN s
       ELSE [i |-> s.i + 1, buf |-> Write(s.buf, codes[s.i], nals[s.i])]]

AnnexB(nals, codes) ==
    Loop(EncoderTurn(nals, codes), [i |-> 1, buf |-> << >>])[Len(nals)].buf

\* Everything up to the last loop: the packets are built and numbered.
SendH264(sets, slices, codes, isKeyFrame) ==
    LET found == FindNalUnits(AnnexB(sets \o slices, codes))
        sps   == IF isKeyFrame THEN Newest(found, SPS, m_spsNal) ELSE m_spsNal
        pps   == IF isKeyFrame THEN Newest(found, PPS, m_ppsNal) ELSE m_ppsNal
        built == Packetize(SendQueue(found, isKeyFrame, sps, pps))
    IN  /\ packets = << >>
        /\ m_spsNal' = sps /\ m_ppsNal' = pps
        /\ frame' = [sets |-> sets, slices |-> slices,
                     isKeyFrame |-> isKeyFrame, seq |-> rtpSeqNum]
        /\ packets' = [k \in 1..Len(built) |->
                         [packet |-> built[k],
                          seq |-> (rtpSeqNum + k - 1) % SeqModulus]]
        /\ rtpSeqNum' = (rtpSeqNum + Len(built)) % SeqModulus

\* The last loop: the packets are sent, all or those before an error.
SendPackets ==
    /\ packets # << >>
    /\ packets' = << >> /\ frame' = NoFrameYet
    /\ UNCHANGED <<m_spsNal, m_ppsNal, rtpSeqNum>>

\* An encoder writes both parameter sets in front of a key frame, or none
\* when they are what they were; there is no key frame before the first ones.
SendKeyFrame(slices, codes) ==
    \/ \E v, w \in Versions :
          SendH264(<<ParameterSet(SPS, v), ParameterSet(PPS, w)>>, slices,
                   <<4, 4>> \o codes, TRUE)
    \/ m_spsNal # << >> /\ SendH264(<< >>, slices, codes, TRUE)

SendOtherFrame(slices, codes) ==
    m_spsNal # << >> /\ SendH264(<< >>, slices, codes, FALSE)

\* The encoder uses one length of start code within a frame's pictures.
PacketizerNext ==
    \/ SendPackets
    \/ \E k \in 1..MaxSlices, code \in {3, 4} :
          \E slices \in [1..k -> Slices] :
             \/ SendKeyFrame(slices, [i \in 1..k |-> code])
             \/ SendOtherFrame(slices, [i \in 1..k |-> code])

PacketizerSpec == PacketizerInit /\ [][PacketizerNext]_packetizerVars

----------------------------------------------------------------------------
(* Properties *)

\* What a receiver has put together, nals, after packet p as well.
Take(nals, p) ==
    IF p.kind # "FU-A" THEN nals \o p.data
    ELSE IF p.start THEN Append(nals, <<p.type>> \o p.data[1])
    ELSE [nals EXCEPT ![Len(nals)] = @ \o p.data[1]]

ReceiverTurn(pkts) ==
    [s \in [i : Nat, nals : Seq(Seq(Bytes))] |->
       IF s.i > Len(pkts) THEN s
       ELSE [i |-> s.i + 1, nals |-> Take(s.nals, pkts[s.i])]]

\* The NAL units a receiver puts together from the packets, in order.
Received(pkts) ==
    Loop(ReceiverTurn(pkts), [i |-> 1, nals |-> << >>])[Len(pkts)].nals

\* What reaches a receiver, one that joins at this key frame too: the pictures
\* of the frame, byte for byte and in order, after the newest parameter sets
\* if it is a key frame; no packet over the size of the path, numbered without
\* a gap over the wrap of the 16-bit counter, the last one and no other marked
\* as the end of the frame.
PacketsCarryFrame ==
    packets # << >> =>
       /\ Received([i \in DOMAIN packets |-> packets[i].packet])
             = (IF frame.isKeyFrame THEN <<m_spsNal, m_ppsNal>> ELSE << >>)
                  \o frame.slices
       /\ frame.sets # << >> => frame.sets = <<m_spsNal, m_ppsNal>>
       /\ \A i \in DOMAIN packets :
             /\ packets[i].packet.size <= kMaxPayload
             /\ packets[i].seq = (frame.seq + i - 1) % SeqModulus
             /\ packets[i].packet.marker <=> i = Len(packets)
       /\ rtpSeqNum = (packets[Len(packets)].seq + 1) % SeqModulus
============================================================================
