------------------------------- MODULE SendPath -------------------------------
(***************************************************************************)
(* RTPSender (webrtc/modules/rtp_rtcp/source/rtp_sender.cc, with            *)
(* rtp_sender_video.cc) between three threads: the encoder thread, which    *)
(* packetises; the process thread, which runs the pacer and is called back  *)
(* to send; and the RTCP thread, which answers NACKs.  The history and the  *)
(* pacer have locks of their own, so one call of RTPSender is several steps.*)
(*                                                                          *)
(* RTX is off, the history stores, and the pacer is enabled.  A packet is   *)
(* its sequence number; the numbers are too few to wrap (PacketHistory is   *)
(* about the wrap).                                                         *)
(***************************************************************************)
EXTENDS PacketRing, Sequences

CONSTANTS
  HistSize,       \* number of packets the history stores
  MinResend,      \* OnReceivedNACK's 5 + avg_rtt
  StartTime,      \* the clock's value at the start
  MaxTime,        \* bound on the clock
  MaxPackets      \* bound on the sequence numbers taken

ASSUME SendPathAssumption ==
  /\ HistSize \in Nat \ {0}
  /\ MinResend \in Nat \ {0} /\ StartTime \in Nat /\ MinResend <= StartTime
  /\ MaxTime \in Nat /\ StartTime <= MaxTime
  /\ MaxPackets \in Nat /\ MaxPackets < SeqSpace

VARIABLES
  lists, busy,    \* the pacer
  hist,           \* packet_history_
  marker,         \* last_packet_marker_bit_
  kinds,          \* what each number was taken for; the next number follows
  enc,            \* where the encoder thread is
  nack,           \* the packet the RTCP thread has fetched, or NoPacket
  held,           \* the packet the process thread has in its buffer, or NoPacket
  now,            \* clock_
  originals,      \* numbers put on the wire for the first time, in order
  granted,        \* number of requests granted for each packet
  resent          \* number of times each packet was retransmitted

pacerVars == <<lists, busy>>
wireVars == <<originals, granted, resent>>
vars == <<lists, busy, hist, marker, kinds, enc, nack, held, now, originals, granted, resent>>

Numbers == 1 .. MaxPackets
Kinds == {"media", "last", "fec", "padding"}

Pacer == INSTANCE PacerQueue WITH Ids <- Numbers

\* sequence_number_, read and incremented in one critical section.
NextNumber == Len(kinds) + 1
TakeNumber(kind) == Len(kinds) < MaxPackets /\ kinds' = Append(kinds, kind)

(***************************************************************************)
(* The encoder thread                                                       *)
(***************************************************************************)
Ready(n) == [at |-> "ready", n |-> n]
Built(n) == [at |-> "built", n |-> n]
Stored(n) == [at |-> "stored", n |-> n]

\* Mutant: the marker bit of an earlier frame is not reset.
BuildRTPheader_KeepsMarker(last) ==
  /\ enc.at = "ready"
  /\ TakeNumber(IF last THEN "last" ELSE "media")
  /\ marker' = (marker \/ last)
  /\ enc' = Built(NextNumber)
  /\ UNCHANGED <<pacerVars, hist, nack, held, now, wireVars>>

BuildRTPheader(last) ==
  /\ enc.at = "ready"
  /\ TakeNumber(IF last THEN "last" ELSE "media")
  /\ marker' = last
  /\ enc' = Built(NextNumber)
  /\ UNCHANGED <<pacerVars, hist, nack, held, now, wireVars>>

\* FEC packets follow the last packet of a frame.
BuildFec ==
  /\ enc.at = "ready" /\ enc.n # NoPacket
  /\ kinds[enc.n] \in {"last", "fec"}
  /\ TakeNumber("fec")
  /\ enc' = Built(NextNumber)
  /\ UNCHANGED <<pacerVars, hist, marker, nack, held, now, wireVars>>

StorageOf(n) == IF kinds[n] = "fec" THEN "DontRetransmit" ELSE "AllowRetransmission"

\* SendToNetwork stores the packet ...
Store ==
  /\ enc.at = "built"
  /\ hist' = Put(hist, [seq |-> enc.n, len |-> 1, packet |-> enc.n,
                        type |-> StorageOf(enc.n)], 1)
  /\ enc' = Stored(enc.n)
  /\ UNCHANGED <<pacerVars, marker, kinds, nack, held, now, wireVars>>

\* ... and hands it to the pacer.
SendPacket ==
  /\ enc.at = "stored"
  /\ Pacer!Accept("Normal", enc.n)
  /\ enc' = Ready(enc.n)
  /\ UNCHANGED <<hist, marker, kinds, nack, held, now, wireVars>>

(***************************************************************************)
(* The process thread                                                       *)
(***************************************************************************)
StartSending ==
  /\ Pacer!Start
  /\ UNCHANGED <<hist, marker, kinds, enc, nack, held, now, wireVars>>

Retransmission == busy.prio = "High"

\* A packet that the history lost counts as sent.
TimeToSendPacket ==
  /\ busy.at = "sending" /\ held = NoPacket
  /\ IF Fetchable(hist, busy.id, 0, Retransmission, now)
     THEN /\ hist' = MarkSent(hist, busy.id, now)
          /\ held' = busy.id
          /\ UNCHANGED pacerVars
     ELSE Pacer!Answer(TRUE) /\ UNCHANGED <<hist, held>>
  /\ UNCHANGED <<marker, kinds, enc, nack, now, wireVars>>

OnWire ==
  IF Retransmission
  THEN resent' = [resent EXCEPT ![held] = @ + 1] /\ UNCHANGED originals
  ELSE originals' = Append(originals, held) /\ UNCHANGED resent

\* Mutant: the callback reports success also when the transport failed.
PrepareAndSendPacket_IgnoresFailure(ok) ==
  /\ busy.at = "sending" /\ held # NoPacket
  /\ Pacer!Answer(TRUE)
  /\ IF ok THEN OnWire ELSE UNCHANGED <<originals, resent>>
  /\ held' = NoPacket
  /\ UNCHANGED <<hist, marker, kinds, enc, nack, now, granted>>

\* Mutant: the callback reports failure for a packet that was sent.
PrepareAndSendPacket_ReportsFailure(ok) ==
  /\ busy.at = "sending" /\ held # NoPacket
  /\ Pacer!Answer(FALSE)
  /\ IF ok THEN OnWire ELSE UNCHANGED <<originals, resent>>
  /\ held' = NoPacket
  /\ UNCHANGED <<hist, marker, kinds, enc, nack, now, granted>>

\* The transport takes the packet or fails; the pacer is told.
PrepareAndSendPacket(ok) ==
  /\ busy.at = "sending" /\ held # NoPacket
  /\ Pacer!Answer(ok)
  /\ IF ok THEN OnWire ELSE UNCHANGED <<originals, resent>>
  /\ held' = NoPacket
  /\ UNCHANGED <<hist, marker, kinds, enc, nack, now, granted>>

\* SendPadData takes a number, only between frames ...
TakePaddingNumber ==
  /\ busy.at = "padding" /\ held = NoPacket
  /\ marker
  /\ TakeNumber("padding")
  /\ held' = NextNumber
  /\ UNCHANGED <<pacerVars, hist, marker, enc, nack, now, wireVars>>

\* ... and sends the padding packet under it; a failure ends the loop.
SendPadding(ok) ==
  /\ busy.at = "padding" /\ held # NoPacket
  /\ held' = NoPacket
  /\ IF ok THEN originals' = Append(originals, held) /\ UNCHANGED pacerVars
     ELSE Pacer!PaddingAnswer /\ UNCHANGED originals
  /\ UNCHANGED <<hist, marker, kinds, enc, nack, now, granted, resent>>

\* The bytes asked for are sent, or there is no place for padding.
PaddingDone ==
  /\ busy.at = "padding" /\ held = NoPacket
  /\ Pacer!PaddingAnswer
  /\ UNCHANGED <<hist, marker, kinds, enc, nack, held, now, wireVars>>

(***************************************************************************)
(* The RTCP thread                                                          *)
(***************************************************************************)
\* A request that the history refuses changes nothing.
ReSendPacket(n) ==
  /\ nack = NoPacket
  /\ Fetchable(hist, n, MinResend, TRUE, now)
  /\ hist' = MarkSent(hist, n, now)
  /\ nack' = n
  /\ granted' = [granted EXCEPT ![n] = @ + 1]
  /\ UNCHANGED <<pacerVars, marker, kinds, enc, held, now, originals, resent>>

QueueRetransmission ==
  /\ nack # NoPacket
  /\ Pacer!Accept("High", nack)
  /\ nack' = NoPacket
  /\ UNCHANGED <<hist, marker, kinds, enc, held, now, wireVars>>

Tick ==
  /\ now < MaxTime
  /\ now' = now + 1
  /\ UNCHANGED <<pacerVars, hist, marker, kinds, enc, nack, held, wireVars>>

Init ==
  /\ Pacer!Init
  /\ hist = Allocate(HistSize)
  /\ marker = FALSE
  /\ kinds = <<>>
  /\ enc = Ready(NoPacket)
  /\ nack = NoPacket
  /\ held = NoPacket
  /\ now = StartTime
  /\ originals = <<>>
  /\ granted = [n \in Numbers |-> 0]
  /\ resent = [n \in Numbers |-> 0]

Encoder == (\E last \in BOOLEAN : BuildRTPheader(last)) \/ BuildFec \/ Store \/ SendPacket

ProcessThread ==
  \/ StartSending
  \/ TimeToSendPacket
  \/ \E ok \in BOOLEAN : PrepareAndSendPacket(ok)
  \/ TakePaddingNumber
  \/ \E ok \in BOOLEAN : SendPadding(ok)
  \/ PaddingDone

Rtcp == (\E n \in Numbers : ReSendPacket(n)) \/ QueueRetransmission

Next == Encoder \/ ProcessThread \/ Rtcp \/ Tick

Spec == Init /\ [][Next]_vars
=============================================================================
