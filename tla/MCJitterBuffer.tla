---------------------------- MODULE MCJitterBuffer ----------------------------
(* The jitter buffer with three short streams.  Padded: a key frame of several*)
(* NAL units, a delta frame of two packets of one unit, padding with its own  *)
(* timestamp, frames of one packet, the last a key frame.  Sliced: a delta    *)
(* frame of two units, padding with its timestamp, a key frame of two packets.*)
(* Cut: delta frames before a key frame of two packets, so that recycling ends*)
(* at the key frame with a decodable frame left, and the first frame may come *)
(* again.                                                                     *)
EXTENDS JitterBufferProps

Packet(frame, kind, first, marker) ==
  [frame |-> frame, kind |-> kind, first |-> first, marker |-> marker]

Padded == <<Packet(1, "key", TRUE, FALSE), Packet(1, "key", TRUE, TRUE),
            Packet(2, "delta", TRUE, FALSE), Packet(2, "delta", FALSE, TRUE),
            Packet(3, "empty", FALSE, FALSE),
            Packet(4, "delta", TRUE, TRUE), Packet(5, "key", TRUE, TRUE)>>
Sliced == <<Packet(1, "key", TRUE, TRUE),
            Packet(2, "delta", TRUE, FALSE), Packet(2, "delta", TRUE, TRUE),
            Packet(2, "empty", FALSE, FALSE),
            Packet(3, "delta", TRUE, TRUE),
            Packet(4, "key", TRUE, FALSE), Packet(4, "key", FALSE, TRUE),
            Packet(5, "delta", TRUE, TRUE)>>
Cut == <<Packet(1, "key", TRUE, TRUE), Packet(2, "delta", TRUE, TRUE),
         Packet(3, "delta", TRUE, TRUE),
         Packet(4, "delta", TRUE, FALSE), Packet(4, "delta", FALSE, TRUE),
         Packet(5, "key", TRUE, FALSE), Packet(5, "key", FALSE, TRUE),
         Packet(6, "delta", TRUE, TRUE)>>
MCStreams == {Padded, Sliced, Cut}
=============================================================================
