-------------------------- MODULE JitterBufferProps --------------------------
(***************************************************************************)
(* What must hold of the jitter buffer.                                     *)
(***************************************************************************)
EXTENDS JitterBuffer

Timestamps == {stream[n].frame : n \in Packets}

IsFrame(f, t) ==
  /\ DOMAIN f = {"media", "pads", "kind", "complete"}
  /\ \A n \in f.media \cup f.pads : n \in Packets /\ stream[n].frame = t
  /\ \A n \in f.media : stream[n].kind # "empty"
  /\ \A n \in f.pads : stream[n].kind = "empty"
  /\ f.media \cup f.pads # {}
  /\ f.complete => HaveFirstPacket(f) /\ \E n \in f.media : stream[n].marker

(* Types.  While no buffer is used twice a frame in a list has a packet,    *)
(* every packet of its own timestamp; a frame is in one list; the decodable *)
(* ones are complete; and no more buffers are in use than there are.        *)
TypeOK ==
  /\ stream \in Streams
  /\ lost \in 0 .. MaxNumberOfFrames
  /\ fault \in {"none", "aliased", "starved"} /\ resetting \in BOOLEAN
  /\ {picked, held.ts, newest} \subseteq Timestamps \cup {0}
  /\ jb.last.initial \in BOOLEAN /\ jb.nack \in BOOLEAN /\ jb.latest \in Packets \cup {0}
  /\ jb.missing \subseteq Packets /\ jb.old \in 0 .. MaxOldPackets
  /\ fault = "none" =>
       /\ Listed(jb) \subseteq Timestamps
       /\ DOMAIN jb.dec \cap DOMAIN jb.inc = {}
       /\ \A t \in Listed(jb) : IsFrame(FrameOf(jb, t), t)
       /\ \A t \in DOMAIN jb.dec : jb.dec[t].complete
       /\ Cardinality(Listed(jb)) + lost + (IF held = NoHeld THEN 0 ELSE 1) <= MaxNumberOfFrames

Extracted == held = NoHeld /\ held' # NoHeld

(* A delta frame handed to the decoder without the mark for a missing frame *)
(* follows the newest frame handed over before: what the stream has between *)
(* the two is padding (IsContinuous, UpdateEmptyFrame, recycling, flushes). *)
(* After a reset of the decoding state an older key frame may come again;   *)
(* nothing is said of the frames up to the newest, which are decoded twice. *)
FollowsOrMarked ==
  [][Extracted /\ ~held'.missing /\ held'.frame.kind = "delta" =>
       \A n \in Packets : stream[n].frame \in newest + 1 .. held'.ts - 1 => stream[n].kind = "empty"]_vars

(* While the decoding goes on a frame handed over is newer than the one     *)
(* before; only a reset of the decoding state may go back.                  *)
InOrder == [][Extracted => jb.last.initial \/ held'.ts > jb.last.ts]_vars

(* The list of numbers to ask for again is no longer than the array it is   *)
(* copied to, and names no packet that is in a list (UpdateNackList).       *)
NackListRight ==
  /\ Cardinality(jb.missing) <= MaxNackListSize
  /\ fault = "none" =>
       \A t \in Listed(jb) : jb.missing \cap (FrameOf(jb, t).media \cup FrameOf(jb, t).pads) = {}
=============================================================================
