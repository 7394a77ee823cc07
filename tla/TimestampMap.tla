----------------------------- MODULE TimestampMap -----------------------------
(***************************************************************************)
(* VCMTimestampMap (timestamp_map.cc) as operators on a record: a circular  *)
(* list of timestamps with the slot of each one's frame info.  Timestamps   *)
(* wrap at TsSpace, which stands for 2^32; the code compares them as they   *)
(* are.                                                                     *)
(***************************************************************************)
EXTENDS Integers, FiniteSetsExt

CONSTANTS
  MemoryLength,   \* kDecoderFrameMemoryLength
  TsSpace         \* number of timestamps

ASSUME TimestampMapAssumption ==
  MemoryLength \in Nat /\ MemoryLength > 1 /\ TsSpace \in Nat /\ TsSpace >= MemoryLength

Positions == 0 .. MemoryLength - 1
None == MemoryLength   \* NULL instead of a slot

EmptyMap == [tuple |-> [i \in Positions |-> [ts |-> 0, slot |-> 0]], nextAdd |-> 0, nextPop |-> 0]

After(i) == (i + 1) % MemoryLength

\* Mutant: nothing is forgotten; a full list looks empty.
Add_NeverForgets(m, ts, slot) ==
  [tuple |-> [m.tuple EXCEPT ![m.nextAdd] = [ts |-> ts, slot |-> slot]],
   nextAdd |-> After(m.nextAdd),
   nextPop |-> m.nextPop]

Add(m, ts, slot) ==
  [tuple |-> [m.tuple EXCEPT ![m.nextAdd] = [ts |-> ts, slot |-> slot]],
   nextAdd |-> After(m.nextAdd),
   nextPop |-> IF After(m.nextAdd) = m.nextPop THEN After(m.nextPop) ELSE m.nextPop]

Used(m) == (m.nextAdd - m.nextPop) % MemoryLength
Nth(m, k) == (m.nextPop + k) % MemoryLength

\* Mutant: a newer entry will do.
Found_Newer(m, k, ts) == TRUE

Found(m, k, ts) == m.tuple[Nth(m, k)].ts = ts

\* Entries are forgotten up to one that is not older; that one is taken if it is ts.
Pop(m, ts) ==
  LET stops == {k \in 0 .. Used(m) - 1 : m.tuple[Nth(m, k)].ts >= ts}
  IN  IF stops = {} THEN [map |-> [m EXCEPT !.nextPop = m.nextAdd], slot |-> None]
      ELSE IF Found(m, Min(stops), ts)
      THEN [map  |-> [m EXCEPT !.nextPop = Nth(m, Min(stops) + 1)],
            slot |-> m.tuple[Nth(m, Min(stops))].slot]
      ELSE [map |-> [m EXCEPT !.nextPop = Nth(m, Min(stops))], slot |-> None]
=============================================================================
