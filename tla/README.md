# A verification project for WebRTC-VideoEngine-Demo

The repository is a Windows demo that opens a camera, sends its pictures to
itself (or a peer) over UDP with the WebRTC video engine and an H.264 codec
plug-in, and shows the received pictures in a window. All source paths below are
relative to `src/webrtc_videoengine_demo/`.

## 1. Inventory

### The program's own code

| component | source | state | operations | what makes it correct |
|---|---|---|---|---|
| Demo session | `main.cc` | the channel, capture device, renderers, transport, codecs | the set-up sequence with its early returns, the wait for a key, the teardown sequence | nothing is used after it was released; everything acquired is released; threads do not call into a deleted channel |
| Window manager | `vie_autotest_win.cc`, `vie_window_creator.cc`, `vie_window_manager_factory_win.cc` | two windows, `_terminate`, the event thread, `_crit` | CreateWindows, TerminateWindows, EventLoop, destructor | creation returns only with both windows; termination ends the thread; nothing is used after destruction |
| H.264 encoder and decoder | `h264_impl.cc`, `h264_impl.h` | `inited_`, the x264 handle, the output image with its length, the callback; the decoder's two-picture start buffer | InitEncode, Encode, SetRates, Release; InitDecode, Decode, Reset, Release | each delivered image is the encoding of the picture it is delivered for; every input is decoded once; a failed call leaves a state the next call can work with |

### The engine the demo is built on (`webrtc/`)

The send path, in the order a picture takes it:

| component | source | state | what makes it correct |
|---|---|---|---|
| Video capture | `modules/video_capture` | captured picture, callback | pictures delivered in order, none after StopCapture |
| RTP packetisation and send | `modules/rtp_rtcp/source/rtp_sender.cc` | next sequence number, SSRC, send flags, NACK bit-rate window, marker of the last packet | unique consecutive sequence numbers; a retransmission only of stored packets, not more often than the minimum interval, within the NACK bit rate; padding only after a complete frame |
| Packet history | `modules/rtp_rtcp/source/rtp_packet_history.cc` | a ring of packets with numbers and send times | a look-up by a 16-bit number finds the one packet sent under it |
| Pacer | `modules/pacing/paced_sender.cc` | three queues, two budgets, the last process time | order, no loss, no duplicates, a bounded burst, bounded waiting |
| FEC, RTCP, NACK and TMMBR | `modules/rtp_rtcp/source` | reports, request lists | |
| Bandwidth estimation | `modules/bitrate_controller`, `modules/remote_bitrate_estimator` | estimate, loss history | estimate within its bounds |
| UDP transport | `test/channel_transport` | sockets, receive threads, callbacks | no callback after StopReceiving; orderly deletion |

The receive path:

| component | source | state | what makes it correct |
|---|---|---|---|
| Jitter buffer, NACK list | `modules/video_coding/main/source` | frames in assembly, decoding state, missing numbers | a frame is released complete and in order; a number is missing exactly while it is in the list; the list is bounded |
| Frame timestamps | `generic_decoder.cc`, `timestamp_map.cc` | a ring of ten frame infos, a map from timestamps to them | a decoded picture gets the render time noted in the call that gave it |
| Render stream | `modules/video_render` | the queue of frames, buffers, one event with a timer, the render thread | shown in order, when due, once; nothing shown after Stop; no frame forgotten |
| RTP receiver, statistics, FEC receiver | `modules/rtp_rtcp/source` | per-stream counters, recovered packets | counters over wrapped numbers |

What everything runs on:

| component | source | state | what makes it correct |
|---|---|---|---|
| Process thread | `modules/utility/source/process_thread_impl.cc` | the list of modules, the thread, an event | no module is called after it was deregistered; each is called when it is due; a thread that was told to stop ends |
| Threads, events | `system_wrappers/source/thread_win.cc`, `event_win.cc` | alive flags, the handle, the event | Stop returns true only for a thread that ended |
| Reader-writer lock, condition variable | `system_wrappers/source/rw_lock_generic.cc`, `condition_variable_event_win.cc` | counts of readers and writers, waiting and active; three events | a writer is alone; every waiter is woken in the end |

The engine that joins these (`video_engine`) is in the repository only as headers
and is linked as a library. The audio engine, `talk`, `ffmpeg`, `x264` and `json`
are in the tree, not part of the program's own logic.

### How they interact, and what is hard

* Three threads work on the send path: the encoder's packetises, the process
  thread runs the pacer and sends, the RTCP thread answers NACKs. The RTP sender,
  the history and the pacer have a lock each, so one call of `RTPSender` is
  several atomic steps, and the pacer drops its lock around its callbacks.
* The pacer keeps sequence numbers, the history keeps the packets: what one
  evicts the other may still hold.
* Sequence numbers are 16 bits and wrap; the history computes with them.
* x264 holds pictures back and gives them out later; the decoder plug-in starts
  by gathering two inputs.
* The render thread is woken by one event that the decode thread sets only for
  the first frame of the queue, and by one one-shot timer; Stop gives a thread up
  after two seconds, so two may be about.
* Three threads share the jitter buffer: the network thread inserts, the decode
  thread picks a frame, waits, and extracts it later, the process thread collects
  the numbers to ask for again and, when there are too many, recycles frames the
  others know of.
* The decoder's timestamps find a frame info in a ring of ten that goes on while
  the decoder gives no pictures; avcodec gives pictures later than their inputs, and
  the plug-in stamps each with the input of the moment.
* `ProcessThreadImpl::Stop` returns after two seconds with the thread still running,
  maybe beside the thread of the next Start, with one event for both.
* The event-based condition variable resets an event outside the lock that guards
  its counts.

`PROJECT.json` lists the hazards one by one with the line where each bites and the
properties about it.

## 2. The modules

| module | models | EXTENDS / uses |
|---|---|---|
| `PacketRing` | the fields and methods of `RTPPacketHistory` as operators on a record | |
| `PacketHistory` | the history with its callers: numbers are taken in order, stored or skipped, fetched by number or size | `PacketRing` |
| `PacketWindow` | abstract: the window of the last packets stored | |
| `PacketHistoryProps`, `PacketHistoryProofs` | properties, inductive invariant, refinement; proofs | `PacketWindow` |
| `PacedSender` | `PacedSender`: lists, budgets, the loop of `Process` cut where it drops its lock | |
| `PacerQueue` | abstract: three queues of numbers, and what is being sent | |
| `PacedSenderProps`, `PacedSenderBurst` | properties, fairness, refinement; the pacer beside a leaky bucket | `PacerQueue` |
| `PacedSenderProofs` | proofs | |
| `SendPath`, `SendPathProps`, `SendPathProofs` | `RTPSender` over the three threads; properties; proofs | `PacketRing`, `INSTANCE PacerQueue` |
| `H264Encoder`, `H264EncoderProps` | `H264EncoderImpl` with x264's delay and failures; properties | |
| `TimestampMap` | `VCMTimestampMap` as operators on a record | |
| `H264Decoder`, `H264DecoderProps` | `H264DecoderImpl` and its start-up buffering, inside `VCMGenericDecoder` and `VCMDecodedFrameCallback`; properties | `TimestampMap` |
| `H264Proofs` | proofs about both halves of `h264_impl.cc`; the encoder's definitions have names of their own (`EncoderInit`, `EncoderSpec`, ...) so that one module can extend both | the four above |
| `JitterBuffer`, `JitterBufferProps`, `JitterBufferProofs` | `VCMJitterBuffer` with frame buffers, session infos and decoding state, as `VCMReceiver` drives it; properties; proofs | |
| `RenderStream`, `RenderStreamProps`, `RenderStreamProofs` | `IncomingVideoStream` and `VideoRenderFrames`; properties; proofs | |
| `ProcessThread`, `ProcessThreadProps`, `ProcessThreadProofs` | `ProcessThreadImpl` on `ThreadWindows`; properties; proofs | |
| `EventCondVar` | `ConditionVariableEventWin` as operators on a record | |
| `RWLock`, `RWLockProps`, `RWLockProofs` | `RWLockGeneric` on two of these; properties; proofs | `EventCondVar` |

A module named `MC...` with a `.cfg` of the same name instantiates one of them for
TLC. Definitions named `X_Y` with the comment "Mutant" are faulty variants of `X`:
put in the place of `X`, each makes TLC find the property named in `PROJECT.json`
violated.

The modules compose: `PacedSender` is shown to implement `PacerQueue`, and
`SendPath` is built on `PacerQueue` and on the operators of `PacketRing`, so that it
need not carry budgets and the wrap of numbers again. `H264Decoder` is the plug-in
and the generic decoder around it in one module, since the callback runs inside the
call of Decode.

### How state and actions correspond to the code

**Packet history.** One critical section serialises all methods, so a method is an
action. `hist.ring` is the parallel vectors, `hist.prev` is `prev_index_`, `hist.max`
is `max_packet_length_`. `hist.ring[i].seq` is the stored number, `SeqSpace` being
2^16; `packet` stands for the bytes and is what the properties compare. The callers'
part is the sequence number: it is taken once for each packet
(`IncrementSequenceNumber`), also for padding that is never stored. `WindowFits` is
the only assumption: no packet stays in the ring while the stream goes once round
the number space. The engine stores 600 packets (`vie_defines.h:67`) and the space has
65536 numbers.

**Pacer.** `proc` says where the process thread is: idle, in `TimeToSendPacket`, in
`TimeToSendPadding`. The steps between are what it does with the lock; every control
call and `SendPacket` may come between any two. Times are kept as elapsed times,
counted up to the bound past which no comparison tells them apart (`MaxAge` for
packets, above every queue limit).
`time_last_send_us_` is not initialised by the constructor, so its age starts with
any value. `capture_time_ms_last_queued_` and `..._sent_` only feed traces.

**Send path.** `BuildRTPheader`, `Store` and `SendPacket` are the three critical
sections a packet passes in `SendToNetwork`; `TimeToSendPacket` and
`PrepareAndSendPacket` the fetch from the history and the transport's answer;
`TakePaddingNumber` and `SendPadding` the two halves of `SendPadData`;
`ReSendPacket` and `QueueRetransmission` those of `ReSendPacket`. RTX is off, the
pacer on, FEC packets are stored as not to be retransmitted (the default). The NACK
bit rate only removes requests.

**H.264 encoder.** `x264.pending` is what x264 holds, `image` the picture whose bytes
`encoded_image_` has. The codec settings are not modelled, so SetRates, picture
sizes and frame types are left out. The build is the one with `USEX264`.

**H.264 decoder and frame timestamps.** `TakeInput` is what `VCMGenericDecoder::Decode`
does before it calls the plug-in: the times of the input go into `infos[nextInfo]`
(`_frameInfos`), the timestamp into the map. `Forget`, `NoPicture` and `Decoded` are the
three ways out: an error, `WEBRTC_VIDEO_CODEC_OK` without a picture, and the callback,
which pops the map. `avcodec` is the set of inputs avcodec has whose picture it may still
give: the packet of a call adds to it (two inputs in the start-up packet, none of them the
input of the call), a picture may be of any input in it, any may be lost, and a new or
closed context has none. At most `MaxDelay` are held back from one call to the next. The
plug-in stamps the picture with the timestamp of the input it is called with (681),
whichever input the picture is of: `shown` keeps the three apart, the input of the picture,
that of the call, and that whose times the picture went out with. A timestamp is a number below `TsSpace` that stands for 2^32;
the map compares timestamps as they are, as the code does.

**Jitter buffer.** A packet is its number in the stream that was sent: numbers and
timestamps in the model do not wrap, since the buffer spans far less than half of
either space. `jb.dec` and `jb.inc` are `decodable_frames_` and `incomplete_frames_`
by timestamp, `jb.last` is `last_decoded_state_`, `jb.missing` is
`missing_sequence_numbers_`. A frame buffer is not an object of its own: a frame that
is in no list and not with the decoder is free. `lost` counts buffers that are in no
list and yet not free. `picked` is the frame `FrameForDecoding` has chosen and, with the
lock released, waits to extract, `newest` the timestamp of the newest frame the decoder
was given, which only a property looks at. Where the code uses one buffer twice (`fault = "aliased"`)
or asserts that one is left (`"starved"`), what follows is undefined and the model stops.
A call holds `crit_sect_` from start to end, so each is a step, but for `FrameForDecoding`,
which is three. It is H.264 without decoding errors: frames
are extracted when complete, no VP8 picture ids or temporal layers.

`StreamAssumption` says what the sender does. Packets are numbered in the order of their
timestamps: one thread numbers a frame after the other, and padding, which comes only after a
marker, takes the timestamp of the last frame plus the time since then
(`rtp_sender.cc:500`); that it is not later than the next frame's presumes that the
delay from capture to sending does not grow in between. The packets of a frame are of
one kind: x264 repeats the headers before a key frame (`h264_impl.cc:163`), they are put into one
packet with what follows while it fits, and a packet's kind is that of its first unit.

**Process thread.** What is done under `_critSectModules` is a step, but for the pass
over the modules, which calls them with the lock held: there `lock` is the thread.
`thread` is `_thread`, `alive` and the steps of `Locks` and `Runs` are the loop of
`ThreadWindows::Run`. `Stop` gives a thread up as soon as it has told it to stop: that
covers the two seconds and every shorter wait. Creating a thread does not fail,
and `Wait` has no errors.

**Reader-writer lock.** The fallback for Windows versions without native locks
(`rw_lock.cc:24`). `at[t]` says where a thread is; what it does inside one critical
section is one step, and each call on a Windows event another.

**Render stream.** What happens under a lock is one step. `threads[t].at = "callback"`
is the thread lock held over the callback, `stopping` the stream lock held while Stop
waits. `StopReturns` stands both for a thread that ended and for one that was given
up. Under one lock the clock is read once, and a timer that is due goes off before
more time passes. Creating a thread does not fail, frames have no texture.

## 3. What is checked

| run | instance | states | shows |
|---|---|---|---|
| `history` | 4 numbers, rings of 1 and 2, 7 packets | 109 000 | look-ups are exact, the ring keeps its shape, and it implements the window |
| `pacer` | 2 packets, rates 0 and 1, limit none and 0, every control call | 108 000 | nothing lost, doubled or out of order; it implements the queue; high and normal packets are sent in the end |
| `pacer_burst` | 2 packets of sizes 1 and 3, rates 1 and 2, intervals of 1 and 2 | 152 000 | bytes sent within the budget stay in a leaky bucket |
| `send_path` | 3 numbers, a history of 2 | 509 000 | padding outside frames, original order, what may be lost, retransmissions only on request |
| `h264_encoder` | 4 pictures, delay 2, x264 failing anywhere | 1 465 | no picture unaccounted for, no bytes packetised twice |
| `h264_encoder_input` | 2 pictures, delay 1 | violated | see findings |
| `h264_decoder` | 9 inputs, 2 resets, delay 1, memory of 4, 8 timestamps | 1 530 000 | inputs in order, the start-up buffer used once; a picture has the times of the call that gave it, and is dropped only at a wrap |
| `jitter_buffer` | 3 streams of 7, 8 and 8 packets, 3 frame buffers, a list of 1, age 3, 1 old packet | 418 000 | a delta frame that is not marked follows what was decoded before; frames in order; the list names no packet that is there |
| `process_thread` | 2 modules, 2 threads, intervals 1 and 3, longest wait 2 | 135 000 | only registered modules are called; no sleep past a due time; threads end and modules are served |
| `rw_lock` | 2 readers, 2 writers | 27 000 | exclusion; no writer sleeps on a free lock |
| `rw_lock_readers` | 2 readers, 1 writer | violated | see findings |
| `render_stream` | 4 frames, 2 threads, limit 0 | 129 000 | order, silence after Stop, buffers, wake-ups, progress |

Why the bounds are enough. *History*: with seven packets, rings of one and two slots
go round several times and the four numbers nearly twice, so hint, wrap and
overwriting meet in every combination. *Pacer*: two packets in two
lists show order, duplicates and overtaking; budgets take negative, zero and
positive values; `BudgetFloor` is the 500 ms floor in units of the interval.
*Send path*: a history of two with three numbers makes eviction and every split of
the two-part calls happen. *Encoder*: a delay of two with four pictures has a full
and an emptying x264. *Decoder*: nine inputs go twice round a memory of four, and the
eight timestamps, starting anywhere, wrap at any input of the start-up or after it; a
delay of one, and the two inputs of the start-up packet, let pictures come late, out of
order and not at all.
*Jitter buffer*: the streams have a key frame of several NAL units, frames of two
packets of one unit and of two units, padding with a timestamp of its own and with that
of a frame, and a late key frame to recycle up to; in the third, recycling ends at the key
frame with a decodable frame left, and the first key frame may come and be decoded
again. Three buffers run out, one missing number is the limit of the list, and every
packet may come at any time, again, or never. *Process thread*: intervals lie below and above the longest wait,
and a thread that was given up meets its successor. *Lock*: two of a kind are needed for a late event to meet a
second waiter. *Render stream*: frames may be too old, late, due, early or too far
ahead, the queue limit is reached, and a thread that was given up meets its
successor.

`CHECK_DEADLOCK FALSE` appears in every configuration since the models stop when
their bounds on packets, inputs or calls are used up, the jitter buffer when a
buffer is used twice, and the lock when nobody asks for it any more. The process
thread does not stop - time always passes - and its progress is a property.

`PacedBurst` allows two intervals and not one: `Process` spends what is left of a
budget also after a slow callback, and then gets the next interval's in full.

`FollowsOrMarked` allows padding between two frames. It says nothing of frames with
`missing`: extracted after they were recycled and begun again, these go to
the decoder with `kMissingFrame` set. Nor does it say anything of frames up to the newest the decoder
has had: those come again after a reset of the decoding state, in the order in which the packets do
(section 5). `DroppedOnlyAtWrap` names
`MemoryLength - 2` inputs because that many entries can stand before the one just added.

### Fairness

*Pacer* (`Fairness` in `PacedSenderProps`): the process thread runs, time passes,
callbacks return - they are ordinary calls without waiting - and one that is called
again and again succeeds some day, without which nothing could be promised.
`HighServed` and `NormalServed` assume the pacer is left on. `NormalServed` also
assumes that retransmissions stop coming before it; low-priority packets may starve
(section 5). Capture times are all equal in this run: normal packets with ever older
capture times could overtake for ever, which callers do not do.

*Render stream*: render threads run, callbacks return, timers fire. That `Wait`
returns after its time-out is not relied on, so progress comes from the event and
the timer alone.

*Process thread*: a thread that has what it needs goes on (`Runs`: a wait that is over
returns, a module returns, a pass ends), and time passes. A thread that waits for
`_critSectModules` gets it some day (strong fairness of `Locks`): the thread that holds it releases it at the end of each pass
and control calls are finite, though a critical section promises no order.

### Findings

* `h264_encoder_input`: `h264_impl.h:71` says the encoded image will be returned. With x264
  holding pictures back, the callback gets the encoding of an earlier picture under
  the time of the present one, or the last image again (`h264_impl.cc:395`).
* `rw_lock_readers`: `condition_variable_wrapper.h:36` says WakeAll wakes all
  threads. The last waiter of one WakeAll resets the event outside the critical
  section (`condition_variable_event_win.cc:161`), after a second WakeAll may have set it for
  another reader, who sleeps on with the lock free.

## 4. What is proved

Every theorem holds for all values of the constants that satisfy the named
assumptions. Each component's invariant is inductive: `Init => Inv` and
`Inv /\ [Next]_vars => Inv'`, with one lemma or step per action.

**Packet history** (`PacketHistoryProofs`), for every ring size, number space, set of lengths and
length of run, from the assumptions of `PacketRing` and `PacketHistory`
(the ring has a slot, there are at least two numbers, lengths are positive, times do
not precede the start):

* `RingInvariant`: `Spec => []RingInv`. `LookupExact` is not inductive: that a number
  occurs once follows only from how numbers relate to ages. `RingInv` adds that slots
  fill from the front, that empty slots are zero (so number 0 could be mistaken for
  one of theirs), that no packet is stored twice, and that a stored number is the next
  number less the packet's age, up to one wrap (`AgeFromNumber`). The proof has one
  lemma per action; the long one, `PutStep`, splits on whether the ring was full.
* `TypeCorrect` and `LookupIsExact` follow: two live slots with one number have one
  age, hence hold one packet; an empty slot lies at or past `prev_index_` and the hint
  and the search prefer a live one.
* `ImplementsWindow`: `Spec => WindowSpec`. The window is the ring read from its oldest
  slot on (`RingRead` says what that gives, under `RingInv`). `StoredLast` shows that a
  packet put into a full or a partly full ring appears at the window's end and pushes the first out; `SentChanges` that a send time
  noted in a slot is noted in the window's one place for it; `BestFittingIndex` that
  the search for padding finds a nearest length. The answers agree by exactness of look-up.

**Pacer** (`PacedSenderProofs`), for any packets, rates, limits and intervals; ages are counted
to `MaxAge`, assumed above every limit:

* `TypeCorrect`: the budgets stay between 500 ms of the highest rate below zero and one
  longest interval above it.
* `ListsStay` and `LosesNoPacket`: the invariant adds to `ListsInv` only the types; the argument follows the numbers in the
  lists, which time and budgets leave alone. While the lock is dropped the head of the
  list stays, since `PushBack` appends and refuses a number that is there.
* `ImplementsQueue`: `Spec => QueueSpec`, the refinement `SendPath` relies on. Each action
  is a step of the queue or leaves its lists and what is being sent as they were.
* `BurstBounded`: `BurstSpec => []PacedBurst`. The invariant `Bucket` weighs what is in the
  bucket together with what the budget still holds (`Spendable`) against the time since
  the budget was last filled. It needs `BurstAssumption`: the floor of 500 ms at every rate
  holds a packet. The proof failed without it, and for a reason: with a maximum rate of 0 among
  the rates TLC finds `PacedBurst` violated, since the floor forgives what each packet overspends.
  At 24 kbit/s and more the floor is 1500 bytes; the demo's codec is given at least 200.

**Send path** (`SendPathProofs`), for any size of the history, any number of packets and any
interleaving of the three threads, from `SendPathAssumption` (the numbers do not wrap; that the look-up is
exact when they do is `LookupIsExact`):

* `PaddingBetweenFrames`: `MarkerInv` adds that the marker is set only while the last number
  taken is not inside a frame.
* `SendsInOrder`: what was sent comes before what waits in the normal list (`SentInv`), the list
  is in order, and all of it before the packet the encoder thread has (`WaitingInv`); the
  packet in a callback is the head of its list (`CallInv`).
* `ResendsOnRequest`: retransmissions, plus one if the packet is in the high list, plus one if
  the RTCP thread has it, are at most the requests granted (`RequestInv`).
* `LosesOnlyBehind`: `RingInv` says that the ring has each packet with fewer than `HistSize` later
  ones in the slot that many steps back. So a packet `TimeToSendPacket` does not find was
  overwritten, whatever the hint of the look-up is.
* `TypeCorrect`.

**H.264 encoder** (`H264Proofs`), for any delay and number of pictures:
`LosesNoPicture`, `SendsFragmentsOnce`, `EncoderTypeCorrect`. The invariant adds `OnePlace`: x264 holds
each picture once and none that went out with fragments. That the last image is
delivered again without fragments is why the second property survives the finding.

**H.264 decoder and frame timestamps** (`H264Proofs`), for any number of inputs,
any ring length above one and any number of timestamps not smaller (`TsSpace >= MemoryLength`;
the code has 10 and 2^32): `StartsUpOnce`, `ShowsTimeOfCall`, `DropsOnlyAtWrap`,
`TypeCorrect`. The invariant `Holds` says that the map and the ring of infos move
together: the map has the last inputs without a gap, and entry k leads to the slot with
that input's times. The entry of the call's own input is always the newest, so `Pop` either
reaches it or stops at an entry with a higher timestamp, which only a wrap puts before it.
`ShowsTimeOfCall` therefore says that the bookkeeping of the generic decoder is right: the
times are those noted in this call, hence never those of an input before the picture's. It
does not say that they are the times of the input the picture is of; they are not, as
section 5 says.

**Render stream** (`RenderStreamProofs`), for any delays, limits, numbers of frames and
threads: `ShowsInOrder` (everything shown came before everything that waits),
`StopsSilently` (without `incoming_render_thread_` no thread has the thread lock),
`WakesInTime` (while no thread is about to set it, the timer is right for the first
frame: stronger than the property, which needs all threads asleep), `BuffersStayBounded`,
and `TypeCorrect`, which has the relations between `incoming_render_thread_`, `running_` and
Stop, and between a thread's place and its frame, beside the ranges.

**Process thread** (`ProcessThreadProofs`), for any modules, threads and intervals:
`CallsRegistered`, `TypeCorrect`, and the action property `WakesInTime`. The first two are
inductive together: `todo` is a tail of the modules there were when the lock was taken,
and only the holder of the lock may change the list.

**Reader-writer lock** (`RWLockProofs`), for any finite number of threads:

* `LockInvariant`: the fields that bar threads count exactly the threads inside.
* `TypeCorrect`: the counts of the lock and of its condition variables are those of the threads.
* `Exclusion`: a writer is inside alone. Three lemmas say what a step does to the
  threads inside - one enters, one leaves, none moves - and nothing about the
  condition variables is used: the loops around `SleepCS` make exclusion independent
  of which thread is woken and why.
* `WritersWoken`: `Spec => []NoWriterForgotten`, which does need the condition variables.
  `WaitInv` says how their counts and events follow the threads that sleep, `WriterAttended`
  that, while a writer sleeps, a thread is inside (and wakes one when it leaves), or another
  writer is on its way back to the loop, or a call of `Wake` is under way, or its event is set.
  Writers wait on a condition variable that is only ever woken one at a time, so
  the late reset that loses a reader (section 3) cannot lose a writer.

**Jitter buffer** (`JitterBufferProofs`), for any set of streams that satisfies
`StreamAssumption`, packets in any order, doubled or lost, and any sizes and limits
(`JitterBufferAssumption`): `TypeCorrect`, `NackListIsRight`, `DecodesInOrder` and
`DecodesOrMarks`. All four come from one invariant, `IInv`, whose part `Sound` says:

* `Buffers`: frames are made of their own packets, a frame is in one list, the decodable ones
  are complete; and no more buffers are used than there are (`InUse`).
* `Accounted`: a number asked for is not in a frame and not beyond the latest received. Without the
  second half a packet that extends the list could name what is there.
* `Chained`: a decodable delta frame newer than all the decoder has had follows the newest of them or another
  decodable frame, with at most padding between. It is what "decodable" was meant to say, and it
  speaks of `newest` and not of the decoding state, because recycling resets the state
  while decodable frames are left.
* `Behind`: the stream has only padding between the newest frame handed over and the decoding state, which
  padding moves on (`UpdateEmptyFrame`); so a frame continuous with the state follows the newest.
* `Newer` and `Follows`: what holds of the frame picked between the two critical sections
  of `FrameForDecoding`. `Follows` is said of its timestamp, not of its buffer, so it survives a
  recycling and a new beginning of the frame.

The loops of the code (`HandleTooLargeNackList`, `HandleTooOldPackets`, `CleanUpOldOrEmptyFrames`,
`FindAndInsertContinuousFrames`) are recursive functions of the round. What holds
before the first round, and after a round if it held before, holds after all of them:
`UpTo` shows that over a set of rounds with a least element (`LeastElement`) instead of
by induction over data, and `RoundsExist` that the function is what its
definition says. `LoopEnds` shows that the loops that recycle do end, since each call removes a
frame and an empty list of frames clears the list of numbers; `NackListIsRight` needs it.

The proof of `DecodesOrMarks` changed the property. An earlier form compared a frame with the one
handed over just before. It could not be proved, and TLC refuted it on a longer stream:
recycling that finds a key frame among the incomplete frames resets the decoding state with
decodable frames left; an old key frame that arrives again is then decoded again, and the
delta frame that was left comes after it, unmarked. The third stream of the run now has that case.

Only model-checked: `HighServed` and `NormalServed`, `QueueServed` and `Progress`. They are
liveness properties under fairness, which the prover cannot reason about (it has no
ENABLED). `DeliversTheInput` and `NoReaderForgotten` are violated, see the findings. Every other property
of a run is stated by a theorem.

## 5. Observed while modelling, not run

Each of these shows in a single call, needs no more than reading the line, or was seen
in the model and has no statement in the repository that it contradicts:

*Send path*

* Pause lets a running `Process` go on sending (`paced_sender.cc:268`, against `paced_sender.h:80`).
* Low-priority packets are left out of the override for the time without sending
  (`paced_sender.cc:339`, against the comment at line 31).
* Padding may leave before the last packet of its frame: the marker is set when the
  header is built (`rtp_sender.cc:536`, against the comment at line 532).
* The minimum time between two copies of a packet (`rtp_packet_history.h:49`) is checked when a NACK is granted;
  the pacer sends later and passes 0 (`rtp_sender.cc:784`), so two copies can leave one right after the other.
* SetSSRC and SetSequenceNumber jump to other numbers with the old packets still in the
  history (`rtp_sender.cc:1473`).

*H.264 plug-in and timestamps*

* x264 is opened with the rates of the codec before (`h264_impl.cc:166`), is not told of a
  new picture size (417), and a key frame is asked for through an output field (244).
* A failed open closes a NULL handle (194); a failed encode leaves `inited_` set (274).
* A decoded picture goes out with the times of a later input. Decode sets the timestamp of the
  input it was just given on whatever picture avcodec returns (681). The first packet has
  only the two inputs before the present one (641-646), and avcodec holds pictures back where
  the stream has B-frames, as x264's preset "medium" makes them (149): each such picture is
  looked up, and shown, at a later frame's render time. `h264_impl.h:159` says "Decode
  encoded image (as a part of a video stream). The decoded image will be returned to the user
  through the decode complete callback." In `H264Decoder`, TLC refutes
  `shown.call # 0 => shown.picture = shown.call` with the first picture after the start-up;
  what does hold is `RenderTimeOfCall`. It is the finding of `h264_encoder_input` on the
  receiving side.
* The decoder drops the third input (641); Reset keeps the start-up buffer (464); the
  destructor frees it again (456); the first Release closes a context never opened (707).
* `timestamp_map.cc:78` says of an entry with a higher timestamp that the one looked for is
  not in the list. After timestamps wrapped it is, behind entries from before the wrap, and
  pictures are dropped until those are pushed out.

*Jitter buffer* (`modules/video_coding/main/source`)

* A frame that is complete before the frame before it stays in the incomplete list when late padding
  moves the decoding state on (`UpdateOldPacket`): nothing looks for continuous frames
  then, and the stream stalls until the next key frame or flush.
* `isFirstPacket` is set at the start of each NAL unit (`rtp_format_h264.cc:44`) and not only of the
  frame (`packet.h:46`), so a key frame whose parameter sets are lost counts as complete and is
  decoded, though `kNoErrors` (`video_coding.h:47`) means never to decode with errors.
* A flush indicator leaves the buffer just taken in no list (`jitter_buffer.cc:683`). After
  as many as there are buffers the assertion at line 585 fails.
* An empty frame that is in a list, or was recycled, is freed twice (`jitter_buffer.cc:737`).
* The frame `FrameForDecoding` picked may be recycled and begun again before it is
  extracted; the decoder then gets it incomplete (with `kMissingFrame` set).
* The result `kFlushIndicator` of `GetFrame` is not looked at.
* Recycling resets the decoding state "to make sure the next frame decoded is a key frame"
  (`jitter_buffer.cc:1134`). When it recycles incomplete frames, decodable ones are left, and the next
  frame decoded may be a delta frame of these. Until then no frame is old, so
  that an old key frame that comes again is decoded again before it.
* Recycling drops the list of missing numbers up to the estimated first packet of the
  key frame, which may itself be missing and is then never asked for.

*Threads*

* A thread that Stop gave up may take the event `RegisterModule` set for the new thread
  (`process_thread_impl.cc:102`), which then sleeps up to 100 ms past the due time: the
  exception in `PromptWake`.
* `ProcessThreadImpl::Start` compares a bool with `>= 0` and so never fails (`process_thread_impl.cc:54`).
* `thread_wrapper.h` allows several tries to Stop; the second does not wait, since the
  first closed the handle (`thread_win.cc:141`).
* `video_render_frames.h` calls the queue sorted; frames are appended (`video_render_frames.cc:98`).
* A render thread that fails to start leaves `incoming_render_thread_` set, which the next
  Start asserts to be NULL (`incoming_video_stream.cc:229`).

## 6. Plan

Done: the send path from number to wire, the plug-in with the frame timestamps, the
jitter buffer, the process thread, the lock, the render queue, and the proofs of section 4.
What would come next:

1. *Teardown*: `main.cc` and `vie_autotest_win.cc` against the transport's and window's
   threads. The order of the calls is in the repository, but what most of them do is in the
   prebuilt engine, so much of the model would be external.
2. *Sequence number jumps* (SetSSRC, SetSequenceNumber) in `PacketHistory`, with the window
   cut at the jump.
3. *Render stream and process thread* with threads that fail to start.

Not modelled, and why: rate control and bandwidth estimation are filters over reals; FEC codes,
RTCP and RTP parsing are byte-level arithmetic, where a model would repeat the program;
capture and the UDP transport are driver and overlapped I/O behind callbacks;
the RTP receiver, the receive statistics and the media optimisation keep counters and rates that
each call updates alone under one lock, which tests reach well;
tracing has no effect on the others; the audio engine, `talk`, `ffmpeg`, `x264` and
`json` are other programs' code that the demo does not run through, or links. They are
also most of the tree's lines: the share of lines the model covers is small for that reason.
