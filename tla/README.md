# A verification development for the RTP sender

The repository is a small C++ program that reads H.264 frames from a record
file and streams them to a media server: RTP and RTCP sender reports,
interleaved on TCP. This directory holds TLA+ models of its classes, the TLC
configurations that check them on small instances, and TLAPS proofs of the
theorems that matter most, for every value of the constants.

    tlc -config RtpSession.cfg MCRtpSession.tla      # model-check a run
    tlapm RtpStream_proofs.tla                       # check the proofs

`PROJECT.json` lists the components, runs, theorems, findings and hazards, and
maps every definition that models code to the lines it translates.

## 1. The system

### Components

**CustomFramedSource** (`include/CustomFramedSource.hh`,
`src/CustomFramedSource.cpp`). State: `frameQueue_` (at most `MAX_QUEUE_SIZE`
frames), `callback_`, `mutex_`. Operations: `setCallback`, `pushFrame`, and the
private `deliverNext`. `pushFrame` takes the lock, drops the oldest frame if
the queue is full, appends the new one and calls the callback with the *front*
of the queue, still holding the lock; the front is popped when the callback
returns. Hard: producers in several threads, a callback that blocks, throws or
is not there yet. Correct when frames leave in push order, each at most once,
only the oldest is ever dropped, and the queue respects its bound.

**RTPSendingSession** (`include/RTPSendingSession.hh`,
`src/RTPSendingSession.cpp`). State: the socket `tcpSock_`, `rtpSsrc_`, the
16-bit `rtpSeq_`, the 32-bit `pktCount_` and `octetCount_`, `basePts_`,
`lastRtcpPts_`, `sendMutex_`. Operations: `start` (draws an SSRC, opens and
connects a socket), `stop` (closes it), `sendFrame` (parses a frame into NAL
units, sends each whole or in FU-A fragments, and a sender report when a second
of presentation time has passed). Hard: `sendFrame` in several threads while
`send()` blocks, is refused or kills the process with SIGPIPE; `start` and
`stop` that take no lock; sessions that are stopped and started again with
their counters kept; wrapping counters; the boundaries of fragmentation.
Correct when what each connection carries is a stream of whole frames whose
fragments, sequence numbers, timestamps, SSRC and reports are consistent.
Within it:

- **parseAndSendFrame**, the scan of a frame for start codes. Correct when the
  units it sends are exactly what lies between the start codes.
- **packetizeAndSendNalu**, the fragmentation. Correct when every byte is sent
  once, in packets within the MTU, with the S, E and marker bits where they
  belong.
- **the timestamp conversion**, an expression in double arithmetic.

**main** (`src/main.cpp`): one session and one source per channel
(`MAX_CHANNELS`, which is 1), a callback that calls the session's `sendFrame`,
and a loop that reads frames, filters them by channel and type, and pushes
them. The file holds unresolved merge markers; the models follow its upstream
half, since the other calls functions that do not exist. Hard: every call may
fail and return early, the server may leave at any point, and the session's
`start` and `stop` are safe only in the order `main` keeps. Correct when each
accepted record is sent as its own frame in file order, nothing waits in the
queue, every way out closes what was opened, and the program ends.

**External**: the record-file reader (`ze_rec_read`, a static library), the
kernel's TCP sockets, the server. live555, OpenSSL and curl are linked or
included and never called. The manual test under `tests/` uses an interface the
classes no longer have, and is not built.

### How they interact

The read loop calls `pushFrame`; `pushFrame` calls the callback with
`CustomFramedSource::mutex_` held; the callback calls `sendFrame`, which takes
`sendMutex_` and calls `send()`. There are no queues or threads in between: a
server that does not read blocks the read loop, through both locks. The
classes protect themselves against several producers, and the properties are
stated for several.

## 2. Modules

| module | what it is |
| --- | --- |
| `DropOldestBuffer` | abstract specification: what the header of CustomFramedSource promises |
| `FramedSource` | the class CustomFramedSource |
| `MCFramedSource` | its symmetry for TLC |
| `FramedSource_proofs` | its theorems |
| `AnnexB` | `parseAndSendFrame`, byte by byte |
| `AnnexB_proofs` | its theorems |
| `FuFragmentation` | operators of `packetizeAndSendNalu`: sizes and header bits |
| `RtpClock` | operators of the timestamp conversion |
| `RtpTimeline`, `MCRtpTimeline` | the clock of a session over frames of any pts |
| `RtpClock_proofs` | facts about `%` and `\div`; the conversion is monotone and exact to a tick |
| `RtpTimeline_proofs` | its theorems |
| `RtpSession` | the class RTPSendingSession (extends FuFragmentation and RtpClock) |
| `MCRtpSession` | frames and symmetry for TLC |
| `RtpSession_proofs` | type correctness of RtpSession |
| `RtpStream_proofs` | what RtpSession puts on its connections |
| `UnitStream` | abstract specification: what a session promises its receivers |
| `RtpLink`, `MCRtpLink` | RtpSession with a receiver on every connection |
| `RtpLink_proofs` | that RtpLink implements UnitStream |
| `Sender` | the program: `main` over FramedSource, RtpSession and the record file |
| `EndToEnd`, `MCSender` | the program and the receiver of RtpLink on its connection |
| `Sender_proofs` | its theorems |

### FramedSource

A frame is the number of its push: its bytes and attributes are copied in and
handed out unchanged, so only its identity matters. `PushFrame` is the whole
of `pushFrame` up to the callback: lock, drop, append, enter the callback if
there is one. `CallbackReturns` and `CallbackThrows` are the two ways out;
both release the lock, only the first pops. `SetCallback` installs or removes
the callback. `mutex` is the producer inside the callback; a push without a
callback takes and releases the lock in one step, which no other thread can
tell from two. `pushed`, `delivered`, `dropped` and `unserved` record history.
A callback that re-enters the same source would lock a `std::mutex` it owns;
this is undefined behaviour and not modelled.

### AnnexB

The two nested loops, one step per turn: `SkipByte` and `UnitBegins` are the
branches of the outer loop, `KeepLooking`, `UnitEnds` and `LastUnit` the turns
and exits of the inner one, `Return` the end. `units` holds the first byte and
the size of every unit handed to `packetizeAndSendNalu`.

### RtpSession

A frame is a pts and the sizes of its NAL units: what `AnnexB` sends. Units may
be empty, except the last of a frame. One step is one `send()`: `SendFrame`
takes the lock and sets `basePts` (`EnterFrame`); `SendWhole` and `SendFragment` send one
packet each; `FinishWithReport` and `Finish` end the call and unlock.
`StartUp`, `CreateSocket` and `Connect` are the three stages of `start`
(`socket()` and `connect()` may fail), `CloseSocket` is `stop`.

The environment: a socket is `unused`, `opening`, `up`, `gone` (the server left)
or `closed`; `PeerGone` may happen at any time. `wire[s]` is what `send()`
accepted on socket `s` while it was up, in order. The code never looks at
`send()`'s result, so its own state changes the same way whether or not the
item is accepted. `Sigpipe` is the death of the process in a `send()` on a
socket whose peer is gone. TCP is reliable and ordered, so nothing is lost or
reordered before the peer leaves. Partial sends within one item are not
modelled: sockets are blocking, and a blocking `send()` returns short only when
interrupted by a signal handler, of which the program installs none.

`start` and `stop` access the session without a lock. Running one during a
`sendFrame` is a data race. What the methods do is in `StartUp`, `CloseSocket`
and `EnterFrame`; `Start`, `Stop` and `SendFrame` are the same with a guard that
is not in the code but asked of callers: no `start` and no `stop` while a
`sendFrame` or another `start` is in progress (`Quiet`), and no `sendFrame`
during a `start`. RtpSession takes it as an assumption, and the mutants of two
properties (section 4) drop it from `Start` and show what then breaks; Sender
shows that `main` meets it.

Fields of packets after the comment `history` are not in the packets of the
code: they say which frame, unit and bytes an item is, and what had been sent
before it, and only properties read them.

### RtpClock and RtpTimeline

`Timestamp` is the conversion with its truncation, the inexact product
(`FpShort`: the elapsed times for which the double falls just short of an
integer, one tick being lost), and what converting an out-of-range double does
in the two builds `build.sh` makes: saturate (ARM) or wrap (a host build).
`NewBase` is the choice of `basePts_`. The product does fall short: 300 us are
27 ticks and give 26; at 25 frames a second frame 35, at 1.4 s, gets 125999
instead of 126000, and 137 of the first 2000 frames are a tick early.

`RtpTimeline` is `sendFrame` reduced to its clock: the base, and the pts and
timestamp of the last frame, over *any* integers as pts; `first`, the pts of the
first frame that had one of zero or more, is history. -1 stands for "no base
yet" in the code, so a negative base is replaced at every frame; and after
13.25 hours the ticks leave 32 bits.

### UnitStream and RtpLink

`UnitStream` is what a session promises, without packets, locks or counters:
at most one connection is open, frames go unit by unit, a unit arrives whole
and in order on the open connection or, when there is none, is lost; a
connection may close between any two units, but a new one begins with a new
frame.

`RtpLink` adds to RtpSession the other end of every connection: a depacketizer
as RFC 6184 describes it, which is external to the code. It knows only what a
packet says (whole, S, E, or neither) and appends bytes; a unit it completes
from bytes that do not continue one another is `Garbage`, which no frame has.
Under the refinement mapping `sending` is what is left of the frame of the
thread that holds the lock, and `got` is what the receivers completed, so every
packet but the one with the last byte of a unit is a stutter, and that one is
`SendUnit`. A unit cut by the loss of its connection counts as lost.

### Sender

`Sender` extends RtpSession and instantiates FramedSource as `Source`. `pc` says
which call of `main` comes next, and each step conjoins it with the action of
the component that `main` calls: `StartSession` and `OpenSession` with `StartUp`,
`CreateSocket` and `Connect`; `ReadRecord` with `PushFrame`; `Deliver`, the
call of `sendFrame` inside the callback, with `EnterFrame`; `Sending` with one
`send()` or the end of `sendFrame`; `CallbackReturns` with the return and the
pop. `StopSessions` is the loop at the end of `main`, `Destructors` the
destructors that run on every `return`. Early returns: bad arguments, a `start`
that fails at either stage, a file that does not open. The reader is external;
any prefix of a file may be all that is read, since an error ends the loop like
the end of the file. The guards RtpSession asks of callers are *not* in these
actions, which conjoin the bare methods: that `main` needs none is
`SessionDiscipline`.

### EndToEnd

`Sender` and `RtpLink` both extend RtpSession; `EndToEnd` extends them both, so
the receiver of `RtpLink` takes what the program sends. A step is a step of the
program with what the receiver makes of it (`Received`). This is the whole way
of a frame, from a record to the units a server has put together again, and the
properties here compare the two ends without looking at anything in between.

## 3. Properties

- `LeavesInOrder`, `BacklogAccount`, `ImplementsDropOldest` (FramedSource):
  order, at-most-once delivery, only the oldest dropped. `BacklogAccount` is
  the price of one delivery per push: frames that waited for a callback are
  never caught up with; their number is exactly the number of pushes that
  delivered nothing.
- `BoundedLag`: what waits in the queue is among the `MAX_QUEUE_SIZE` latest
  frames, what was dropped is not: never late by more than the capacity, and
  never dropped early.
- `UnitsCutAtCodes`, `NothingLeftOut`, `ScanReturns` (AnnexB): units are cut at
  start codes and nowhere else, adjacent ones are exactly one start code apart,
  nothing is left out, and the scan ends.
- `ScanAdvances`: every turn of either loop leaves strictly less to do. The
  inner loop stops *at* the next start code and the outer one goes on from
  there and sees that code again; neither may give a position back.
- `FragmentsReassemble` (RtpSession): fragments of one unit follow each other
  without gap, overlap or intruder.
- `PacketsSound`: the MTU and the S, E and marker bits.
- `FramesContiguous`: frames are whole, units in order under one timestamp,
  reports only between frames.
- `CountersMatchWire`: sequence numbers and the counts in reports agree with
  what was sent, through wraps and restarts.
- `OneSsrcPerConnection`, `ReportsSpaced`.
- `TimestampsFollowPts`: over all connections, in whatever order frames come,
  an earlier or equal pts has an earlier or equal timestamp (ARM build).
- `SendFrameReturns`: a `sendFrame` that has the lock gives it back.
- `TurnsAdvance`: every turn of a `sendFrame` goes on to a later byte of its
  unit, to the next unit or to its end: the reason why it gives the lock back.
- `CountsFromFirst` (RtpTimeline): timestamps are zero while all pts have been
  negative, and from the first frame whose pts is not, for good, the time since
  that frame. It is stated with `first`, so a clock that keeps a negative base
  and one that is set anew at later frames both violate it (two mutants).
- `NeverBack`: on the ARM build the clock never runs back unless the pts do.
- `TracksElapsed`: on a host build, once a frame has set the base (`basePts >= 0`),
  two successive timestamps differ by the elapsed time, modulo 2^32, give or
  take one tick. From one side of the base to the other it is give or take two,
  and no less: both times are truncated toward the base and both may lose a
  tick. From 300 us before the base to 300 us after it 54 ticks elapse and the
  timestamps differ by 52.
- `ImplementsUnitStream` (RtpLink): receivers put together the units of the
  frames sent, whole, in order, once.
- `WireIsFile` (Sender): what is on the wire for the n-th `sendFrame` has the pts and
  units of the n-th accepted record. The callback gets the *head* of the queue,
  so this would fail by one for ever after one frame that stayed behind.
- `DeliveredIsOnWire`: while the server stays, every unit of every delivered frame is
  on the wire to its last byte.
- `NothingQueued`: the queue is empty between records and nothing is dropped.
- `CleanExit`: every way out leaves no socket, file or lock behind.
- `SessionDiscipline`: every step of the program is a step of RtpSession, so all that is
  proved of the session holds of the program. Its content is the guards Sender
  leaves out: `main` never starts or stops the session during a `sendFrame`. One
  mutant stops it then (a callback that does not wait), another starts it.
- `MainAdvances`: every step of `main` leads to a later stage of the program, a
  later record, a later part of the frame being sent, or out of the callback.
- `ProgramEnds`: it terminates, or SIGPIPE kills it.
- `ReceivedIsFile` (EndToEnd): what the server has put together is the file from
  its beginning, unit by unit: none cut, missing, repeated or out of order,
  wherever the connection ended. Frames without units, which nothing shows on
  the wire, are the only ones it may pass over (`Leads`).
- `NothingLost`: while the server stays, it has every unit of every frame whose
  callback returned.

## 4. Runs

| run | bounds | states | shows |
| --- | --- | --- | --- |
| `FramedSource.cfg` | 2 producers, queue of 3, 9 pushes | ~700 | order, accounting, lag, implements DropOldestBuffer |
| `FramedSourceStranded.cfg` | 1 producer, queue of 2, 3 pushes | | violation: frames stay queued |
| `AnnexB.cfg` | all frames of up to 10 bytes over {0, 1, 2} | ~660 000 | units are what lies between start codes, the scan advances and ends |
| `AnnexBThreeByte.cfg` | up to 9 bytes over {0, 1, 2} | | violation: three-byte start codes |
| `RtpSession.cfg` | 2 threads, 2 sockets, 3 frames | ~176 000 | all stream properties, `TurnsAdvance` |
| `RtpLink.cfg` | 2 threads, 2 sockets, 3 frames, no symmetry | ~291 000 | implements UnitStream |
| `RtpTimelineArm.cfg` | pts from -3 to 96, top at 16 ticks | ~9 700 | the saturating clock |
| `RtpTimelineHost.cfg` | the same | ~9 700 | the wrapping clock |
| `Sender.cfg` | files of up to 4 of 7 records, 2 sockets, queue of 2 | ~39 800 | the program end to end, `ProgramEnds` included |
| `RtpSessionLive.cfg` | 2 threads, 2 sockets, 3 frames | ~30 000 | `SendFrameReturns` |
| `RtpSessionChannels.cfg` | 2 frames | | violation: RTP and RTCP share a connection |
| `RtpSessionLeak.cfg` | 2 frames | | violation: start, start, stop leaks a socket |

*Bounds.* Three times as many pushes as slots let the queue fill, overflow and
drain more than once. Ten bytes hold two start codes with a unit each, an empty
unit, runs of zeros before a code and a code at the very end; values other than
0 and 1 are compared with nothing, so one of them stands for all.
With `RTP_MTU` = 4 a fragment carries two bytes: sizes 0, 1, 5 and 6 give an
empty unit, a whole one, two full fragments, and a start, a middle and a
one-byte end; size 4, exactly the MTU, is in the liveness run. `SeqMod` = 4 and
`CountMod` = 8 wrap within one or two frames. The pts 1, 3 and 7 make two reports
due, give a tick that is lost (elapsed 2) and, with `TsMod` = 8, a time past the
top (elapsed 6). Frames may come in any order of pts, so an elapsed time may be
negative. Two sockets are one restart, with connects that fail and servers that leave at
any point. Three frames over two threads let each thread send before and after
the other. The threads and producers are interchangeable, and symmetry is used
in the safety runs only.

25 pts units to nine ticks make `RtpTimeline` truncate at almost every pts, two
elapsed times are exact and fall short, and from the lower bases the ticks pass
the top of 16 twice. The records of `Sender` are three frames (units sent whole, in
two and in three fragments, empty ones, and a frame without units) and one
record for each condition of the filter; four of them fill and wrap the
counters, are enough for two reports, and are more than the queue holds. `main`
starts its session once, so one connection is all there is; there are two
sockets, so that a second `start` would show.

*Fairness.* `RtpSession!FairSpec` is weak fairness of the steps of each
`sendFrame` in progress. A blocking `send()` ends when the server reads or when
the connection fails; a server that keeps the connection and never reads is
excluded, and there is no timeout in the code that would end such a `send()`.
Nothing is assumed of `start`, `stop` or new frames. `EndToEnd!FairNetSpec` is
weak fairness of the program's one thread, on the same ground: `connect` and
reads of a file end, and so does a `send()`. `AnnexB!FairSpec` is weak
fairness of the one sequential computation. `FramedSource!FairClientSpec` is
used by a violation run only and assumes as much as a good client offers:
producers go on pushing, the callback is installed in the end and always
returns.

*Stopping.* Deadlock is checked in all runs but those of AnnexB, where the scan
returns and nothing follows. `RtpSession!Rest` marks the states where the bounds are used up
or the process is dead, `Sender!Ended` those where the program has ended.

*Mutants.* Every property of a passing run has at least one mutated definition of the
model (a dropped guard, a missing update, an off-by-one, next to the definition
it replaces and marked `mutant`) under which TLC finds it violated:
`PROJECT.json` lists them.

## 5. Findings

- `include/RTPSendingSession.hh:16` says that RTP and RTCP use two separate TCP
  connections. The code sends reports on `tcpSock_` like every packet
  (`SeparateConnections`).
- `include/CustomFramedSource.hh:12` says that frames pushed are delivered to
  the callback and that the oldest is dropped when the queue is full. A frame
  pushed before `setCallback` is delivered only if later pushes dislodge it,
  one per push; when they end, the rest of the queue stays (`EveryFrameLeaves`).
- `include/RTPSendingSession.hh:32` says that `stop` cleans up the session. A
  second `start` overwrites the socket of the first, which `stop` then cannot
  close (`StopCleansUp`).
- `include/RTPSendingSession.hh:38` says that a frame is one or more NALUs with
  start codes. Only four-byte start codes are recognised
  (`NoCodeInsideUnit`).

## 6. Proofs

All theorems hold for any threads and producers, frames, queue capacity, MTU of
at least 3, moduli, SSRCs and bounds; the assumptions are the `ASSUME`s of the
modules (a fragment must have room for one byte beside its two-byte prefix, and so on).
The bounds on pushes, frames and sockets are constants, so a theorem holds
whatever they are.

**FramedSource_proofs.** `TypeCorrect`, `Order`, `Backlog`, `Lag`, `Refinement`. The
invariant: the queue holds the *latest* pushes, in order, without gaps
(`frameQueue[i] = pushed - Len(frameQueue) + i`), everything older was delivered or dropped,
and a callback in progress implies a non-empty queue. `LeavesInOrder` alone is not
inductive: it does not say that a new frame is newer than all of them. The
refinement maps `pending` to the set of queued frames; the head of the queue is the
oldest pending frame because of that invariant. `Lag` adds that a dropped frame
leaves a full queue, so that `MAX_QUEUE_SIZE` pushes are newer (`LateOnly`).

**AnnexB_proofs.** `TypeCorrect`, `Cuts`, `Complete`, `Advances`. The invariant is what each loop has
already looked at: every start code before `pos` has opened a unit, none lies
strictly between `pos` and `i`, and once a unit has been sent the outer loop
stands at a start code or at the end. The lemma `CodesApart` (two start codes
do not overlap) is what lets the inner loop start four bytes on. `Advances`
needs of it only that the positions stay inside the frame and the inner loop
ahead of the outer one.

**RtpSession_proofs.** `TypeCorrect`, `TurnAdvances`. Types need to know which thread is
active: `OneActivity` says that exactly the holder of `sendMutex` has a call in
progress, that its position is inside its unit, that no `start` is under way
meanwhile, and that an opening socket is empty. `TurnAdvances` then follows turn
by turn: a fragment is never empty (this is where the MTU of at least 3 is
needed) and ends inside its unit or with it.

**RtpStream_proofs.** `Reassembly`, `Packets`, `Contiguity`, `Counts`: one
invariant, `SInv`, which states the properties for the items on the wires
(`Streams`), that the wrapping counters are the true counts modulo their width
(`TrueCounts`), and what links the *last* item of the open connection to the
call in progress (`Frontier`): the next fragment begins where the last one
ended, and the call is at the start of its frame or right after a packet of it. The
properties alone are not inductive: without the frontier the next item could be
anything. `OneSsrc` and `Cadence` are about arbitrary pairs of items of a
connection; their invariant `PInv` bounds every report on the open connection by
`lastRtcpPts` and gives every item the object's SSRC, once `start` is over.

The third invariant of this module, `BaseInv`, is that every item on every wire
was timed by its own pts from *today's* base: the base is set once and survives
`stop`. `Timeline` follows with `TimestampMonotone`.

**RtpClock_proofs, RtpTimeline_proofs.** `TimestampMonotone`: rounding down, the
lost tick of `FpShort` and saturation each keep the order. An exact
product that loses its tick is not overtaken by a shorter time, which is
truncated to at least one tick less.
The invariant `ClockInv` says that a timestamp is always the one of the last pts
counted from the base, that a negative base is the pts of the last frame, and
that any other is `first`. `FromFirst` follows; without `first` in it nothing
would say that the base stays. `Monotone` needs it for frames timed from a
negative base. `Tracks` rests on `Carry`, which says when a difference of
quotients carries one. On one side of the base a lost tick happens only where
there is nothing to round, so the two errors do not add up to two ticks
(`TicksDifference`, `TicksOneSide`); across it they do, and to no more
(`TicksAcross`). `HostDifference` takes the order of the frames away: the way
back is the way there, reversed.

**RtpLink_proofs.** `Link`: LinkSpec implements UnitStream. The invariant adds
`RxInv` to `SInv`: a receiver in the middle of a unit has put together exactly
the bytes up to the end of the last packet of its connection. `SInv`'s frontier
then says that the call in progress goes on right there, so the packet with the
E bit completes the unit that is at the head of what is left of the frame.
`RxInv` says nothing of connections that are closed: what they hold no longer
changes.

**Sender_proofs.** `Discipline` first. Sender's actions carry none of the guards
of RtpSession's `Start`, `Stop` and `SendFrame`; they are derived from `Phase`:
while `main` is anywhere but at `sending` no `sendFrame` is in progress, and
while it is anywhere but at `socket` no `start` is. So each call is one
RtpSession allows (`SessionStep`, `StopIsQuiet`), and every behaviour of the
program satisfies `RtpSession!Spec`. `ProgramStreams` is then a corollary: all that
RtpStream_proofs shows. `FileOrder`, `Delivery`, `Prompt`, `Exit` and
`MainTypes` rest on one invariant, `MInv`: the queue holds the frame being
delivered or nothing, and its number is the number of records accepted and of
`sendFrame`s begun (`Queue`, `File`); which sockets may be open at each `pc`
(`Sockets`); and, while the server stays, how far the frame being sent has got
on the wire (`Wired`), without which `Delivery` is not inductive.

`Advance` goes through the calls of `main` in order; inside `sendFrame` it is
`TurnAdvances`.

*The program and its server* (same module). A receiver changes nothing the
program could see, so `MInv` and the invariant of RtpLink_proofs hold together
(`NextNet`), all that is proved of `MainSpec` holds of `NetSpec` (`Program`), and
`ProgramStream` follows from `Link`. But `UnitStream` says
nothing of the file: it leaves open which frames are sent. `ReceivedFile`
closes that gap. The property is not inductive, as it does not say which unit
comes next; its invariant, `Cursor`, is that the file goes on, after the units
the open connection has received, at the unit the `sendFrame` in progress is
at, or else at the next frame to be sent. The lemmas under it are about the file and
the units alone: they survive a longer file (`StoryGrows`, `ReachesGrows`), the
next unit extends them (`StoryExtends`), and a frame without units left leads to the
next one (`ReachesNext`). That a receiver may be in the middle of a unit is
`RxInv`'s business. `EverythingArrives` joins three results: delivered units are on
the wire to their last byte (`Wired`), a packet that ends a unit has given the
receiver that unit (`EndsArrive`), and it bears its size in the file (`File`).

*Model-checked only*: the liveness properties (`SendFrameReturns`,
`ScanReturns`, `ProgramEnds`), since the prover does not treat `ENABLED`, and
the four violations. What makes the first three true is proved all the same:
every step leaves less to do (`ScanAdvances`, `TurnsAdvance`, `MainAdvances`, for
any frames and files). What TLC adds is that a step is always possible and that
fairness makes it happen.

## 7. Not modelled

- The program's own code is five files of 523 lines (less than half of `main.cpp` counts), and its operations are
  all modelled. The rest of the repository, over 64 000 lines of headers under
  `src/thirdlib`, is vendored: live555, OpenSSL and curl, of which nothing is
  called, and the header of the record-file library, which Sender models by the
  way `main` uses it. A model of them would describe no behaviour of this program, so the
  share of the repository that the map covers stays small.
- The second half of `main.cpp`'s merge markers, and several channels:
  `MAX_CHANNELS` is 1, and a session and a source share nothing with those of
  another channel.
- The bytes of headers, the NTP time in reports, and the payload bytes: no
  property depends on them beyond their positions.
- Host names and ports, log output, the commented-out request to the server,
  the sleep between frames.
- The build files and the manual test, which is not built.
- Negative pts outside RtpTimeline: the recorded streams have none.
- A callback that calls back into its own source: undefined behaviour, and
  `main`'s does not.

## 8. Plan

The modules of the plan are all there: FramedSource and its abstract
specification, AnnexB, the clock, RtpSession, its receivers and UnitStream, the
program, both ends of its connection; so are their safety proofs. What could follow:

1. several channels in Sender, should `MAX_CHANNELS` grow: the order of `start`s,
   the early return with some sessions up, one lost server among several;
2. the merged `main`, when its conflict is resolved.
