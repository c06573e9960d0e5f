# Verification of psvitaauto

psvitaauto is an Android Auto receiver ("head unit") for the PS Vita: it finds a
phone on the local network and connects to it over TCP, runs the Android Auto
handshake inside which a TLS session is negotiated, receives H.264 video, decodes it
in hardware and draws it, and sends touches and buttons back. This directory holds
TLA+ models of its own code, the TLC configurations that check them and TLAPS proofs
about them. Paths below are relative to the repository.

## 1. Inventory

### 1.1 Components

| component | code | state | operations | modelled in |
|---|---|---|---|---|
| access-unit queue, decode thread, double buffer | `src/vita/vita_video.c` 152-214, 318-425 | `au_slots`, `au_read`, `au_write`, `au_count`, `au_mutex`, `au_cond`, `ready_tex`, two textures | `feed_decoder`, `decode_thread`, the main loop, the shutdown | `AuQueue` |
| access-unit splitter | `vita_video.c` 152-168, 216-262 | `au_buf`, `au_len`, the scan's `i`, `au_start`, `cur_has_vcl` | `handle_video` | `AuSplitter` |
| session | `src/core/session.c` | receive buffer, message under assembly, attached TLS context | `aa_session_send`, `_poll`, `_next_message`, `_set_tls` | `Session`; by bytes in `Wire` |
| frame codec | `src/core/frame.c` | none | encode, decode | `FrameCodec` |
| stream reader and writer | `src/core/stream.c` | buffer, message under assembly | the unencrypted twin of the session, used by tests | `Wire` |
| TLS wrapper | `src/core/tls.c` | input and output memory BIO, mbedTLS context | encrypt, decrypt; handshake and creation | `TlsBio`; handshake outcomes in `Control`, creation and release in `Startup` |
| control channel | `src/core/control.c` | `stage`, `state`, `session_by_channel`, `input_bound`, TLS context | `aa_control_poll` (version, TLS, discovery, `dispatch`), its senders, `aa_control_send_touch`, `_send_key` | `Control`, `AaMsg` |
| mock phone | `src/host/mock_phone.c` | `step`, `result`, TLS state | `mock_phone_step` | `MockPhone` |
| input capture | `vita_video.c` 96-150 | `prev_buttons`, `prev_touch`, last position | `handle_input` | `InputCapture` |
| head unit with a phone | `src/host/harness.c` `run_mock`; the loop of `vita_video.c` | the two state machines, the user's hand and the messages in flight | both loops, presses and touches, the connection's end | `HandshakeSystem` |
| phone discovery | `src/core/discover.c` | the address to probe, the probe's socket | own address, probe of 254 addresses in turn | `Startup` |
| program startup and exit | `vita_video.c` `main`, `avcdec_create`, `aa_transport_connect` | what is acquired, what the variables say | every step that may fail, the block at `done:` | `Startup` |
| hardware decoder | `src/vita/avcdec.c` | handle, `have_picture`, output pointer | decode, set_output (`AuQueue`), create, destroy (`Startup`) | `AuQueue`, `Startup` |
| TCP transport | `src/core/transport.c` | socket | connect (`Startup`), receive what there is (`Wire`), end of stream (`Session`) | its outcomes |
| version codec | `src/core/version.c` | none | encode, decode | its outcome, in `Control` |
| message codec | `src/core/aa_msg.c` | none | decode or refuse | its outcome, in `Control` |
| certificate, build, packaging, generated protobuf code | `aa_cert.c`, CMake files, `aa_proto_generated/` | data | none | no behaviour over time |

### 1.2 How they interact

The **main thread** looks for the phone by discovery or takes the configured
address, connects, creates the decoder and its two textures, starts the **decode
thread** and then creates the control channel. It loops: one `aa_control_poll`, one
`handle_input`, one drawing. A poll takes at most one message from the session. The
session reads the socket until it is empty, takes one frame after the other, decrypts
those marked ENCRYPTED, and stops at the first complete message. A media message of
the video channel reaches the splitter by callback; the splitter hands each whole
access unit to `feed_decoder`, which copies it into the ring under `au_mutex` and
signals. The decode thread takes the oldest slot, unlocks, decodes **out of the slot,
without the mutex,** into the texture that `ready_tex` does not name, flips
`ready_tex`, and only then, under the mutex again, gives the slot back. The main
thread draws the texture named by `ready_tex`, also without a lock. After START the
main thread frees everything; nobody stops or joins the decode thread.

The control channel and the phone are two state machines that only react: each
waits for a specific message in each stage and ignores the others. The head unit
attaches its TLS context to the session at VERSION_RESPONSE. Input events are sent
from `handle_input` through the same session, in whatever stage it is.

### 1.3 What is hard, and what correct means

* **Queue and double buffer** (two threads, one mutex, two unlocked uses of shared
  memory). Correct: a slot in use is never overwritten; the ready texture is never
  written; units come out in order, once each; no wakeup is lost; the main loop never
  blocks for good; a new picture on display is a younger one; nothing is freed under the
  decode thread.
* **Splitter** (chunks end anywhere, the buffer is rescanned, overflow throws data
  away). Correct: each byte goes to one place, in order; the units do not depend on
  the chunks; after an overflow the cuts are right again.
* **Session and frames** (pipelining, fragmentation, TCP's portions, record numbers,
  buffer limits, end of stream at any point). Correct: what is yielded is a prefix of
  what was accepted, each message whole and on its channel; an error has a cause; one
  decryption consumes exactly one frame's record; what was accepted arrives.
* **Control channel** (messages out of order, on wrong channels, with ids that
  mean different things on different channels). Correct: the handshake's messages go
  out in order, once; nothing is said in the clear once the session is active; a
  failed session stays failed; only media channels have media sessions.
* **Head unit with a phone** (either end may be ahead, flow control with one
  credit, input in the middle of the handshake, a lost connection, a bounded test
  loop). Correct: the two ends agree on the stage, neither makes the other fail, the
  credit is conserved, the script completes, the phone's idea of keys and finger
  follows the hand.
* **Startup** (some thirty steps that may fail, one block that releases). Correct:
  what was acquired is released, once; the configured address is the last resort; the
  main loop has all it draws from; the preparations end.

`PROJECT.json` lists each hazard at the line where it bites, with the properties
that cover it or the reason why none does.

## 2. Modules

| module | what it is |
|---|---|
| `AuQueue` | the two threads of the Vita application, one action per critical step |
| `AuFifo` | abstract: a bounded FIFO that may drop a unit when it is offered |
| `AuQueueProof` | TLAPS proofs about `AuQueue`: its safety, and that it implements `AuFifo` |
| `AuSplitter` | the Annex-B splitter, byte by byte |
| `Session` | one direction of a session: sender, connection, receiver, in blocks |
| `FrameCodec`, `TlsBio` | operators: a frame's bytes; the TLS context as two buffers |
| `Wire` | sender and reader of sessions and streams over a byte stream; extends both |
| `MsgChannel` | abstract: a reliable message channel that may stop; `Session` and `Wire` implement it |
| `AaMsg` | channel ids, message ids and the message record |
| `Control` | the head unit's control channel, against any phone |
| `MockPhone`, `InputCapture` | the scripted phone and `handle_input`, as operators on their state |
| `HandshakeSystem` | composes `Control`, `MockPhone` and `InputCapture` over two FIFOs |
| `Startup` | `main` outside its loop, with discovery, connection and decoder creation |
| `StartupProof`, `AuSplitterProof`, `SessionProof`, `WireProof`, `ControlProof` | TLAPS proofs about the module each is named after |
| `HandshakeProof`, `HeldProof` | TLAPS proofs about `HandshakeSystem`: the script; the user's input |
| `MC...` | instances for TLC |

Definitions marked `fault` in a comment are not used by any specification. Each is
what a definition would be after a plausible slip in the code; the `mutants` of
`PROJECT.json` pair it with the definition it replaces and the property that must
then break.

### 2.1 AuQueue

`main_pc` and `dec_pc` are the two program counters. A critical section is a
lock action (`FeedLock`, `DecLock`, `DecReacquire`, `DecRelock`), the steps inside
and the unlock that ends it; a step inside a section is separate from the lock
wherever the other thread could see the difference, and the `memcpy` into a slot
takes two steps (`FeedCopy`, `FeedCommit`) with the slot's content undefined in
between, since the decode thread reads slots with no lock. `pthread_cond_wait` is
`DecWait` (unlock and sleep), a signal or a spurious wakeup, and `DecReacquire`.

`avcdec_decode` begins (`DecBegin`: the output pointer is set), may write
(`DecWriting`: the texture is no whole picture), and ends in `DecOk`, `DecError`
(before or during the writing) or `DecNoPicture`: `avcdec.c` returns 0 with
`have_picture` 0 when the decoder withholds its picture. The constant `Withhold`
says whether the hardware ever does so; the driver is not in the repository. The
thread flips in either case: `have_picture` has no reader, since nobody calls
`avcdec_last_picture`. It is a variable of the model for `DisplayAdvances`. A texture's
content is the number of the AU it shows, 0 for none or a partial one.
`published`, `dec_au` and `prev_au` are history variables.

The main thread polls (`MainPoll` cuts up to `MaxBurst` AUs), feeds, draws
(`DrawBegin` reads `ready_tex` once) and, after START, releases the decoder and the
textures one by one and exits (the decode thread runs to that very moment).
Left out: the pixels, the H.264 content except "key frame or not" (`Idr`), the
size of an AU except "fits a slot or not" (`Large`).

### 2.2 AuSplitter

`handle_video` appends the message to `au_buf` and scans it from the beginning
(`AppendChunk`, then `ScanStartCode` or `ScanByte` per turn of its loop, then
`KeepTail`, its `memmove`), or throws message and buffer away when they do not fit
together (`DropAll`). A byte carries its position in the phone's stream, so the
properties can tell a lost, repeated or moved byte; the code's decisions see its
value only. `feed_decoder`'s test of size is here too, as what a unit may be lost to.

`Slices` and `NalUnit` are defined on the whole stream and know no buffer, no scan and
no cut. `NalUnitsWhole` says what must come out however the stream is cut into messages:
every NAL unit in one piece and no two slices in one unit. It leaves open to which of
its neighbours' units a parameter set goes, since the code and its comment disagree
about that (section 5). With `EachByteOnce` and `Resynchronises` (every unit ends where
a slice begins) it leaves, as long as nothing is thrown away, one set of units but for
what comes before the first slice, so the units do not depend on the messages.

### 2.3 Session

Sizes are counted in blocks. The sender fragments a message as `aa_session_send`
does (`Chunk`, `FrameType`), checks each frame against the send buffers (`Fits`:
header, chunk and, if encrypted, the TLS record's overhead, against
`AA_MAX_FRAME_PAYLOAD + 8`), counts TLS records and gives the message up at the
first failure, with the record number used up. Three call-level facts matter and
are kept: the sender's TLS context may be attached late (`AttachTls`), a send
blocks until its last frame is written, and a write to a closed connection may
still succeed. The receiver's `poll` is split where its loop is: `PollDrain` (read
the socket until it is empty; at the end of the stream return -1 whatever was
read), then one frame a step (`PollFrame`), until a message is complete, a frame
does not decrypt (`PollBadRecord`) or nothing is left (`PollIncomplete`). `in`
survives from poll to poll, as in the code.
`slack` is what the sender's buffers hold beyond a chunk: 8 bytes in this code, more
in a peer of another make.

Left out: allocation failures, and the byte layout of a frame, which is `Wire`'s.

### 2.4 FrameCodec, TlsBio, Wire

`Wire` is the same exchange with frames as bytes: `Encode` writes header, digits and
payload, `ReceiveSome` moves any number of bytes to the reader, and `Decodable` and
`Decode` are `aa_frame_decode` on what is there. It is also the only place where the
input BIO is modelled: `Fill` compacts and appends (`aa_tls_decrypt`, 308-319),
`Decrypt` is the single `mbedtls_ssl_read` that follows it. mbedTLS is external: it
takes bytes as it needs them, keeps a partial record and unread plaintext, and
accepts only the record whose number is next. `kind` says which of three pairs talks:
two streams, two sessions without TLS, two sessions with it. Encryption adds two
bytes (length and number) where the real record adds some thirty; what matters is
that it adds more than the buffers have to spare. `Radix` makes numbers carry at 5
instead of 256; sizes have two digits, a message's total four, and a size must be below
`Half`, the square of the base (65536 in the code), which is more than two digits hold.

`OneRecordAssumption` (`AA_MAX_FRAME_PAYLOAD` is at most mbedTLS's record size; both
are 16384) is what `RecordPerFrame` rests on: with a larger payload a frame would hold
two records, of which one read takes the first.

### 2.5 Control, MockPhone, InputCapture, HandshakeSystem

One action of `Control` is one call from the main loop. The actions `PollStart`,
`PollEof`, `PollUnreadable`, `PollIgnore`, `PollVersion`, `PollTls`,
`PollServiceDiscovery` and `Dispatch` are the ways through `aa_control_poll`; each
writes what the call sends into `out`. A message says how it is protected:
"plain", "sealed" (an encrypted record) or "bare" (marked ENCRYPTED with no record
in it, what a session without TLS writes). `Reply` and `SessionsAfter` are
`dispatch`, with its order of tests; each function of `control.c` that builds and
sends a message is an operator of its own. A protobuf message is reduced to the one
value a decision depends on, or `Malformed`. mbedTLS is external: the client answers
one flight at a time, and anything unexpected is an alert (`ClientStep`).

`Control` alone runs against a phone that sends anything at any time.
`HandshakeSystem` connects it with `MockPhone`: `Process` and `Advance` are
`phone_process` and `phone_advance`, `MockStep` the call of both. There are two
drivers. "harness" is `run_mock`: phone and head unit in turn, `MaxRounds` times at
most, each round even if there is nothing to read (`HeadUnitIdle`). "apart" is the
Vita and a phone across a network, each at its own pace, where `HeadUnitTouch` is the
`handle_input` that follows every poll, in the stages `TouchStages`, and the
connection may end (`Close`).

`InputCapture` gives the events of a sample (`EventsOf`: one for each changed button
in the code's order, then the finger's) and what the call remembers (`Remember`),
which does not depend on whether a send succeeded. `seen` is what the phone must
believe pressed after the events it was sent, `orphan` what went down unsent.

### 2.6 Startup

One action per call of the operating system that may fail, in program order. `held`
is what the program has acquired; `ptrs` is what `main`'s variables say it has, which
is what the block at `done:` goes by. `Steps` is the table of `avcdec_create`: what a
step acquires and what its failure gives back. `misused` turns TRUE when something is
released that is not held or acquired twice. In the loop only the creation of the TLS
context is left (`CreateTls`).

## 3. What the runs check

Twelve runs: seven that hold and five that show a disagreement. The passing ones
have between 1231 and 206178 distinct states and take from two to ninety seconds
each.

### 3.1 Queue, double buffer and splitter

| run | result | instance and what it shows |
|---|---|---|
| `AuQueue_ring` | holds | 3 slots, 6 AUs in bursts of up to 2, one too large for a slot, a decoder that may withhold pictures, one spurious wakeup: `SlotStable`, `ReadyTextureWhole`, the ring implements `AuFifo` (`ImplementsFifo`), a flip after a decode with a picture shows a younger unit and nothing else than flips changes the display (`DisplayAdvances`), every unit is served (`EveryAUServed`: no lost wakeup), `feed_decoder` returns (`FeedReturns`: no lock kept) |
| `AuQueue_gap`, `AuQueue_shutdown` | violated | findings 1, 2; 2 slots and 4 AUs |
| `AuSplitter_chunks` | holds | all streams of four NAL units out of four (slices and parameter sets, both start codes, bodies that end in zeros, one that looks like a start code), cut into messages of 0, 1, 2, 3, 5 or 7 bytes in every order, a buffer of 14 bytes and slots of 9: `EachByteOnce`, `NalUnitsWhole`, `Resynchronises` |
| `AuSplitter_timestamp` | violated | finding 3; a timestamp of four bytes stands for the eight |

Six units fill three slots, drop at least one, and take both cursors round the ring;
the code's four slots behave the same, and the proofs of section 4 hold for any
number. One spurious wakeup is enough: after it the thread is where the first
`DecLock` took it. A start code is at most four bytes and a header one, so messages
of 1, 2 and 3 bytes cut it at every place; of 7, they bring a whole NAL and the start
of the next; 14 bytes hold two NALs and overflow with the third.

`DisplayAdvances` does not say that the display never goes back: it does, in this very
run. A decode that returns 0 without a picture (`avcdec.c:156`) makes the thread flip to
what the other texture holds, the picture of two flips before or none. The property holds
each flip after a decode *with* a picture to going forward, also if pictures were
withheld, units dropped or decodes failed before it.

### 3.2 Session and wire

| run | result | what it shows |
|---|---|---|
| `Session_delivery` | holds | two channels, two messages of 1, 2, 3 or 5 blocks (a frame holds 2: BULK, exactly full, FIRST and LAST, with a MIDDLE), encrypted or not, a TLS context attached at any time or never, send buffers of the code's proportions (a full encrypted frame does not fit) or of a peer whose records do, a connection that may end anywhere: `ImplementsChannel`, `FailsOnlyForCause`, `EveryMessageArrives` |
| `Session_oversize` | violated | finding 4 |
| `Wire_portions` | holds | streams, plain and encrypted sessions, two messages of 0, 5 and 11 bytes with payloads of 5, an encrypted and an unencrypted channel, bytes that arrive in any portions: `ImplementsChannel` and `EveryMessageArrives` again, `RecordPerFrame`, `FailsOnlyForGap` |

Two messages let one be refused, cut off or under assembly while the other follows it,
in the same poll or in a later one. A length of 5 fills a frame and takes two digits,
11 makes three frames; 0 is the empty message only a stream allows. The senders are
this repository's, which never mix the frames of two messages. The receiver would
merge them (`session.c:195` appends a frame whatever its channel, against
`specs/research/aa-framing.md:104-106`); no run has a peer that does it.

### 3.3 Control channel and head unit with a phone

| run | result | what it shows |
|---|---|---|
| `Control_any_phone` | holds | any of some 140 messages at any time, on six channels (one with an id above the table's 16 entries), TLS steps that may fail: `HandshakeInOrder`, `SessionsOnlyForMedia`, `ActiveIsSealed`, `FailedIsFinal` |
| `Handshake_late_touch` | holds | both drivers; input in every stage but WAIT_VERSION: `StagesAgree`, `HealthySessionsWork`, `CreditConserved`, `AcksNameSession`, `DoneIsComplete`, `Completes`, `HarnessSucceeds`, `HeldIsSeen`, `GesturesLegal` |
| `Handshake_early_touch` | violated | finding 5 |

`MaxFrames` bounds the callbacks counted, `MaxQueue` the messages in flight when
the user touches (at most two others ever are). One button and two corners of the
panel give every combination of key and finger events. `MaxRounds` is the code's
2000; the harness is done after a few dozen rounds, so its bound is never what ends
it. What `run_mock` reports is weaker than what `HarnessSucceeds` states: it tests
the state, the video channel and the number of frames, which hold before the script's
end, and says nothing when its rounds are used up (`harness.c:90`).

`HeldIsSeen` and `GesturesLegal` say exactly what the phone misses: a press or a
touch begun while the TLS handshake runs cannot be sent, `handle_input` remembers it
all the same, and the phone sees its moves and its end without its beginning.
The main loop looks at START before `handle_input` does, in a sample of its own, so
the event for START may be sent, but never one for letting it go.

### 3.4 Startup

| run | result | what it shows |
|---|---|---|
| `Startup_failures` | holds | 4 addresses to probe, the own one among them or not, hosts of one or two addresses, any call failing: `ReleasedOnce`, `FallbackIsLast`, `PipelineComplete`, `StartupEnds` |

Four addresses have a first, a last and two between, of which the own one may be any;
two addresses of a host have a failure followed by another try. A failure of
`pthread_create` is ignored by the code (`vita_video.c:352`); the model goes on
without the thread, as the program does. The address in the configuration file is
used only if no phone is discovered: the comment at `vita_video.c:28` calls the
constant a default to be overridden by that file and does not mention discovery.

### 3.5 Deadlock

Deadlock is checked but in two runs. In `Startup_failures` the program exits. In
`Wire_portions` the reader gives up after a frame that does not decrypt, and with the
messages bounded by `MaxMsgs` nothing is left to do; `Session` keeps polling instead.

### 3.6 Fairness

* **AuQueue.** Weak fairness on the steps of each thread: the scheduler runs both.
  Strong fairness on the decode thread's lock attempts: the main thread takes the
  mutex again and again, but holds it for one copy and then spends a whole display
  period in vita2d with the mutex free, so a waiter is not passed over for ever.
  The main thread's attempt needs weak fairness only: the decode thread comes back
  to the mutex only after a decode or, with an empty ring, sleeps. START, spurious
  wakeups and the exit are never fair.
* **Session.** The owner polls in a loop, and a send in progress goes on. The
  strong condition on `Drain` says that what TCP carries is readable in the end,
  not that a given poll finds it.
* **Wire.** The same: weak fairness on the frames of a send in progress, on polls and
  on the steps of one; strong fairness on a poll that finds some bytes when there are
  any. How many is never fair. A message need not be sent.
* **HandshakeSystem.** Both loops call their step function for ever. Input and
  the end of the connection are never fair.
* **Startup.** Weak fairness on the steps of the preparations and of the block at
  `done:`: each call returns, those that wait for the network by a timeout. Pressing
  START is never fair, nor is the phone's VERSION_RESPONSE.

`AuSplitter` and `Control` have no liveness property: the splitter is one loop over
its buffer, and a phone of any kind may say nothing.

## 4. What is proved

`AuQueueProof` proves, for every number of slots above zero, every number of AUs,
burst size and number of spurious wakeups, any choice of key frames and oversize
units and either kind of decoder (the assumptions `SlotCountAssumption` and
`BoundsAssumption`):

| theorem | statement |
|---|---|
| `IInvAlways` | `Spec => []IInv` |
| `TypeCorrect` | `Spec => []TypeOK` |
| `SlotStability` | `Spec => []SlotStable` |
| `ReadyWhole` | `Spec => []ReadyTextureWhole` |

`SlotStable` is not inductive. That nobody overwrites the slot in the decode thread's
hands depends on where `au_write` points, so the invariant says where: `RingCursors`,
`au_write` is `au_count` slots after `au_read`. While the thread works on a slot the
slot is the oldest and is still counted (`SlotHeld`), so a write, which needs
`au_count < SlotCount` (`FeedBound`), goes to another slot (lemma `WriteApart`). The
cursors move only under the mutex, whose owner is known from the program counters
(`MutexOwner`). `TextureTarget` does the same for the textures: the target of a
decode is the texture `ready_tex` does not name, and only the decode thread changes
`ready_tex`. `IInv` is the conjunction of these with `TypeOK`; it is preserved
action by action (`StepIInv`).

`StartupProof` proves about `Startup`, for every number of addresses on the local
network and of a host (`HostsAssumption`: both above zero):

| theorem | statement |
|---|---|
| `StartupInvariant` | `Spec => []IInv` |
| `StartupTypes` | `Spec => []TypeOK` |
| `AllReleasedOnce` | `Spec => []ReleasedOnce` |
| `ConfiguredIsLastResort` | `Spec => []FallbackIsLast` |
| `PipelineInPlace` | `Spec => []PipelineComplete` |

The block at `done:` releases by `main`'s variables, so nothing is lost or released
twice if the variables say what is held whenever `done` is reached. The invariant says
more, for each label: `HeldAsOwned`, what is held is what the variables own
(`Owned`) and what the function being called holds for the moment (`Momentary`: a
probe's socket, the address list, the steps of `avcdec_create` so far); `PointersSet`,
which variables are set by then; `ScanProgress`, the probed addresses are those below
the next. `StepHeldCreate` is the case of `avcdec_create`: a step that fails gives back
exactly what the steps before it acquired, none of which `main` owns yet, and
the last one makes `main` the owner of all of it.

Its second half goes on from `IInv`, under the same assumptions:

| theorem | statement |
|---|---|
| `OrderInvariant` | `Spec => []OrderInv` |
| `DisplayForward` | `Spec => DisplayAdvances` |
| `RefinesFifo` | `Spec => ImplementsFifo` |

The cursors do not say what the slots between them hold. `RingOrder` does: units that
were offered, older ones first, all younger than the one the decode thread took last
(unless it still works on that one); `PictureAge`: no picture is of a younger unit than
the one taken last, and during a decode the picture on display is of an older unit.
`DisplayForward` adds `PictureGiven`: when the thread is about to flip and has a
picture, the texture it flips to holds the unit just decoded. No step but the flip
touches the texture on display.
For the refinement, `Queue` of the abstract FIFO is the run of slots from `au_read` on;
the lemmas on it say that committing a unit appends one (`CommitAppends`), giving a
slot back takes the first away and every other step leaves it alone.

`AuSplitterProof`, for every set of streams, every message length, with and without
timestamps, and every size of buffer and slot (the assumptions of `AuSplitter`):

| theorem | statement |
|---|---|
| `Invariant` | `Spec => []IInv` |
| `TypeCorrect` | `Spec => []TypeOK` |
| `BytesOnce` | `Spec => []EachByteOnce` |
| `CutInvariant` | `Spec => []Cuts` |
| `FindsItsWayBack` | `Spec => []Resynchronises` |
| `NalUnitsAreWhole` | `Spec => []NalUnitsWhole` |

`EachByteOnce` counts the cells before `au_start` as fed, although they still lie in
`au_buf` until `KeepTail` moves the rest down. So the invariant places each byte by
`From`, the first cell not fed yet: `Placed` says that the units fed, the cells from
there on and the bytes thrown away are all the bytes received, each once, and in order.
It is stated on its own for any such sets, and one lemma each says what a message kept
(`PlacedMore`), dropped (`PlacedDrop`), a unit fed and a unit thrown away do to it.

The last two theorems compare the scan, which sees the bytes in `au_buf`, with the
slices of the whole stream. Without timestamps `au_buf` is the piece of the stream
that ends with the last byte received. What the scan takes for a slice in it
(`SliceIn`) is a slice of the stream, or, at its first byte only, the rest of a
four-byte start code whose first zero was thrown away (`SliceFound`). Behind a start
code the scan skips bytes, none of which begins a slice (`ScanSkips`), because start
codes overlap only where one is the end of another (`CodesOverlap`). So `CutInv` can say
that `cur_has_vcl` is TRUE if there is a slice between `au_start` and `i`, that there
is never a second one, that the tail kept holds at most one, and that every unit fed
ends at a slice of the stream, has one before its end and at most one inside.
For `NalUnitsAreWhole`, `EachByteOnce` says that a NAL unit's first byte was fed, kept
or thrown away. If it was kept, so were the two slices from it on, and the tail would
hold two (`BeforeTwoSlices`); if it was fed, its unit ends where some slice begins, so
the NAL unit, which ends at the next start code, cannot reach beyond (`WholeInUnit`).

`SessionProof`, for every number and length of messages, frame size, buffer and
overhead of encryption, with the TLS context attached at any moment, refused sends and
a connection that ends anywhere (the assumptions of `Session`):

| theorem | statement |
|---|---|
| `Invariant` | `Spec => []IInv` |
| `TypeCorrect` | `Spec => []TypeOK` |
| `RefinesChannel` | `Spec => ImplementsChannel` |
| `FailureHasCause` | `Spec => []FailsOnlyForCause` |

That what comes out is a prefix of what went in depends on everything in between.
`Flow` is all that is written and not yet taken: the receiver's buffer and then the
connection. `FlowFollows` says that there is a place before each of its frames and
after the last (how many messages are complete, which one is under assembly, how much
of it has been seen), such that the first place is the receiver's own state
(`StartsAt`), each frame is the next chunk of the message of its place and leads to the
next place (`Passes`), and the last place is the sender's state while the connection is
up (`EndsAt`). The sender adds a frame at one end of this path, the receiver takes one
at the other, and neither needs to know how long it is. A sender that stops in the
middle of a message would break it, and `OneSend` says why it does not: a send that has
written its first frame had room for the largest there is, so it stops only with the
connection. `FailsOnlyForCause` is about record numbers: while nothing was refused the
records in the flow are the next ones (`RecordsInStep`), so the first frame decrypts.

`WireProof`, for every number and length of messages, payload size, slack of the
buffers, size of a TLS record and base of the digits (`SizesAssumption`,
`OneRecordAssumption`, `RecordAssumption`, `RadixAssumption`):

| theorem | statement |
|---|---|
| `Invariant` | `Spec => []IInv` |
| `TypeCorrect` | `Spec => []TypeOK` |
| `RefinesChannel` | `Spec => ImplementsChannel` |
| `FailureHasGap` | `Spec => []FailsOnlyForGap` |
| `OneRecordPerFrame` | `Spec => []RecordPerFrame` |

The argument is `SessionProof`'s, with bytes for frames. `Flow` is now a string of
bytes with nothing in it to say where a frame begins; `FlowFollows` says that there are
places in it, each with its position and with the number of TLS records made before it,
such that the bytes from one place to the next are the encoding of the next chunk of
that message (`Passes`). Three things carry it. `DecodeIs`: a buffer that begins like
an encoded frame is decodable exactly when all of that frame is there, and gives the
frame back; it rests on the digits (`Digits2Are`, `Digits4Are`), on the flags packed
into one byte and on sizes below the base's square and fourth power. `EncryptIs` and
`DecryptIs`: a payload is one record, and a TLS session that holds nothing reads it
whole if it is the next in number, after which it holds nothing again. And
`RefusedAtOnce`: only a FIRST frame can be too large, so a message that is given up has
left nothing in the flow but a gap in the numbers. `RecordPerFrame` and
`FailsOnlyForGap` are then read off the reader's place.

`ControlProof`, for every set of channels and every set of messages a phone may send
on them (the assumptions of `Control`):

| theorem | statement |
|---|---|
| `Invariant` | `Spec => []IInv` |
| `TypeCorrect` | `Spec => []TypeOK` |
| `HandshakeOrdered` | `Spec => []HandshakeInOrder` |
| `SessionsOfMedia` | `Spec => []SessionsOnlyForMedia` |
| `ActiveSealed` | `Spec => []ActiveIsSealed` |
| `FailedForGood` | `Spec => FailedIsFinal` |

The code keeps no record of what it sent; the stage stands for it. `SentByStage` says
for each stage, state and state of TLS how much of the script is out, which is why the
message a stage's handler sends is always the next one, whatever it was that made it
run. It also says what the last call may have written in an active session.

`HandshakeProof`, for every set of buttons and touches, every bound on the messages in
flight and every number of rounds, under the assumption `LateInput`: the user leaves
the controls alone while the head unit waits for VERSION_RESPONSE. Without it the
statements are false: that is finding 5, which `Handshake_early_touch` shows.

| theorem | statement |
|---|---|
| `Invariant` | `Spec => []IInv` |
| `TypeCorrect` | `Spec => []TypeOK` |
| `StagesAlwaysAgree` | `Spec => []StagesAgree` |
| `HealthySessions` | `Spec => []HealthySessionsWork` |
| `CreditIsConserved` | `Spec => []CreditConserved` |
| `AcksRightly` | `Spec => []AcksNameSession` |
| `DoneMeansComplete` | `Spec => []DoneIsComplete` |
| `HarnessAlwaysSucceeds` | `Spec => []HarnessSucceeds`, for `MaxRounds` from 16 on |

Each end only reacts to the other, so over a healthy connection a session is one path
through 29 places. `At(k)` says of place `k` what the stage and the TLS state of both
ends are, what the phone has recorded, and which messages of the script are in flight
each way (`Asked`, `Answered`). Input events do not belong to the path: once TLS is done
they may stand anywhere among the head unit's messages, which is `Holds` with the set
`Among`. Every action of the head unit or the phone goes from its place to the next one
or stays, so `CreditConserved` and the others are read off the places. In the harness
the place and the number of turns taken determine each other but for a round in which
one side has nothing to read (`TurnsAt`), so the script takes 32 turns, or 16 rounds;
`run_mock` makes 2000. Once the connection is closed the phone stays where it is and
the head unit takes what had been sent to it: `Winding` says what that can be.

`HeldProof`, under the same assumption:

| theorem | statement |
|---|---|
| `HeldIsAlwaysSeen` | `Spec => []HeldIsSeen` |
| `GesturesAreLegal` | `Spec => GesturesLegal` |

`handle_input` compares two samples of pad and panel. `EventsDiffer` says that the
events of one call press what the second sample holds and the first did not, release
what the first held and the second does not, and move only what was held. `HeldInv` adds
that the phone is told nothing before TLS is done, so what is pressed is what the phone
was told and what went down unsent.

Only model-checked:

* **Liveness** (`EveryAUServed`, `FeedReturns`, `EveryMessageArrives`, `Completes`,
  `StartupEnds`): fairness and ENABLED are out of the prover's reach.

## 5. Findings

1. **A drop breaks the chain of references** (`vita_video.c:172`). With the ring full
   the newest unit is dropped and the next ones are fed, so the decoder gets a
   predicted picture without its reference. The comment above the code claims that
   this keeps the decode stream uncorrupted.
2. **The shutdown frees under the decode thread** (`vita_video.c:403`). The decoder
   and both textures are freed while the thread, neither stopped nor joined, may be
   decoding into one of them.
3. **Timestamps are fed to the decoder** (`control.c:314`). A media message with a
   timestamp is passed on whole, its eight bytes become part of the H.264 stream, at
   the end of the unit before or, if they happen to look like one, as a start code.
   `specs/features/aa-media-channels/spec.md:43` gives the layout.
4. **A large encrypted chunk is refused** (`session.c:77`). The send buffers have 8
   bytes beyond the largest chunk; header and TLS record need more. A record number
   has been used up by then, so every later encrypted frame fails to decrypt.
5. **An early touch stops the handshake** (`vita_video.c:379`, `session.c:81`). A touch
   during WAIT_VERSION is sent at once, in plaintext under the ENCRYPTED mark, since no
   TLS context is attached yet. The phone cannot decrypt the frame and keeps it at the
   head of its buffer for good. Neither the stage nor `input_bound` is looked at before
   an input event is sent (`control.c:477`).

Smaller observations, with no run of their own:

* Parameter sets between two slices are fed at the end of the first one's unit
  (`vita_video.c:239`). The comment at 216-218 says that "an access unit ends after a
  VCL NAL" and that parameter sets preceding it belong to it. The stream's order is
  kept, so the decoder has them in time; but where the unit before is dropped, because
  the ring is full or the unit with them too large, they are lost with it.
* After a decode without a picture the display goes back to an older one (3.1).
* Frames of two messages are merged if a peer mixes them (3.2).
* `run_mock` may report success for an unfinished script (3.3).
* A gesture begun during the TLS handshake has no beginning for the phone (3.3).

## 6. Plan

Done: all components with behaviour of their own have a module, and every safety
property that a passing run checks is proved.

Left to model: bounded socket buffers, with the two ends blocking in
`aa_transport_send` on each other; the splitter as the source of `AuQueue`'s bursts;
`run_phone`, the other loop of the harness.

Left to prove: what is added by those.

## 7. Not modelled

* **Generated protobuf code** (`src/core/aa_proto_generated/`, some 500 headers) is
  most of the repository's lines. It declares data and has no state; the modules have
  the values of it that decisions depend on. The hand-written code is about 3000
  lines, most of which a module stands for.
* **Third-party code**: mbedTLS (a client answers one flight at a time, records are
  numbered), nanopb, vita2d and the sceAvcdec driver appear as what the code expects
  of them.
* **Handshake flights over 4096 bytes** (`tls.c:269`) are an error after mbedTLS has
  moved on; the size depends on the embedded certificates only and no sequence of
  calls changes it.
* **Version codec, message codec**: fixed layouts, taken as "decodes" or "does not".
* **Harness**: argument parsing, the output file, and the 120000 iterations of
  `run_phone`, which end a run and decide nothing.
* **Certificate, build, packaging, logging, the drawing of text**: no behaviour over
  time.
