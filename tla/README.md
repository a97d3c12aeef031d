# A TLA+ verification of funcubeLib

funcubeLib decodes the telemetry of the FUNcube satellites from an audio device
or a FUNcube dongle, and encodes data for transmission.  This directory holds
TLA+ models of its threads, its error-correcting code, its decoders' allocation,
its session and its signal path, the TLC configurations that check them on small
instances, and proofs, checked by TLAPS, of main results for every size.

## Inventory of the system

| Component | Source (`src/common/`) | State | Operations | Talks to |
|---|---|---|---|---|
| Receive path | `decode.cpp`, `decodeManager.cpp`, `decodeWorker.cpp` | `m_queueAudioIn` of the manager and of each decoder, `m_decoders`, `m_decoderNum`, `m_autoTuneState`, `m_memPoolIn` | `CallbackIn`, `PushAudioInput`, `Execute` (manager, decoder), `SetWorkerCount`, `SetAutoTuneState` | PortAudio's thread calls in; decoders call back with results |
| Buffer pool | `memPool.cpp` | `m_stack`, `m_bufferCount` | `Initialise`, `GetBuffer`, `PutBuffer` (deleter), `Shutdown` | every queue holds its buffers by `shared_ptr` |
| Worker threads | `wintypes.h` | `m_tid`, `m_pEvent`, the semaphore of `CEvent` | `AddHandle`, `Run`, `RemoveHandle`, `Set`, `Wait` | runs `Execute` of the manager, each decoder, the peak worker and the encode worker |
| Peak detection thread | `peakDetectWorker.cpp`, part of `decodeManager.cpp` | `m_queue`, `m_calcNeeded`, `m_numCalcPeaks`, `m_calcComplete`, `m_memPoolFft` | `PushFftInput`, `TriggerPeakCalc`, `PeakCalcUpdated`, `GetPeaks`, `Execute` | the manager produces FFTs and requests and takes the peaks |
| Decoder allocation | `decodeManager.cpp`, `decodeWorker.cpp`, `peakDetect.cpp`, `bpskDecoder.cpp`, `sampleStopWatch.cpp` | each decoder's frequency and its two stop watches, the peaks, the excluded bins | `CheckPeakDetection`, `CalcPeaks`, the assignment in `Execute`, `GetAvailabilityFactor`, `SetTuneFrequency` | manager, peak worker and decoders |
| Audio output | `decodeManager.cpp`, `decode.cpp`, `bpskDecoder.cpp` | `m_queueAudioOut`, `m_requiredAudioCount`, `m_memPoolOut` | `AddOutSample`, `PublishAudioOutput`, `PopAudioOutput`, `CallbackOut` | decoder threads and PortAudio's output thread |
| Results | `decode.cpp`, `decodeManager.cpp` | `m_lastData`, `m_lastFrequency`, `lastResult` | `OnDecodeSuccess`, `CollectLastData` | decoder threads and the application |
| Transmit path | `encode.cpp`, `encodeWorker.cpp` | `m_queueIn`, `m_queueOut`, `m_encodeState`, `bitsRemaining`, `m_txbuf`, two pools | `PushData`, `Execute`, `CollectSamples`, `CanCollect`, `AllDataCollected` | the application's threads and the worker's |
| AO40 codec | `codecAO40.cpp`, `fec.cpp` | `m_encoded`, `m_RS_block`, `m_conv_sr`, `m_ileaver_index`, `m_encoded_bytes` | `encode`, `encode_byte`, `encode_parity`, `decode`, `decode_rs_8` | transmit path and decoders |
| HID device | `hid-libusb.c` | `input_reports`, `shutdown_thread`, `cancelled`, the transfer | `hid_open_path`, `hid_write`, `hid_read_timeout`, `read_thread`, `read_callback`, `hid_close` | libusb, the dongle commands |
| Dongle commands | `fcd.c`, `dongle.cpp`, the `Dongle_` calls of `funcubeLib.cpp` | `phd` within a call; between calls `s_frequency` and the tick of its next refresh; in the dongle mode, flash and the place of the next block | `fcdGetMode`, `fcdAppSetFreq`, `fcdAppGetParam`, `fcdBl...`, `Dongle_GetFrequency` | HID device; the application's threads |
| Decode session | `funcubeLib.cpp`, `decode.cpp` | `m_pDecode`, the two streams, `m_lockWorking`, the manager's members | `Decode_Initialize`, `Start`, `Stop`, `Decode_Shutdown`, `RefreshAudioDevices`, `EnumDevices` | PortAudio, the manager, every thread |
| Signal processing | `firFilter.cpp`, `fft.cpp`, `overlappedFft.cpp`, `oscillator.cpp`, `bpskDecoder.cpp`, `rollingAverage*.h` | filter rings, two FFTs half a block apart, `m_bitPos`, `m_peakPos` | `ProcessAudio`, `ProcessSample`, `Add`, `CopyResult`, `CollectFftOutput` | manager, decoders, application |

Hard behaviours: one buffer shared by up to 33 threads; two levels of queues
that discard; semaphores that count wake-ups on queues that are drained at once
or one by one; flags and counters used outside the lock that should protect
them; work done between an `unlock()` and a `lock()`; a recursive mutex; pools
smaller than the queues that use them; shutdown while callbacks run; a
shift register that is tried for a frame at every bit; rings whose sizes do not
divide the buffers that pass through them.

## Modules

| Module | Models | Extends or uses |
|---|---|---|
| `Delivery` | abstract: elements that may be lost, but come in order and whole | |
| `DecodePipeline` | receive path: audio callback, manager, decoders, input pool | instance of `Delivery` |
| `PeakRequests` | what goes from manager to peak thread, and what must not be lost of it | |
| `PeakDetectWorker` | FFTs and peak requests between manager and peak thread | `PeakRequests` |
| `DecodePipelineProofs` | proofs about the manager's two hand-overs: to the decoders, refinement of `Delivery`, and to the peak thread | `DecodePipeline`, `PeakRequests`, instance of `PeakDetectWorker` |
| `PeakDetect` | the search for peaks: window, bins, limits, exclusions | |
| `DecoderAllocation` | which decoder follows which signal: manager, peak thread, decoders, application | `PeakDetect` |
| `DecoderAllocationProofs` | proofs about it, and about the indices and the search of `PeakDetect` | `DecoderAllocation` |
| `DecodeSession` | a session from initialising to shutting down, with all its threads and the audio output | |
| `DecodeSessionProofs` | proofs about it | `DecodeSession` |
| `EncodeWorker` | transmit path: `CEncode` and `CEncodeWorker` | |
| `EncodeWorkerProofs` | proofs about it | `EncodeWorker` |
| `Interleaver` | where a symbol goes, and where it is fetched | |
| `FecConstants` | the tables of the code | |
| `AO40Codec` | encoder and decoder of a frame | `Interleaver`, `FecConstants` |
| `TelemetryLink` | frames from the encoder over the air to the application, whatever the codec; `MCTelemetryLink` gives it `AO40Codec` | `Interleaver` |
| `TelemetryLinkProofs` | proofs about it | `TelemetryLink` |
| `FirFilter` | the design and the ring of a decimating filter | |
| `OverlappedFft` | two FFTs, half an array apart | |
| `SignalPath` | one stream of samples through FFT, mixer, filters and bit clock, and to the display | `FirFilter`, `OverlappedFft` |
| `SignalPathProofs` | proofs about it, and about the interleaver | `SignalPath`, `Interleaver` |
| `DropOldest` | abstract: a bounded queue whose producer never waits | |
| `HidDevice` | one open HID device on libusb | instance of `DropOldest` |
| `HidDeviceProofs` | proofs about it, refinement of `DropOldest` | `HidDevice` |
| `Dongle` | commands to one dongle from several threads, the cached frequency | |
| `DongleProofs` | proofs about it | `Dongle` |
| `MC...` | the modules at the sizes of the `.cfg` files; constants that a `.cfg` cannot write | |

A step of a model is a critical section of the code, or a stretch of code
between two of them; variables named after members are those members, `...Pc`
variables say where a thread is, and variables marked "history" record what a
property talks about and steer nothing.  `CEvent` is the counting semaphore it is
in the pthread build of `wintypes.h`: `Set` adds one, `Wait` takes one.
Definitions called `...Faulty` and the like are variants with a
plausible error; they are not part of any specification, and each shows that a
property would notice that error.

### DecodePipeline

`CDecode::CallbackIn` pops a buffer of the pool, fills it (`CallbackIn`, or
`CallbackInLosesFrame` when one of its early returns is taken: `m_lockWorking` held, no
buffer, a buffer too small, no input) and queues it (`PushAudioInput`, which
drops the oldest at the limit).  `CDecodeManager::Execute` is `ManagerWake`,
`CollectAudioInput`, `Tune`, one `Feed` per decoder (or `FeedManual`), `FeedEnd`
and `Release`; each decoder's thread is `DecoderWake`, `DecoderCollect`,
`DecoderLock`, `DecoderProcess`.  `SetAutoTuneState` and `SetWorkerCount` happen
at any moment, for the code reads both without a lock.  The order in which
`std::sort` leaves the decoders is free.  A buffer is a model value, `frame` says
which capture it holds; `Reclaim` is the deleter of the last `shared_ptr`.

Seen from outside the path is a `Delivery` (`DeliversInOrder`): `captured` frames are
sent, those the manager has `taken` accepted, those a decoder is `done` with
received.  A frame may be lost in three places (the callback, either queue's discard), and a
short one always is, but no decoder gets one twice, late or out of order.

### PeakRequests and PeakDetectWorker

`PeakRequests` has the state that goes from one thread to the other, and the two
invariants about it; `PeakDetectWorker` has the rest and the steps.
Queue and pool are counted.  The manager goes through `GenerateFft`,
`PushFftInput`, then `ManualTune`, `NoPeakCalc` or `TriggerPeakCalc`, then
`PeakCalcUpdated` and `GetPeaks`.  The worker wakes and loops through
`CollectFftInput`, `Process`, `Drop`; once its queue is empty it goes through
`CheckCalcNeeded`, `ResetCalcNeeded`, `GrabNumCalcPeaks`, three steps, since
nothing locks them, and `CalcPeaks`.  `m_calcComplete` starts with either value:
no constructor sets it.  `GenerateFft` with an empty pool ends in `"crashed"`, since the code
dereferences the null buffer; the process is gone then, and no thread takes another step
(`Running`).

### PeakDetect and DecoderAllocation

`PeakDetect` is the arithmetic of `peakDetect.cpp` on small powers: the shape of a
FUNcube signal that slides over the spectrum, edges included
(`ApplyWindowFunction`), and `CalcPeaks`, which takes the strongest bin that lies in
the limits, outside the exclusions and not too close to one already found.  The
subtraction in `TooClose` is unsigned, so only bins above a found one are too close
to it.

`DecoderAllocation` lets the manager go through one buffer at a time: `Execute`
counts time in buffers; `CheckTooSoon`, `StartCount`, one `CountDecoder` per decoder and
`TriggerPeakCalc` are `CheckPeakDetection`, which asks for peaks, excluding the
surroundings of busy decoders, and reads `m_decoderNum` anew at every pass; then come
`PeakCalcUpdated`, `GetPeaks`, `Sort`, and for each decoder `TestDecoder` and `Tune`, which
take its lock separately.  The
peak thread's `CheckCalcNeeded` and `Calculate` run in between, and so do a decoder
that decodes a frame (`ProcessAudio`), a new spectrum and the application's calls.
A decoder's availability comes from its two stop watches.  `Excluded` has the
manager's own `FreqToBin`: its shift against `m_bufferConfig` is
(96000 - range / 2) / `HZ_PER_BIN`, 0 at a sample rate of 192 kHz and 4096 bins at 96
kHz.  `claimsUsed` is history: where a decoder was busy when the peaks were asked
for, and where one has been sent since.

### DecodeSession

The application's thread goes through `Decode_Initialize`, `Decode_Start` (in its
variants), `Decode_Stop`, `Decode_Shutdown` and the two calls that restart
PortAudio, in any order; `StartManager`, `StartStream`, `StopStream`, `Terminate`,
`RemoveHandle`, `Join`, `DestroyMembers` and `Free` are what they are made of.
PortAudio calls `CallbackIn` and `CallbackOut` while a stream runs, and stopping it
waits for them.  A thread's `Run` is `TestEvent`, `WaitForEvent` (which reads the pointer
again) and `Wake`.  The manager feeds, the decoders take an output buffer, publish
and swap it.  The first use of memory that is gone, or of a vector that another
thread grows, sets `fault` and ends the behaviour.  `quiet` is history: the call found
streams stopped and threads asleep.

What shows while modelling it and is in the model: the decoders outlive the other
members of the manager (members go in reverse order), so a decoder still at work
at `Decode_Shutdown` uses what is gone; a second `Decode_Start` grows `m_decoders` and
the pools under a manager that may be executing; the lock in `Shutdown` waits for
no callback, `Pa_StopStream` does; playback restarts after 4 buffers where the
comment says 3; the 24 it waits for at first are never there, since the queue holds
6 at most, so the first callback plays nothing and lowers the count to 3.  Starting by name
compares the name with all devices but the last.

### EncodeWorker

`CEncodeWorker::Execute` runs on the worker's thread and, under the recursive
mutex of `PushInput`, on the application's.  It gives the mutex up for
`SetInputBuffer` (`BeginEncode`, `EndEncode`) and for `GenerateNextBuffer`
(`ReadState`, `LoadBits`, `StoreBits`, `NextPhase`, `GetSampleBuffer`).  In the
latter the static counter `bitsRemaining` is loaded and stored in two steps.
`raced` records that both threads have been behind the `unlock()` at once.  A bit
is named by its block, phase and position.  `PopOutput` to `AllDataCollected` are
the thread that collects.

### Interleaver, AO40Codec and TelemetryLink

`AO40Codec` computes what `codecAO40.cpp`, `fec.cpp` and `viterbi.cpp` compute: two
shortened Reed-Solomon codewords over the code's own field and generator,
scrambled, a convolutional code, the interleaver with the sync vector in its first
column; and back, with the search through the trellis, syndromes, Berlekamp-Massey,
Chien search and Forney's formula.  The block has 8 bytes and not 256, so a frame
has 19 times 65 symbols and not 80 times 65.

`TelemetryLink` takes the codec as two parameters, `Encoded` and `Decoded`, so that it can
be reasoned about for every size and every code; `MCTelemetryLink` puts the code's own there.
It goes from `CEncode::GetNextTxBit`, one bit a step with its phases
and its differential modulation, to the receiver: the shift register of symbols,
the correlation with the sync vector at every bit, `CFec::Decode` where it is high
enough, `OnDecodeSuccess`, which passes on a frame that differs from the one before.
`Plans` says what is sent and which symbols are turned or lost on the air.  A
frame's index runs from 1 to its length, as in the code: the first symbol is never
sent, and one past the last is, which is a symbol of the previous content.

`lastResult` begins as zeros and outlives sessions: a first frame of zeros, or a
repeat of the last session's, is not told.  `FirstNotZeros` is the assumption that nobody
sends one.  What the link relies on is stated apart from what follows: `CodecBears` (damage
called bearable is put right, the sync vector is still found, the errors are counted) and
`OnlyFramesDecode` (of the stretches of symbols that are tried at every bit, none decodes but
a whole bearable frame) speak of the codec; `FrameArrives`, `NothingInvented` and
`ErrorCountHonest` speak of the application.

### FirFilter, OverlappedFft and SignalPath

A sample is its number, and a filter's output is the set of its products, tap with
sample.  `FirFilter` is the design (which positions of the tap array are written,
and that each value stands twice, so that the ring needs no wrap) and the ring;
`OverlappedFft` adds buffers to two FFTs, one of which starts half full.
`SignalPath` composes them: `GenerateFft` is the manager, `CollectFftOutput` and
`CollectFftOutputByRange` the application, `FilteredSample` and `SkippedSample` the decoder,
with its oscillator and its bit clock.  The position of most energy is chosen freely.

The time within a bit is the code's sum of floats, in units of the increment's last
bit.  At 1200 bits a second the increment 1/9600 is 14316558 of them and the bit time 1/1200
is eight times that, but rounding makes the sum of eight 8 units more; line 352 of
`bpskDecoder.cpp` keeps what is left, and after some 1.79 million bits it is worth a sample:
`BitTimeOver` then comes after seven, and the clock slips from position 6 to 0
(`Slips`).  `BitPhaseInc` is the increment with its share of that rounding, 14316559;
`BitRest` is what a bit time leaves.  (At 4800 bits a second nothing is left.)

Here too the model shows what the code does: the first result the peak detector is
given is an empty buffer of the pool; `CollectFftOutput` asks for `m_fftResultSize` bins,
which is 4096 whatever the sample rate, so that above or below 48 kHz the copy fails and
the application is shown its old buffer; the lines of a range begin at the first bin,
wherever the range does (`binStart` is only checked); lines that do not divide the
spectrum leave out its top bins; moving the bit clock can lose one bit.

### HidDevice and DropOldest

`Open`, `Write`, `Read`, `Close` and what follows each are the application;
`FirstSubmit` to `Notify` are `read_thread`; `CallbackBegins` to `SetCancelled` are
`read_callback`, on the thread that handles libusb's events at the time, which
may be the one inside `hid_write`.  `Submit`, `Cancel` and the actions of the
device and the kernel are libusb as this file uses it.  `Mishaps` says what
may go wrong outside.  The reports refine `DropOldest` with a limit of
`QueueLimit + 2`: `num_queued` counts links, not reports, and is compared with `>`,
so 32 reports wait where the comment (line 676) says 30.

### Dongle

A call (`Call`) is one or two sessions, each `Open`, its exchanges and the close,
then `Return`.  `Query` is the session of `fcdGetVersion` and `fcdGetMode`, which is
the whole call for the queries and comes first in tuning and in the flash calls.
Then follow `Command` (tuning, erase), `Reset`, or `Range`, `Address` and the rounds
of the loop: `WriteStep`, `ReadStep`, `BlockRefused`, `LastBlock`.  `holder` is libusb's
claim: a second thread's `hid_open_path` fails, and its call reports that there is
no dongle although there is one.  A dongle may refuse any command, be pulled out
(`Unplug`) and put back (`Plug`), or not answer (`Lose`), in which case `hid_read`
waits.  A dongle that comes back has a new path: whoever had it open keeps a dead handle,
which hinders nobody else's open.  `Call` holds what `Dongle_SetFrequency` does with
`s_frequency`; `StoreFrequency` and `Return` are the two assignments of
`Dongle_GetFrequency`, to `s_frequency` and then to the tick of its next refresh, between
which others run and time passes.  `GetTickCount` wraps.

Flash is a function from addresses to bytes, and a byte of image `i` at offset `n`
is `<<i, n>>`, so that a byte in the wrong place or of the wrong image shows.
The arithmetic on addresses is the code's, with scaled-down numbers: `Page` is
2^24, `u32Addr & 0xFFFFFF` is `Offset`.  `doubt` and `disturbed` are history: they
say when nobody can expect `s_frequency` to be right, because a `SetFrequency` is
under way or failed, two calls about it overlapped, or the dongle went away.
`HidDevice` is not composed with this module: it is what justifies that an
exchange is one step which ends, unless the dongle is silent.

## Runs

| Run | Question | Answer |
|---|---|---|
| `decode` | Two decoders share three buffers while mode and worker count change, both queues discard and frames come short or not at all: is a buffer in use ever in the pool, do wake-ups and frames come through, does every buffer come home? | No, and yes: `PoolPartition`, `WakeupsSuffice`, `FramesInOrder`, `WholeFrames`, `AllBuffersReturn`; the path implements `Delivery` |
| `peak_safety` | Until the pool runs dry: is a request or a wake-up lost, is every request answered?  When does it run dry? | No, and yes: `RequestPending`, `WorkNoticed`, `RequestAnswered`; only behind a full queue and a busy worker (`DryOnlyWhenBehind`) |
| `peak_pool` | Do the code's four buffers suffice? | No: the null buffer is dereferenced |
| `encode_safety` | Is every bit of every block sent once and in order? | Yes while the two `Execute`s do not overlap; the blocks stay in order in any case |
| `hid_safety` | Whatever goes wrong outside: is something freed in use, a wake-up lost, a report out of order? Without mishaps: do `hid_close` and, when the device goes, `hid_read` return? | No, and yes |
| `dongle_safety` | Two threads and an unreliable dongle: does each answer mean what it says, is the cached frequency the dongle's, does every call whose commands are answered return? | Yes, as long as the dongle is not pulled out during the call |
| `telemetry_link` | Does the code's codec bear what it should and decode nothing else? Does every frame that it can bear arrive, once, in order, and nothing else; is the count of errors right? | Yes, though the first symbol is never sent |
| `allocation` | Is a decoder ever sent where another is, or where no signal is? | No, at a sample rate of 192 kHz |
| `allocation_live` | Does every signal get a decoder in the end? | Yes, if enough decoders are in use and nothing is decoded any more |
| `session` | In whatever order the session's calls come: are streams lost, does a callback come late, does the shutdown hang, is a call that finds all quiet safe, do output buffers suffice? | The handles are true, no callback is late, no shutdown hangs, quiet calls are safe, buffers suffice |
| `signal_path` | Do the filters convolve the latest samples, the FFTs the latest arrays, is the latest spectrum shown to who asks for a range, are symbols a bit apart? | Yes; symbols are more than half a bit and less than two apart, and around a slip of the clock at least half and less than three and a half (`BitSpacing`) |
| `spectrum_shown` | At the sizes of 96 kHz: is the latest spectrum shown to who asks for the whole of it? | No: nothing is copied |

### Where code and documentation disagree

Two runs end in a violation.  `peak_pool` is the null dereference at
`decodeManager.cpp:335`; `DryOnlyWhenBehind` says that it takes a worker that has fallen
behind by a full queue.  `spectrum_shown` is `decode.cpp:617`, where the spectrum reaches the
application only at 48 kHz, while the repository's `README.md:54` and `:86` promise it at
96 and 192 kHz; `RangeShowsLatest` says that asking for a range does work at every rate.
The other disagreements met while modelling are in the models, as behaviour, and are
told here:

- `decodeManager.cpp:396`: a decoder's availability is read under its lock and the
  decoder is tuned under it again, so a frame decoded in between does not keep the
  decoder, which `bpskDecoder.cpp:324` says it does.
- `peakDetect.cpp:266`: the unsigned difference of bins makes a lower bin never too
  close to a higher one; `decodeManager.cpp:109` says peaks are 500 Hz apart.
- `decodeWorker.cpp:143`, `decodeManager.cpp:159`: both queues discard the oldest, but a
  decoder's holds more than the pool has, so a slow decoder makes the device lose
  the newest frame (`decode.cpp:501`).
- `encodeWorker.cpp:125`: "we are ready to process it" is tested before the lock is given
  up; both threads can find the encoder ready and overwrite a block in transmission.
- The repository's `README.md:76`: `AllDataCollected` says done while a block is between
  queue and encoder, or a bit between encoder and queue.
- `hid-libusb.c:755` says it is OK that no transfer is pending: then `hid_close` waits for
  ever.  A transfer that completes just before `libusb_cancel_transfer` has the same
  effect, for its callback submits it again without looking at `shutdown_thread`.
- `fcd.c:917`: a verification does not look at the bytes behind the last whole block of
  the image (`fcd.c:1001`), which are not written either.
- `decodeManager.h:79`: bins excluded around busy decoders are shifted at sample rates
  other than 192 kHz; with an `ExcludeShift` of 3 `NoCompany` is violated.
- `decodeManager.cpp:432` and `:435`: the number of decoders is read anew at every pass of
  the loop that counts the busy ones down, so that the unsigned count wraps when it has
  grown meanwhile and all are busy; peaks are then asked for that no decoder is free for.
- `bpskDecoder.cpp:347`: the clock slips as told above, which with a move of the peak at
  the same time can put two symbols half a bit apart or lose two.
- `funcubeLib.cpp:113`: the frequency is asked for when `GetTickCount()` is greater than the
  tick it is good until; around a wrap of the tick count that may be true at once, or not
  for up to 49 days.

## Bounds

- Receive path: 3 buffers make every sharing possible (one with the device, one
  queued, one held by both decoders), and are reused as they come back; 3 frames, of
  which one may be short and each may be lost.  `ManagerQueueMax = 1` and
  `WorkerQueueMax = 0`, queues of two and of one, let both discards fire.
- Peak detection: pool, queue and limits are the code's; 3 requests, so that a new one
  meets an old one at each stage; 6 posts exceed what can be pending before the guards
  stop the manager.
- Transmit path: 3 blocks for 2 places, phases of a few bits (the code has 768
  to 5200; only reaching zero matters), an output queue of 2 (64) and one sample
  buffer more than `MAX_OUTPUT_QUEUE + 1` (256), 3 posts.
- HID: `QueueLimit` is 1 (30) with 6 reports, so the queue of three drops three
  times; the device may be reopened without limit.

- Dongle: addresses 17 to 20 with a `Page` of 16, so that offsets are not
  addresses and there is padding before the first; blocks of 3 and 2 bytes (48
  and 32), of which the flash holds one with a rest and two without; images that
  fill the flash and fall short of it.  `MCMenus` names four applications of two
  threads; together they make every call, and those that disturb each other
  together.  Ticks modulo four with a `CachePeriod` of one let the cache expire, be
  renewed, and meet the wrap at every stage, without limit.
- Telemetry: five plans of two or three frames: clean, a burst, sync symbols turned up
  to the threshold and one beyond it, a frame that is destroyed, lost symbols, a frame
  that comes again.  Nothing is chosen at random, so a run is a computation of some
  thousand bits per plan; what it covers is each stage's reaction to each kind of damage.
- Allocation: ten bins, two signals of different power or one, a window of 3 bins (1 in
  the live run), two decoders.  Time stops counting at `AgeCap`, past both limits
  of availability; a decoder decodes at most one of the signals (`Satellites`), so the
  other one's decoder becomes available again.  With `MaxCalc` 1, or with fewer decoders
  than signals, the weaker signal starves: hence the premise of `EverySignalTried`.
- Session: one decoder, three output buffers, queues that hold one, two starts.  A decoder
  holds at most two buffers (the one it fills and the one in the queue or the device),
  the output queue `OutQueueLimit` + 1, the device one; in the code 64 suffice for 57
  decoders, more than its 32 (`NeverDry`).
- Signal path: arrays of 16 bins of which `m_fftResultSize` is half, as at 96 kHz, buffers
  of 8 (half an array, as in the code), 5 and 3 taps, every second sample kept, 4 samples a
  bit with a rest of one unit in 5, 64 samples: the rings turn six times and more, four
  arrays are transformed, eight bits are clocked, and the clock slips in the fifth.
  `spectrum_shown` has the code's sizes and three buffers.

The counters that would grow for ever (`captured`, `request.id`, `pushed`,
`received`, `event`) stop at these bounds through their actions' guards.  The
proofs need none of these sizes.

`hid_safety`, `peak_safety`, `session`, `signal_path` and `spectrum_shown` turn deadlock
checking off: a device that is gone, a process after a crash or a fault, and a stream that
has reached `MaxSamples` really do nothing more.

## Fairness

Every thread that can run does (weak fairness of each thread's steps): these
are plain pthreads, none of which waits for another except through the mutexes and
semaphores modelled.  Nothing is assumed of the audio device or the application,
except that a begun callback completes, and in `encode_safety` that the
application goes on collecting: strong fairness of `PopOutput`, since its polling
with `AllDataCollected` disables it now and then.  `RequestAnswered` carries its own
premise, that FFTs do not come so fast that the worker never finds its queue
empty: the code serves requests only then; and it ends with a crash, as everything
does.  `TransmissionEnds` carries the premise that the race never happened.  In `hid_safety` the kernel completes what was
cancelled and `hid_write` ends with its time-out of a second; no report need
ever come, and no wake-up is taken for granted that no signal caused.
`CloseReturns` and `ReadReturnsWhenGone` speak of the behaviours in which nothing goes
wrong outside (`may = {}`).  In `dongle_safety` each thread that is in a call goes
on; no call need ever be made, and nothing is asked of the dongle.
`allocation_live` takes for granted that buffers keep coming and that
the manager, the peak thread and the decoders are scheduled.  `session` assumes
nothing: that the teardown does not hang is the invariant `VictimWillEnd`, a wake-up is
there for whoever still waits.

## Proofs

TLAPS checks the following for all values of the constants, from the assumptions
named in the modules (sizes are natural numbers, sets of decoders and buffers
finite, the threads distinct, a wake-up can wait).  A further premise stands in the
theorem that needs it, and is one the code meets, or meets at the sample rate named:

| Premise | Theorem | In the code |
|---|---|---|
| `QueueHoldsThePool`: a decoder's queue holds the whole pool but one | `NothingMissed` | 513 and 64 |
| `PoolHoldsAll`: an output buffer for every decoder, every place of the output queue (`OutQueueLimit` + 1) and the callback | `NeverDry`, `QuietSafe` | 64 and at most 32 + 7 |
| `SamplePool >= MaxOutputQueue + 2` | `SamplePoolSuffices`, `SignalWhole` | 256 and 64 |
| `FftPool >= MaxInputQueue + 2` | `DryOnlyBehind` | 4 and 2 |
| `ExcludeShift = 0` | `NeverTwoOnOne` | 192 kHz |
| `BitClockAssumption`: the sum of a bit time's increments is not below it, and beyond it by a fifth of an increment at most | `BitsApart` | beyond it by 8 units of an increment's 14316559 at 1200 bits a second, by 0 at 4800 |
| `PeakSizes`: what `PeakDetectWorker` assumes of its constants | the theorems about it | sizes and counts |
| `CodecBears` and `[]OnlyFramesDecode`: what the link relies on | `BearableFrameArrives`, `NothingIsInvented`, `ErrorsCounted` | `telemetry_link` checks both for the code's codec |

- `DecodePipelineProofs`: `TypeCorrect`; `PoolSound` (`PoolPartition`), inductive with the
  type invariant: each step that drops references reclaims exactly the buffers no longer
  referenced, and every other step moves a reference without a gap.
  `OnlyWholeFrames` (`WholeFrames`) follows the one place
  where a short frame can be, the manager's queue, and `NoWakeupLost`
  (`WakeupsSuffice`) rests on it: a decoder never leaves its loop on a short buffer.
  `DeviceOrder` (`FramesInOrder`) needs the partition too, for a buffer that is
  filled anew must be in nobody's queue; while the manager feeds, a decoder that is
  still to be fed has nothing as new as the buffer it will get, and `order` names
  each decoder once.  `NothingMissed` (`DecodersMissNothing`) counts: the buffers
  in a decoder's queue are different ones, and none of them is the manager's.
  `PipelineDelivers` (`DeliversInOrder`) maps every step to a step or a stutter of
  `Delivery`: what a decoder takes is newer than what it has and not newer than what
  the manager took, by `FramesInOrder`, and whole, by `WholeFrames`.
  Of the other hand-over, `PeakTypeCorrect`; `BuffersAccounted` is a conserved sum.
  `DryOnlyBehind` (`DryOnlyWhenBehind`): what the pool lacks is queued or in a thread's
  hands, by that sum, and the manager has none when it asks for one.
  `NoRequestLost` (`RequestPending`) needs the strengthening
  `CalcIsLatest`: a request that came after the grab still has its flag up.
  `NothingLeftBehind` (`WorkNoticed`).
- `DecodeSessionProofs`: `TypeCorrect`; `HandlesTrue` (`StreamHandlesTrue`) and
  `CallbacksInTime` (`CallbackNeverLate`) by an invariant that says for each place
  of a call which streams are open, which run and which part of the manager is there;
  `VictimEnds` (`VictimWillEnd`) by where each thread may be while its handle is
  there and while it is being removed; `NeverDry` (`PoolNeverDry`) counts the buffers
  out of the pool, one at most per decoder besides the queue and the device;
  `QuietSafe` (`QuietCallsAreSafe`) adds what stays calm after a quiet call.
- `DecoderAllocationProofs`: `WindowWritten` (each tap of the window, none outside)
  and `ReadsWithinBounds` (at the edges of the spectrum too) are about the indices of
  `PeakDetect`; `PeakSearch` is what `CalcPeaks` promises, by induction on how
  many peaks are found.  `TypeCorrect`, and `OnlyRealSignals` (`OnlySignalsFollowed`),
  carry each peak from the spectrum it was in to the list it is handed out from.
  `NeverTwoOnOne` (`NoCompany`): a request's exclusions cover the decoders busy at
  that moment, the answer keeps away from them, and the peaks still to be handed out
  keep away from those handed out; this is said of the request, of the peak
  thread's copy, of its result and of the manager's list in turn.
- `EncodeWorkerProofs`: `TypeCorrect`, which includes who holds the mutex;
  `NoBitRefused`: queue plus threads on their way to publish never exceed the
  limit, since the mutex makes the test atomic and the application keeps it;
  `SamplePoolSuffices`; `DataAccounted`; `OrderKept`; `SignalWhole`
  (`SignalUnbroken`), whose invariant says where in the signal the encoder stands at
  each step of the one thread that is behind the `unlock()`.
- `HidDeviceProofs`: the inductive invariant `IInv` adds to the types `Places` (who
  may be where), `CancelledIsLast` (once `cancelled` is set there is neither a
  transfer nor a callback, and none comes) and `RoomForOne` (the bound on
  reports).  `SafeToFree` follows: the read thread ends only after
  `cancelled`.  `NoReaderSleepsOn` holds since a reader goes to sleep, under the
  mutex, only before `shutdown_thread`, and the broadcast comes after it.
  `ReportsImplementQueue` maps every step to a step or a stutter of `DropOldest`,
  and `ReportsOrdered` is what that means for a reader.
- `DongleProofs`: the inductive invariant is the type invariant, `HandleReleased`
  and `CallFits`, which ties what a call carries to the call and its step.
  `TypeCorrect` is more than types: no byte from past an image's end reaches the
  flash, which rests on the loop's bounds (`Bytes`).  `SessionsEnd`
  (`HandleReleased`).  `CacheTrue` (`CacheHonest`) needs `Alone`: while nothing
  disturbed the calls about the frequency there is at most one, and what it
  carries is what the dongle holds once it was answered.  `WritesTold` (`WriteTold`),
  `VerifiesHonestly` (`VerifyHonest`) and `SavesFaithfully` (`SaveFaithful`) share
  `LoopInv`: the caller in a loop has the dongle to itself (`Single`), the dongle's
  place is the loop's, and what lies before it is written, compared or saved; the
  loop's condition then leaves no whole block out (`Remaining`).  All three are about a
  call whose dongle is not pulled out meanwhile: what was put in then might be written in
  its stead.
- `TelemetryLinkProofs`: for every size of block, every codec, every number of frames and
  every damage to each, `BearableFrameArrives` (`FrameArrives`), `NothingIsInvented`
  (`NothingInvented`) and `ErrorsCounted` (`ErrorCountHonest`).  The inductive invariant
  `LinkInv` has four parts.  `RegisterHolds`: while a frame is sent, the two shift registers
  end in what was heard of it so far, its first symbol being the sync vector's last bit,
  so that with the last bit they hold the whole frame (`WindowIsFrame`) and
  correlate as well as the damage allows (`CorrelationOfFrame`).  `AllPutRight`:
  `CodecBears`, of a plan that does not change.  `LastKnown`: `lastResult` is the last bearable
  frame's block, and so is what the application was told last.  `ToldInOrder`: what it
  was told is, by rank, the bearable frames that differ from the one before.  All
  steps but a frame's last tell nothing, by `OnlyFramesDecode`.
- `SignalPathProofs`: `BitsApart` (`BitSpacing`), for every even number of samples per
  bit and every rounding within `BitClockAssumption`: while the clock moves, the position and
  the number of samples since the last symbol bound each other but for the half bit that
  a move takes and the sample that a slip takes; a slip uses the rest up, and a symbol is due
  before it can have grown enough for another (`SlipIsRecent`).  `FiltersConvolve`
  (`ConvolvesLatest`), for every number of taps and decimation: the ring is always in
  step with the number of samples stored (`StoreInSync`), so that the doubled taps meet
  the samples in order (`ConvolveExact`).  `SpectrumLatest` (`SpectrumOfLatest`) and
  `RangeSeesLatest` (`RangeShowsLatest`), for every `FftResultSize`: the two transforms stay half an array
  apart and each holds whole buffers, so their results are of consecutive halves.
  `TypeCorrect`: the oscillator's phase, of which one turn at most is taken off a step,
  stays within a turn.  For every number of rows and columns `SyncUntouched` (no
  symbol is written over the sync vector or outside the block), `NoCollision` (no two to
  one place) and `Undone` (the deinterleaver fetches each from where it was put).

`TypeCorrect` of every module, `NothingMissed`, `BuffersAccounted`, `NoBitRefused`,
`SamplePoolSuffices`, `DataAccounted`, `SessionsEnd` and `ReportsOrdered` are proved, and what
they state is no longer run: TLC agreed with each before it was proved.  It agreed likewise
with every inductive invariant, with that of `TelemetryLink` on blocks of 80 symbols and a
code of three words.

Proved by no theorem, and only model-checked:

- Liveness (`AllBuffersReturn`, `RequestAnswered`, `TransmissionEnds`, `CloseReturns`,
  `ReadReturnsWhenGone`, `CallReturns`, `EverySignalTried`), which is out of the prover's
  reach, as ENABLED is.
- `CodecBears` and `OnlyFramesDecode`, premises of the theorems about the link: they are what
  the codec computes, which is written with RECURSIVE operators, out of the prover's
  reach, and rest on the theory of its two codes.  `OnlyFramesDecode` cannot be a theorem of
  all frames anyway: that no mixture of two of them is near a codeword is likely, and no more.

Induction over data is within reach where it can be said with sets: the library's
theorems on well-founded sets, used with the set of the numbers for which a fact holds,
prove `PeakSearch`.

## Plan

What is left, in this order.

1. `DecodePipeline` and `PeakDetectWorker` as one: the manager's thread hands over to both.
2. `Dongle`: another dongle put in between the session that asks for the version and
   the one that uses it (`fcd.c:798`).
3. `HidDevice`: enumeration and the loop over interfaces that opens a device.
4. Two decoders in `TelemetryLink`, on one signal, and the readers of `m_lastData`.
5. The codec's helpers as recursive functions, and lemmas about them: the scrambler
   undone, the division of `encode_byte`.

## Not modelled, and why

- Values of samples: filter coefficients, the FFT's result, energies and averages.  Their
  correctness is a matter of error bounds, not of states.  The one float that steers a
  state, the time within a bit, is modelled by the integer sum of its units; where in a bit
  the sum takes up the rounding is not.
- The result path's race: `OnDecodeSuccess` copies `m_lastData` on a decoder's thread while
  `CollectLastData` copies it out, both without a lock; and two decoders on one signal
  compare with the last frame without one.  What is read may be any mixture.
- `GetWorkerFreqs` and `GetWorkerAvail`, which read `m_decoders` during the sort; the peak
  thread within a session, where it is one more worker like the decoders;
  `AudioBufferReady`, which nothing calls since `m_audioSource` is never set.
- A restart at another sample rate: decoders and buffers of the first stay in use, and
  the second `Initialise` of the FFTs is refused.  The samples of the capacity test at
  `decode.cpp:507` are counted with `sizeof(SAMPLE)`.
- In `hid-libusb.c` enumeration, string descriptors and feature reports: calls into
  libusb that keep no state of their own.  Whoever uses them should know that
  `hid_open_path` goes through an uninitialised list when `libusb_get_device_list` fails,
  does not stop at the interface it has opened, and never gives a detached kernel
  driver back.
- `whichdongle` (always 0 in this library), the progress callback of `fcd.c`, a second
  dongle, a page boundary within the flash.
- The matched filter of the transmitter, `m_shuttingDown`, the timers of `wintypes.h`, the
  Windows branches, the tests, the build files and the resources.
