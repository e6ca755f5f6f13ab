# G-Claw in TLA+

TLA+ models of the voice side of G-Claw: `crates/gclaw-voice`, `crates/gclaw-ipc`, their
Python counterpart, the configuration in `crates/gclaw-config` and the script that
downloads the models. Beside them are the TLC runs that check the models on small
instances, and the proofs TLAPS checks for every instance. Modules are in this
directory; `PROJECT.json` maps every definition to the lines it models and lists the
runs, the mutants that show each property can fail, the findings and the hazards.

## The system

G-Claw's voice shell is one process. It owns the microphone and the speaker,
cuts the microphone stream into utterances, transcribes them, and exchanges
MessagePack messages with a *brain* (a Python program for now) over a TCP
connection to localhost. Components, the state they keep and how they meet:

| component | source | state | operations |
|---|---|---|---|
| main loop | `shell.rs` | where `run()` stands, the read buffer of the connection, the audio of the utterance under way | wake word, utterance, auto-sleep, one arm per command |
| shared state | `state.rs` | microphone state, session mode, speaking, last activity, language, shutdown flag | setters called by `run()`, `request_shutdown` by any holder |
| barge-in controller | `bargein/controller.rs` | `stop_flag`, one monitor thread per call | `speak_interruptible`, `stop` |
| playback | `audio/playback.rs` | position, `finished`, per stream | `play_blocking`, output callback |
| voice activity detector | `vad/silero.rs` | waiting / in speech with two counters, LSTM tensors | `process_frame`, `reset` |
| capture | `audio/capture.rs` | ring buffer under a mutex, count of samples | input callback, `read_last`, `total_samples` |
| transport, codec | `gclaw-ipc` | read buffer | `send`, `recv`, `encode`, `decode` |
| Python bridge | `python_bridge` | socket and its timeout, two locks | one method per command, three waits |
| TTS engines | `tts` | a child process and its pipes, per call | `synthesize` |
| configuration | `gclaw-config` | `config.json`, which G writes | `load_config`, `encrypt_value`, `decrypt_value` |
| download script | `scripts/download_models.py` | model files and their `.tmp` | `download_file`, `main` |
| wake word, noise filter, transcriber | `wake`, `stt` | none worth the name | pure functions, an external library |

The main loop calls the detector, the transcriber and the controller
synchronously: while a reply is played or an utterance transcribed, nothing else
of `run()` happens. It shares the ring with the device callback, `stop_flag`
with a monitor thread and the output callback, `VoiceState` with whoever holds
the `Arc`, and the socket with the brain.

What is hard in it, and what should hold:

* **The order of things in one loop.** The socket is read only by an awake
  session, inside a `select!` whose other branch drops a half finished `recv()`;
  every path must restore the microphone state and restart the auto-sleep clock,
  or not. Correct means: the published state shows what is going on, the clock
  counts from the last exchange with the user, nothing is served or reported
  outside an awake period, no command is lost at the end of the connection.
* **Three threads and two shared flags per reply.** `finished` means played or
  silenced, `stop_flag` belongs to all calls. Correct means: the result says
  which it was, only a monitor that heard the user cuts a reply, everything ends.
* **A stream polled by a loop with its own pace.** Correct means: a window of
  the ring is the end of the stream wherever it wraps, a segment holds the
  frames of one utterance, all of them and once.
* **A byte stream cut anywhere.** Correct means: messages arrive once and in
  order, an end of file is reported truthfully.
* **Threads of the brain on one socket.** One timeout serves all calls, and the
  answers carry no number. Correct means: frames go out whole, messages are read
  once and in order, a wait neither blocks a send nor leaves its timeout behind,
  and a result means what the method says.
* **A child process between two pipes.** Correct means: a reply is the whole text
  or an error, and the call ends.
* **Two programs over two full sockets.** Each side alone has to excuse a send that is
  stuck. Correct means, for the two together: a send ends, a wake word arrives, what
  is said finds a listener.
* **Files that others write.** G moves `config.json` while it is looked for, the download
  script is killed and run again while a shell starts. Correct means: every key is
  what its own token says, the first place in order wins, no part of a model has its final
  name.

## Modules

* `VoiceTypes` - messages, states, the moves of the detector, `select_engine`.
* `SessionProtocol` - what the shell owes the brain, with nothing of how: Ready
  first, one WakeWordDetected per awake period, commands one at a time and in
  order, one Pong per Ping, at most one BargeIn per SpeakInterruptible.
* `VoiceShell` - `run()` with `VoiceState`. `pc` is where it stands; there is one
  action per handler, split exactly where `run()` waits: at the `select!`, a full
  socket buffer, a transcription, a playback. A trailing `set_mic_state`,
  `set_speaking` or `touch` is part of the action that ends the wait. The
  brain, a ticking clock and a holder of the shared state are the environment.
  `VoiceShellProperties` holds its properties and the mapping to
  `SessionProtocol`; `VoiceShellQuiet` adds a history clock; `VoiceShellProofs`
  the proofs.
* `BargeIn` - `speak_interruptible`, `play_blocking`, the monitor threads and the
  output callback, one action per load, store, join or callback. A load of `stop_flag`
  by the playback may return the older value, as its `Ordering::Relaxed` allows, but none
  older than the same thread has loaded before (`LoadedStop`); the device may refuse a
  stream. `abandoned` is a history variable: the calls that left through that error
  without joining.
* `SileroVad` - `process_frame` and `reset` with the caller's buffer; a frame is
  its number and the verdict of the network.
* `AudioCapture` - the ring written sample by sample under its lock, and the
  turn of `run()` that reads a frame and then, under another hold of the lock,
  the position. The detector in it makes any of the moves in `VadMoves`, which
  `SileroVad` is proved to make (`MovesAsPromised`).
* `IpcTransport` - `encode`, `send`, the socket, `recv` and `decode`, byte by
  byte. A byte is a digit of a small base, so that a payload read in the place of
  a header is a length, as it would be. `got` keeps what every frame that was consumed
  came to. `MessageChannel` is what a connection promises, without a byte: items sent
  whole, delivered in order and once, one over the limit never passed over, an end that
  is reported when nothing whole is left. `IpcTransportProperties` holds the mapping.
* `BridgeCalls` - what each method of the bridge sends and, as the table `Reaction`, what
  it makes of each message.
* `BrainBridge` - `GclawVoiceBridge`: any of its methods called by several threads.
  A thread is a record (`step`, `call`, `msg`, ...); a step ends where another thread
  can come in between, at a lock, at a part of a frame, at a change of the socket's
  timeout. A frame has two parts, length and payload, since a timeout or the end
  of the stream between them is what matters. A timeout there sets the readings adrift:
  what `recv()` takes for lengths and payloads then begins and ends anywhere (`Strays`), each
  reading uses up bytes, also the one that raises, and one that happens to end with a
  payload finds the frames after it again. Which numbers the text of a payload makes as a
  length is left open, and so is where a reading ends, so that a payload used up four
  bytes at a time by calls that raise is one of the behaviours.
* `BridgeProtocol` - what the bridge is to the threads that call it, message by message:
  a request is said whole or not at all, an answer is heard whole, in order and once, and
  a call ends; no lock, length or timeout is in sight, only their two accidents: a send that
  gives up inside a frame leaves the shell deaf (`broken`) until the next connection, a
  wait that does leaves the threads with nonsense (`adrift`) until one of them happens on
  the beginning of a frame again, the messages passed over lost and the others in order.
  `BrainBridgeProperties` and `VoiceSystemProperties` hold a mapping to it each.
* `VoiceSystem` - all of `VoiceShell`, with the peer it leaves open replaced by one thread
  that calls the bridge. The program of the brain is not in the repository: `InTurn` says
  what is taken for granted of it: it waits for the wake word first, and sends a request
  only after a wait for the user that did not time out, so never two in a row; and it
  calls `disconnect()` when there is room for its Shutdown.
* `TtsEngines` - `PiperTts::synthesize` with its child process and pipes of bounded
  size, and `EspeakTts::synthesize` with the walk over the chunks of a WAV file, which
  is compared with the layout the file was written with.
* `Fernet` - a token byte by byte in layout and symbolic in content: padding, offsets and
  lengths are those of the code, a cipher text or an HMAC is its ingredients, a raw key
  its two halves, all of which sign and the last of which enciphers.
  `Configuration` - `load_config` step by step beside G, which may write any file at any
  step, with tokens signed in either of the two ways `config.rs` describes. Nothing but
  tests calls `encrypt_value`, so it makes no token of a file. `ModelDownload` - the script,
  one action per block and per rename, killed anywhere. `Startup` puts them together with the start of the shell, from `main()` to
  the connection. The search for `config.json` is part of the library that no program of
  the workspace uses yet: the shell loads the file it is given with `--config`
  (`OthersLoad` stands for a program that would look for it).

Modules `*Properties` state properties, `*Proofs` theorems, `MC*` the instances
for TLC. Definitions marked *faulty* in a component are mutants: plausible bugs a
property must catch; no specification uses them.

## Runs

Passing runs:

| run | shows | bounds |
|---|---|---|
| `voice_shell` | types; `MicShowsWork`; `CleanExit`; `IdleClockExact`; `ImplementsProtocol`; `RequestHonoured`, `SleepsWhenIdle`, `ShutdownObeyedAwake` | two commands in flight, one message towards the brain: a full buffer, a command behind another and an end of file behind both all occur; a limit of one second, which `run()`'s clock and the history clock both pass by one |
| `barge_in` | `OnlyMonitorsCut`, `MonitorsAccountedFor`, `CallReturns` | three calls: two leftover monitors can meet a third call; replies of two buffers; three loud frames, as in the code |
| `silero_vad` | `SegmentWhole`, `SegmentIsOneUtterance`, `MovesAsPromised` | twelve frames with limits 2, 3 and 5: two utterances, a discard, a cap met in a pause |
| `audio_capture` | `WindowIsNewest`, `PositionCoversFrame`, `AudioInOrder` | ten samples through a ring of four: two wraps; blocks shorter and longer than a frame |
| `ipc_transport` | `NothingLost`, `ReceivedInOrder`, `ImplementsChannel`, `WholeIsTaken` | three frames of up to seven bytes with their header of four binary digits, a socket of seven and reads of up to five: frames split anywhere, several in one read, a sender that waits for room; a payload over the limit, one that does not deserialize, a foreign header that announces too much |
| `brain_bridge` | `SentWhole`, `ReceivedInOrder`, `TimeoutRestored`, `MessagesAreAtomic`, `SendsGetThrough`, `ClosedEndsCalls` | two threads, `connect()` and two calls, at the same time or after one another; two messages of the shell, so that one is read behind another, a Ping is answered inside a wait, and one is returned after the other was lost to a timeout; `speak` stands for all methods that only send |
| `tts_engines` | `WholeReply`, `StuckOnLongText`, `WavAsWritten`, `SynthesisEnds` | a pipe of two pieces and texts of one, two and six, so that both pipes can be full with text left; all files of up to three chunks of seven kinds, cut off at seven places |
| `voice_system` | `NoStandoff`, `MeetsAsBridge`, `SendsNeverStick`, `WakeGetsThrough`, `SpeechFindsListener` | one message in each socket, the least there can be, so both are full as soon as one message waits; a limit of one second; one language and engine, `speak` for all methods that only send |
| `startup` | `EachKeyOnItsOwn`, `FirstPlaceWins`, `WholeUnlessCut` | two models of two blocks; two places and a named file; three keys, of this machine, another and nobody, signed with the whole key or half; blocks of two bytes and secrets of none to four, so that a last block is full, short and missing; one write of G during a run beside any files before it |

The other runs each violate one statement of the documentation or a comment;
the findings in `PROJECT.json` quote the line:

* `monitor_joined`: an error of the output device leaves a monitor thread behind;
* `completed_means_played`: `finished` and `stop_flag` are loaded with `Ordering::Relaxed`, so
  the main thread can find the stream finished, by a callback that saw the flag and played
  silence, and then load the flag as it was before: a reply that was cut is reported as
  completed;
* `speech_reaches_brain`: the shell packs payloads as arrays, on which the bridge calls
  `get`: every UserSpeech the bridge looks into raises, and what was said is lost.

Other disagreements met while modelling, which the actions show but no run states:

*Main loop.*

* a sleeping session never reads its socket, so a brain that disconnects is not noticed
  until somebody says the wake word (`AtIdle`; `IPC_PROTOCOL.md:109`), a Ping to it is not
  answered, and a Shutdown waits like any command (`IPC_PROTOCOL.md:66`;
  `ShutdownObeyedAwake` says what holds instead);
* StopSpeaking is read after the reply it should stop, since a playback blocks the
  task that reads (`StartPlaying`; `IPC_PROTOCOL.md:63` says it force-stops the speech);
* a malformed message ends `run()` (`RecvGarbled`; `IPC_PROTOCOL.md:110` says it is
  skipped);
* SetMicState IDLE leaves the session awake (`RecvSetMicState`;
  `ARCHITECTURE.md:124` shows a return to IDLE);
* auto-sleep can cut off a user who is speaking, since only a finished utterance
  touches the clock (`AutoSleep`); a reply of the brain that arrives after it is read,
  and spoken, in the next awake period;
* `config.language` is stored and never used by `run()`; an empty `--ai-name` makes the
  detector of the wake word hear it in everything, and a bare name of one letter is
  filtered as noise before it is compared; `detector.rs:97` calls a `contains`
  near-exact.

*Audio.*

* a monitor left behind shares `stop_flag` with the next call and is past its head
  start, so it can cut the new reply at once (`OnlyMonitorsCut` allows exactly this);
* the cap of an utterance is compared only in a silent frame, so speech without a
  pause is never cut (`SpeechGoesOn`; `silero.rs:27` calls it a safety cap);
* the discard of a short noise does not reset the LSTM state (`Discard`;
  `VOICE_PIPELINE.md:80`);
* the newest 512 samples are not the next 512, so a segment repeats or misses samples
  (`ReadFrame`; `silero.rs:134` promises the full segment; `AudioInOrder` says what holds);
* `start_sample` is the position at the end of the first frame or later
  (`PositionCoversFrame`: never before that; `vad/mod.rs` calls it the
  time when speech started);
* a text longer than a pipe can block piper and `run()` for ever
  (`StuckOnLongText`), and a write to piper that fails leaves the child unreaped;
* `VOICE_PIPELINE.md:170` says that a header of 44 bytes is skipped; the code walks the
  chunks (`WavAsWritten`);
* both engines cut the text at byte 50 for a debug line, which panics inside a
  character of several bytes when that level is on (not modelled).

*The bridge and the wire.*

* `speak_interruptible` takes any message for the end of the reply, one that was waiting
  before the request included, and that message is lost (`Reaction`;
  `gclaw_bridge.py:204`); so a BargeIn into one reply can be taken for one into the next;
* `connect()` leaves its timeout of ten seconds on the socket, so the first wait without
  a timeout ends after ten (`Connect`), and the `finally` of one thread removes the
  timeout another has just set (`Finally`; `gclaw_bridge.py:73` says thread-safe);
* a timeout between the length and the payload of a frame loses the place in the
  stream: calls raise or return nonsense, and at least one message is lost, until a reading
  happens to end between two frames (`ReadNonsense`); a send that times out does the like
  to the shell, which ends;
* a brain that waits for the wake word once, as the documentation shows, does not learn of
  the later ones: after an auto-sleep `wait_for_speech()` drops a WakeWordDetected, and
  `speak_interruptible()` takes it for the end of its reply (`Reaction`;
  `WakeGetsThrough` says what holds: some call receives each);
* `connected` stays true when the shell has gone (`ShellCloses`);
* the length of a payload is cut to 32 bits before it is compared with the limit
  (`LengthOf`; a payload of 4 GiB is outside the run's inputs).

*The start.*

* shell and bridge both connect and neither listens: `start_ipc_server` has no caller
  (`README.md:80`); the models start from a connection that is there;
* `decrypt_value` signs with all 32 bytes of the derived key (`SigningKey`), where
  `config.rs:9` and `:137` say that the specification signs with the first 16: a key saved
  by a Fernet that keeps to it is refused with a warning and is not in memory, on whatever
  machine (`HalfKeyRefused`, `EachKeyOnItsOwn`). Line 138 takes Python's to sign with all
  32, and the tests open only what `encrypt_value` made;
* only `load_config(Some(_))` is ever called (`main.rs:38`): the places `config.json` is
  looked for, and G_CONFIG, are without effect on the shell;
* `download_models.py:3` says "Download and verify" and nothing is verified: a transfer
  cut short without an error gets the final name and is skipped ever after
  (`StreamEnds`; `WholeUnlessCut` allows exactly this). Nor is the file synced before it is
  renamed: `WholeUnlessCut` covers a script that is killed, not a machine that loses power.

### What the runs assume

*Data.* Texts, confidences and samples are not kept; a transcription may be noise,
speech in any language, or the wake word. Inference, transcription, synthesis
and sends may fail where the code has a `?` or a `match` for it. Nobody makes the bytes
of a cipher text or an HMAC without the key (`Fernet`), and two identities have no half of a
raw key in common. G is external: its tokens are Fernet tokens signed with the first half
of the key or with all of it. Payloads given to `encode` are
shorter than 4 GiB, where `as u32` wraps, and a peer that frames by itself follows the
wire format, except that it may announce more than is accepted (`FramesAssumption`). A WAV
file is a sequence of chunks, with any ids, sizes and formats, cut off anywhere
(`FilesAssumption`). The commands the brain of `VoiceSystem` may send include those of
its methods and Shutdown (`MethodsAssumption`).

*Fairness.* `run()` is a task that always gets to its next statement
(`WF(ShellStep)`); this includes that a playback ends, which the code leaves to
the device. A command that is readable when the `select!` is entered wins against
a timer of 32 ms armed in the same instant, so a command that is there again and
again is taken (`SF(RecvCommand)`, and `SF(Read)` in the transport); `VoiceSystem` makes
this part of the step (`ReadableFirst`), and asks for no more than that `run()` and the
brain go on when they can (`WF(ShellTurn)`, `WF(BrainActs)`). Its clock stands still on
the way to the `select!` and in a send: a send that blocks for longer than the limit could
end in a sleeping session, which no longer reads, with a brain that waits in a send to it.
Nor does it hold for a brain that sends without listening in between, or disconnects into
a full socket: then both ends can block for ever. In `BargeIn`
every thread is scheduled and a device that opened a stream keeps asking for
buffers. In `BrainBridge` a thread that can go on does, and gets
a lock that is free again and again (`SF(Progress)`): threads of one interpreter take
turns, and the shell reads what it is sent; and a thread that reads inside a part comes
to its end, since each `recv()` takes at least a byte and a part has finitely many
(`SF(ReadNonsense(t) /\ wire' # wire)`, without which a part could give lengths for ever
and `ClosedEndsCalls` would say less than the code does). In `TtsEngines` both processes are
scheduled. The user and the clock owe nothing, nor does the brain outside
`VoiceSystem`. No run without fairness is used to refute a liveness statement.

*Deadlock* is not checked where the system may stop: `run()` returns, the bounded
streams of samples and frames end, so do the bounded calls of the bridge and the
one call of an engine (whose deadlock `StuckOnLongText` describes). It is checked for
`BargeIn`, `SileroVad`, `IpcTransport` and `Startup`.

## Proofs

All theorems hold for every value of the constants that satisfies the `ASSUME`
of the module.

* `VoiceShellProofs`: `TypeCorrect`, `MicTruthful`, `CleanExitHolds`, `AsleepDeaf`,
  `Implementation` and `ClockExact`. The inductive invariant is `ShellInv`: the type invariant, with
  the clock apart, and what `pc` says of mode, microphone state, speaking and
  shutdown (`PhaseBar` and `ServingBar` need it: a session inside an arm is awake).
  `MicShowsWork` alone is not inductive, since it says nothing of the states a
  transcription or a playback starts from. The refinement is proved action by
  action: each maps to one action of `SessionProtocol` or to a stutter.
  `ClockExact` rests on the lemma that `idle` and the history clock are restarted by the
  same steps (`Restarts`). `AsleepMeansDeaf` has no run of its own, since what a peer can
  see of it is in `ImplementsProtocol`.

  Of the two programs together: `WithTheBridge`, that the system implements `VoiceShell`,
  so that all of the above holds of `run()` with the bridge at the other end. `HeardInTurn`
  rests on `WaitsForWake`: as long as the brain waits for the wake word it sends nothing,
  and the shell is asleep, or WakeWordDetected stands before any speech on the way or in
  the brain's hands. `NeverBothStuck` is the safety part of `SendsNeverStick`, for every
  size of the sockets. `Afoot` is how many messages `run()` may still send before it takes
  a command that is there: at most the one under way, and the wake word if it falls
  asleep after a Pong. `Room` says that a full socket towards the shell leaves room for
  that many in the other, but for the message the brain has to read before it may make its
  next request (`Turn`); each request costs the brain a message read, which is the room.

  `MeetingFollowsProtocol` (`MeetsAsBridge`): shell and brain together implement
  `BridgeProtocol` with one thread, the one that `BrainBridge` implements frame by frame,
  which is what allows `VoiceSystem` to send messages whole. For it every step of
  `run()` is one of three things to the sockets (`ShellMeets`): nothing, a command taken,
  or a message told to a brain that is there; the invariant `Unmet` says that there is
  nothing between the two before a connection, and no call in a brain that is gone.
* `BargeInProofs`: `TypeCorrect`, `Cuts` and `Accounted`, however stale the loads. They rest
  on `AloneInv`, which relates the position of main to the monitors: every earlier
  call has joined its monitor or is abandoned, and whoever raised the flag since
  it was lowered is one of those that may be alive.
* `SileroVadProofs`: `Whole`, that a segment is every frame since speech started.
  `SegmentWhole` speaks of the segment handed over; the invariant adds that the
  buffer holds the utterance as long as the detector is in one (`AccWhole`), and
  nothing at all of the buffer between utterances. `OneUtterance` adds that the counters
  count what is in the buffer and that no part of it was an end (`Counted`); a frame is
  counted by `FS_AddElement`, the trailing silence is unique (`SilenceIs`). `Moves` is the
  action property the other models rely on.
* `AudioCaptureProofs`: `Window`, that a read of the ring is the end of the stream.
  The invariant (`Laps`) says which sample each cell holds, also while the callback
  is inside a block. On it rest `Position` and `Ordered`: the frame at hand was the end of
  the stream at some total, and an utterance is whole frames that end no later than it
  (`LoopInv`).
* `IpcTransportProofs`: `InOrder`, `EndIsEnd`, `BytesKept` and `Implements`, for any
  payloads, base, sizes of the buffers and number of frames. The invariant (`Inv`) gives
  every byte its place: the read buffer goes on in the stream where the last frame taken
  ends, the socket where the read buffer ends, and what the sender holds is the end of the
  last frame (`InPlace`); and the ends cut the stream into frames that are as long as they
  announce, unless they announce too much (`Framed`). `HeaderReads` is the codec's own
  fact: a length below 2^32 is read from four bytes as it was written. `Front` says that
  what the read buffer starts with is the next frame. In the refinement a frame is an item
  from its first byte on; a step of `MessageChannel` is the last byte written or the frame
  taken, and all steps between are stutters.
* `BrainBridgeProofs`: `TypeCorrect`, `Framed`, `Restored` and `InTurn`, for any number of
  threads. The invariant (`Inv`) ties each lock to the one thread inside its block, adds to
  `SentWhole` that the last part of the socket is the length the thread holding the
  send lock wrote, and says what a thread may be doing in each step (`Fit`): a
  thread that leaves a call without a finally was not in the try block. Each action
  is reduced to one turn of one thread, and `Turn` proves that a turn is enough. For
  `InTurn` (`ReceivedInOrder`) the invariant `InOrder` numbers the parts of the shell's
  frames: what is on the wire comes after the parts read, an odd number of them while a
  thread waits for a payload, and while the shell is there nothing is missing.

  `AsIfAtomic` (`MessagesAreAtomic`) is the refinement: with all its locks, parts of
  frames and timeouts the bridge implements `BridgeProtocol`. A request is said when its
  payload is in the socket, an answer is heard when its payload has been read, and all
  steps before are stutters. What the mapping calls the inbox is the payloads on the wire;
  that it grows at one end by whole messages and loses them at the other is what the
  invariant `Stepping` is for, which a timeout inside a frame, the end of `InOrder`, does
  not end. Whatever was lost, lengths and payloads alternate on the wire (`Alternates`), and
  unless the readings are adrift the next part is the one the thread waits for; so a reading
  in step takes the next message whole, and one that is not takes none but may use up the
  next. What has been said is the payloads in the socket (`Payloads`), and `Framed` is
  needed to know that a part after a length is one of them. The step lemmas go by what a
  turn of a thread looks like from outside (`SeenIs`, `SeenTurn`, `SeenQuit`), the counting
  by lemmas on sequences alone (`OnePart`, `OneFrame`, `OneCount`).
* `TtsEnginesProofs`: `TypeCorrect`, `Replies`, `Walked` and `Waiting`. For the pipes the
  invariant relates what was written, what is in them and what was read (`Conserved`) and
  says how the call stands when it has a result (`CallOK`). `Walked` (`WavAsWritten`)
  holds for files of any number of chunks: `Walk` says that the walk stands at the start of a
  chunk, with the format of those before it, and has passed no data chunk. The layout is a
  recursive function; that it exists and may be unfolded, and that its starts grow
  (`StartsGrow`), is proved by induction over sets of numbers (`Induction`, from the
  well-foundedness of `<`). `Waiting` is `StuckOnLongText` with the conditions under which
  each process waits written out.
* `StartupProofs`: of `Fernet`, `RoundTrip` and `OtherMachine`, that `decrypt_value` opens
  what `encrypt_value` made with the same raw key and nothing it made with another, for
  every length of text, block, HMAC, time and vector, and `HalfKeyRefused`, that it opens no
  token signed with half a key. `Layout` says where each part of a token is, `PaddedProperties` that padding
  comes off again. Of the start, `KeysApart` (`EachKeyOnItsOwn`), `FirstFound`, `Whole` and `AllThere`, for any
  number of places, keys, models, blocks, kills, failures and writes. `ConfigInv` says which keys
  have been decrypted and which places were empty when they were looked at,
  `DownloadInv` what is on disk under both names in each step of the script, `ShellInv`
  that what is loaded was whole or cut when it was. `KeysApart` uses
  `Unsealed` and `Refused`, the lemmas for any pair of keys behind the other three.

Only model-checked: liveness, all of which needs fairness (`RequestHonoured`,
`SleepsWhenIdle`, `ShutdownObeyedAwake`, `CallReturns`, `WholeIsTaken`, `SendsGetThrough`,
`ClosedEndsCalls`, `SynthesisEnds`, `SendsNeverStick`, `WakeGetsThrough`), and
`StuckOnLongText`, which is about ENABLED: that the conditions in `Waiting` are those under
which no step can be taken is what the run adds to the theorem. Every other invariant and
action property that a run checks is proved.

## Not modelled

* The transcriber and the noise filter: an external library, and one string compared with
  a list. In the models any transcription may come out.
* The wake word detector: a similarity of an external crate, decided character by
  character; in the models any utterance may hold the wake word.
* The IPC server of the shell and the listen and connect helpers of the transport: nobody
  calls them. The error types of `error.rs`: no function returns them.
* The options of the command line other than `--config`, each of which sets one field; the
  search for the engines' binaries; the setters of voice and speed; `pause()` and
  `resume()` of the capture, which nobody calls.

## Plan

Done, in this order: `VoiceTypes`, `SessionProtocol`, `VoiceShell` with its proofs;
`BargeIn` with its proofs; `SileroVad`, `AudioCapture` with theirs; `IpcTransport`;
`BrainBridge` and `TtsEngines` with their proofs; `VoiceSystem`; `Fernet`,
`Configuration`, `ModelDownload` and `Startup` with their proofs; `MessageChannel` and the
proofs of `IpcTransport`, of the order of messages in the bridge, of the walk over the WAV
file and of the safety of `VoiceSystem`; `BridgeProtocol`, and the proofs that the bridge
and the two programs together implement it.

Next:

1. `AudioSystem` - `SileroVad` over `AudioCapture` while replies are played, and
   `BargeIn`'s monitor on the real ring: an utterance with a reply in the middle,
   the same loud block counted three times, a device that stops.
2. The safety of `VoiceSystem` for a brain of several threads that share the bridge.
