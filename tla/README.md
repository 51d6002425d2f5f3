# A verification development for ezviz-python

TLA+ models of the stateful parts of this library, the TLC configurations that
check them on small instances, and TLAPS proofs of their safety for every value
of the constants. `PROJECT.json` lists components, runs, mutants, the mapping from
definitions to source lines, hazards, findings and theorems.

    tlc -config live_safety.cfg MCLiveStream.tla     # a run
    tlapm LiveStreamProofs.tla                       # the proofs of a module

Paths below are relative to `src/src/ezviz/`.

## 1. The system

The library is single-process asyncio code: a task runs without interruption from
one `await` to the next, so an **action of a model is the code between two
awaits**, and `pc` names the await a task or generator is suspended at. What is
concurrent: tasks that share one client or camera, the remote camera and cloud,
the consumer of an asynchronous generator (who may read on, close, forget or
cancel it at any time), threads of `asyncio.to_thread`, timers, and the operating
system's ports.

| component | source | state | operations | what is hard | what makes it correct |
|---|---|---|---|---|---|
| live stream | `camera.py` live, `streaming/live.py`, `protocol/local_sdk.py` open_local_sdk_stream | three nested generators, two links, the prefix scanned so far | open, handshake, scan for `$`, yield, unwind | an error, close, drop or cancellation at each await, inside any of three generators; a fixed receiver port shared by all | no link leaks; links nest; media only after a checked handshake; it always opens or ends |
| DeviceLink | `transport/device_link.py` | reader and writer | connect, send, recv_exactly, recv, close | timeouts per await; a second cancellation in `wait_closed` | a closed link stays closed |
| playback | `camera.py` playback, `protocol/local_sdk.py` open_local_sdk_playback | the exchange under way and its socket, the answers, the decoder | INIT, INVITE, PLAY, media, flush | three fresh sockets, answers looked at after the socket is closed, end of file with a NAL half assembled | one socket at a time; media only of the right session; nothing left behind |
| IDMX framing | `protocol/idmx.py` | none: each piece is scanned on its own | iter_frames | pieces that are cut anywhere; two sentinel offsets | exact frames from packets; losses stay local |
| FU reassembly | `crypto/media.py` StreamDecryptor | `_active_fu`, `_evidence_seen` | update, flush | lost fragments, wrap of sequence numbers, three ambiguous header conventions | exactly the NALs that arrived whole |
| download | `camera.py` download | count, file, pump task | open, pump, time limit, close | jobs in threads go on after their await is cancelled | the count agrees with the file; everything is released; the time limit holds |
| session | `client.py`, `auth.py`, `transport/http.py` | session and domain in two objects, cached CAS address | login, cas_credentials, device_endpoint | logins overtaking requests of other tasks | no session goes to a foreign domain |
| prepare_live | `camera.py` prepare_live | the camera's local-control fields | credentials, then endpoint | two tasks, or a failure between two answers | the fields come from one call |
| CAS client | `transport/cas.py` | one call's connections, the answer | connect, fallback for expired certificates, exchange, close | the server may show another certificate to the second connection, fall silent or hang up at any await | the session goes only to a connection whose certificate names the host, a valid one or one tolerated for its age; writers are closed; failures of the network are ProtocolErrors; the call ends |
| controls and queries | `camera.py` ptz etc., `client.py` defence mode, switches | none in the library; the camera's motion | lone cloud requests; snapshot is two, ptz is START then STOP | pulses of several tasks overlap; a failure or cancellation between START and STOP; a closed client | a pulse that returns leaves no motion of its own |
| discovery and addresses | `client.py` cameras, device_endpoint, `models.py` | Device.local_ip and the Camera's fields | two readings of the same pagelist blocks, defaults | the readings and the defaults may disagree | shown and dialed at one address, at the ports reported |
| image decryption | `crypto/media.py` decrypt_image, `camera.py` _decrypt_if_encrypted | none | split into segments, decrypt, unpad, join | pictures that break off anywhere | exact if whole, else a beginning of the picture or an error |
| media packets | `protocol/local_sdk.py` _read_frame_after_prefix, rtp_payload | the position in the stream | find `$`, read by length, strip RTP framing and marker | one wrong length loses the step for good; `$` in the media | exactly the media sent, in order |
| alarms, records, messages | `camera.py`, `models.py` | none | one request each | defensive conversions only | requests modelled, conversions not |
| feature code, XML and control-frame layout | `feature_code.py`, `protocol/local_sdk.py` | none | pure functions of bytes | byte layouts, covered by the unit tests | not modelled |
| command line, examples | `cli.py`, `src/examples` | none | sequential callers | - | not modelled |

How they interact: `prepare_live` uses the client's session (EzvizHttp) and the CAS
client, and leaves in the Camera what `live` and `playback` dial. Every other cloud operation
goes through the same EzvizHttp. `live` pulls from
`streaming/live.py`, which pulls from `open_local_sdk_stream`, which owns two
DeviceLinks and one StreamDecryptor; `playback` does the same with three links, one
after the other. The decoder calls `iter_frames` for each piece. `download` is a
consumer of `live`.

The README of the repository says that playback of past footage is "not
implemented"; the code implements it (`Camera.playback`), and the models follow the
code.

## 2. The modules

Every component is a module; `MC*` modules instantiate it for TLC, `*Proofs` modules
hold its theorems.

### LiveStream (and StreamSession, its abstract specification)

State per generator: `pc` (the await of the innermost generator), `outer` (what the
consumer holds), `cmd` and `str` (the two DeviceLinks), `pieces` (reads left of a control frame),
`junk` (`len(prefix)`), `camera` (what the camera answered, and which session it was
told), `why` (the exception on its way out); shared: `prepared` and `timeWait`, the
receiver ports that linger. Actions in the order of the code: `Start`, `Prepared`,
`CommandConnected`, `StreamConnected`, `ConnectFails`, `Sent`, `HeaderArrives`, `BodyArrives`,
`PreviewAccepted`, `SetupAccepted`, `AnswerRefused`, then the media loop `JunkByte`,
`PrefixTooLong`, `MagicByte`, `RtpHeaderArrives`, `PacketArrives`, `Resume`; the way out
`StreamClosed`, `CommandClosed`; the environment `TransportFails`, `CommandLost`, `Reap`
(the loop closes a socket), `LingerExpires`; the consumer `Close`, `Drop`, `Cancel`, and
the loop's finalizer hook `Finalize`.

`StreamSession` says what a stream promises without the protocol: links are taken in a
fixed order, media flows only with both, and on its way out a stream only gives back.
`ImplementsSession` is the refinement, checked and proved.

### FuReassembly

The camera side sends NALs in fragments marked in the three ways the decoder's
heuristics expect, or whole, and any frame may be lost; the decoder side is
`_process_frame`, `_append_media_payload`, `_fu_continues` and `flush` with the code's bit
tests on real 8-bit header bytes. A NAL is a number and what was collected of it is a
count and whether it is intact. `owed` is the history of NALs that arrived whole: a NAL
that was fragmented bare needs the RTP marker on its last fragment, because nothing else
tells the decoder that it ended; a slice in one frame is owed only after unmistakable
HEVC data was seen, as the code's evidence flag demands.

`BareAssumption` excludes first data bytes that look like one of the two headers: there
the code's heuristics are ambiguous by nature.

### IdmxFraming

A stream of frames in units (a lead byte, or none for cameras whose sentinel is at offset 8;
RTP-like block; sentinel; data), cut into pieces
in two ways: packets (some whole frames; what a live stream feeds) and reads (anything;
what playback feeds). `IterFrames` gives the frames of a piece. It is assumed that data
never contains the four sentinel bytes. `PacketsAreExact` is about offset 9, the one real
captures show; `CutsAreLocal` says what offset 8 costs (section 6).

### MediaPackets

State: `wire`, the bytes sent and not yet read; `sent` and `got`, the media of each packet on
either side; `reader`. The camera sends packets with any number of contributing
sources, header extensions and padding, with a preface or without, whose media may hold `$`
and the fragment marker; `ReadFrame` is one turn of the reader, from the scan for `$` to
the payload the decoder is fed, with `rtp_payload` and `strip_local_fragment_header` translated
byte by byte. A preface is taken to hold no `$` (one that does puts the code out of step).
`PacketAssumption` bounds what a packet is made of by its header's fields: a length of two bytes (as
`build_rtp_header` demands, `local_sdk.py` 383), a contributor count of four bits, a padding length
of one byte, and a preface the scan accepts (`max_prefix_bytes`).

### HikImage

A picture of one or more encrypted segments of which any number of bytes has arrived. A byte
is a record that says what it is a part of, so that a byte in a wrong place, a garbled
block or padding given out as picture is visible. `ImageArrives` is `_decrypt_if_encrypted` with the
first checks of `decrypt_image`. Its two loops take one step per segment, with `cursor`, `blocks`,
`joined` and `picture` for their variables: `SkipToHeader`, `TakeBlock` and `SplitEnds` are the turns and the
end of `_split_segments`, `DecryptSegment` and `GivesPicture` those of the loop that decrypts
and joins. AES is modelled by what it
does: a whole block in its place decrypts to plain bytes, anything else to garbage.
The value of a byte is kept only where the code looks at it, as a padding length.

### LanEndpoint

The CONNECTION and WIFI blocks of one camera in the pagelist, which change, and the two
readings of them: `DeviceAddress` (`Device.from_api`) and `EndpointAddress`
(`DeviceEndpoint.from_connection`), with absent fields, empty strings, blanks and `0.0.0.0`; the
Camera's fields that `PrepareLive` fills from the second, and what `Live` dials.

### CasClient

One call of `get_device_credentials()`: `pc` is its await, `conn` the two connections it may
open, `shown` the certificate the server has shown on each (they need not be the same),
`carrier` the one the request was written to. The handshake's own verdict (`Flaws`) is external and
written as the standard has it (`StandsForHost`); `ToleratesExpired` is the code's examination
with its wildcard rule, so that `CarrierNamesHost` compares the two. `Examined` is what comes of that
examination's except clauses when the second certificate cannot be read (`UnverifiedUnread`): a ProtocolError, or
the x509 library's own exception, which leaves the call as it is. `TimesOut`, `Breaks` and
`Cancel` may strike at every await, also while the writer is being closed.

### Playback (and PlaybackSession, its abstract specification)

As LiveStream, for one generator at a time: `leg` is the exchange under way, `link` its
sockets, `camera` what was answered and told, `pending` whether the decoder holds an
unfinished NAL. Answers are settled when their header arrives (`HeaderArrives`) and
looked at only after the socket is closed (`LinkClosed`), as in the code, which checks
neither the commands of the answers nor anything of PLAY's. A new generator is started
only when the last one's sockets are gone: unlike `live` it binds no local port,
so generators cannot disturb each other.

`PlaybackSession` says what a playback promises without the protocol: three exchanges in their order, each
with a socket of its own that is gone before the next is begun; media in the last one only; complete only if the
media came to their end, what was collected was given out and no socket is left. A playback that failed, was
closed or was cancelled never passes for a complete one. `ImplementsSession` is the refinement, checked and proved.

### Download (and Recording, its abstract specification)

`pc` is the await of `download`, `job` the latest executor job of each kind, `file` and
`recorded` what the threads have done, `written` the variable the function returns.
A cancelled wait withdraws a queued job and abandons a running one (`Withdrawn`), and the
pump task, the generator and the `finally` are unwound await by await. At the time limit
`wait_for` cancels the pump and waits for it; what a second cancellation does then differs
between Python 3.11 and later versions, and `Cancel` allows both. In 3.11 that second cancellation may reach
the caller as a RuntimeError of `aclose()`; the model calls either one "cancelled", and no property tells them apart.

`Recording` says what a caller may rely on: chunks are stored one by one and counted only after
they were stored, nothing is counted once the recording was told to end, at most the chunk in hand is still
stored then, and a closed file never grows. `ImplementsRecording` is the refinement, checked and proved.

### ClientSession

`http` and `client` are the two places that keep session and domain, `cached` the CAS
address, `camera` the fields of one shared Camera, `open` whether the HTTP client is. A session is
the number of its login, a prepared value that of its call, so that mixtures are visible.
Tasks call `Login`, `Prepare`, `Query` (asks for a login first), `Control` (does not), `Snapshot` or
`Ptz`, and each answer (`LoginAccepted`, `LoginRedirected`, `LoginNeedsMfa`, `ServerInfoArrives`,
`CredentialsArrive`, `EndpointArrives`, `CaptureArrives`, `PtzStarted`, `PtzStopped`, `Answered`) or
failure (`Fails`) is a step of its own; `Aclose` may come at any time. The camera moves and
stops when it obeys (`CameraObeys`), which is before its answer arrives; a `ptz` that gives up
after that leaves its motion as `runaway`.
A login answer that names no domain is given the transport's current one, as in the code; that
this may have changed since the login was asked is a hazard no property covers.

## 3. The runs

| run | instance | shows |
|---|---|---|
| `live_safety` | two generators, two ports, one token, prefix limit 1 | `NoLeakedLink`, `StreamInsideCommand`, `MediaAfterHandshake`, the refinement |
| `live_liveness` | one generator, prefix limit 2 | `OpeningSettles`, `ScanSettles`, `ReleaseSettles` |
| `fu_exact` | six frames, NALs of up to three fragments, modulus 4, types 19 and 39 | `OutputIsExact`, `FlushAddsOnePrefix` |
| `playback` | playbacks one after another, two sessions a camera may issue | `OneLinkAtATime`, `MediaIsOfThisWindow`, the refinement, `PlaybackSettles` |
| `download` | four chunks, two cancellations | `CountIsLowerBound`, `EndReleases`, `TimeLimitHolds`, the refinement |
| `session` | two tasks, two domains, two logins, five calls | `SessionStaysHome`, `PreparedTogether`, `CasIsOwn`, `CasSessionIsCurrent`, `PulseEndsStill` |
| `cas` | one call, five names a certificate may hold, any certificate per connection | `CarrierNamesHost`, `OnlyTheRefusedIsLeft`, `OnlyParsersEscape`, `CallSettles` |
| `formats` | three frames at either offset; two packets of up to two bytes; pictures of up to three segments of two blocks; two changes of address | `PacketsAreExact`, `NoForeignData`, `CutsAreLocal`, `MediaInStep`, `CutPictureIsPrefix`, `WholePictureIsExact`, `InventoryAgrees` |
| `fu_pseudo`, `framing_reads`, `download_size`, `cas_age` | one property each | disagreements, section 6 |

Each passing run also checks a `TypeOK`. `formats` holds four modules that share nothing
(`MCFormats` lets each behaviour be about one of them). Every property of a passing run has a
mutant: a plausible slip in the code (a dropped check, a wrong order, an off-by-one,
the definition named "Faulty ..." in the module) under which TLC finds it violated.

Bounds, and why they are enough:

- *Generators, ports, tasks: two.* What they can disturb in each other is one port or one
  field at a time; a third adds no new pair. The proofs cover any number.
- *Prefix limit 1 or 2* for 4096: only reaching the limit and staying below it differ.
- *Modulus 4, six frames*: the numbering wraps inside a NAL and between NALs, a start,
  middle and end fragment can each be lost and be followed by another NAL. One access unit
  never has more frames than the modulus (the real one is 65536): a gap of exactly a
  modulus within one timestamp cannot be told from none.
- *Types 19 and 39*: an IDR slice and an SEI, on each side of 32 where the pseudo header's
  spare bit ends.
- *Three frames of four or five units*: a cut in, before and after the middle frame, and in
  each of the lead, block, sentinel and data; pieces that hold all, some or parts of frames.
- *Four chunks, two cancellations*: cancelled while unwinding from a cancellation.
- *Two logins, five calls*: a login can overtake each step of a `prepare_live` in each order, and
  two pulses can overlap with a third call between them.
- *Five certificate names*: the host itself, a wildcard that covers it, a partial wildcard, a wildcard
  one label too high, and an address spelled like the host; a certificate holds any set of them.
- *Two packets, the bytes `$` and marker*: a packet out of step shows at the next one, and these are the only
  bytes the reader looks for. A preface of one byte, one contributor, an extension of no or one word and two bytes
  of padding are each there or not.
- *Three segments of two blocks of two bytes, a header of two and a hash of four*: a cut inside
  and between headers, hashes and blocks, in the first, a middle and the last segment, and every
  padding up to a full block. 2 for 16 keeps
  the relations that matter: whole blocks, a header no longer than a block.
- *Two changes of address*: a Device of older blocks than the Camera's fields, and of newer ones.

`CHECK_DEADLOCK FALSE` is set only where the system really stops: the camera has sent its
frames, the calls are used up, the download or the credentials call is over, the picture has arrived. `live_*` and `playback` are checked for
deadlock.

## 4. Fairness

Nothing is asked of the camera, the cloud or the consumer: each may be silent for ever.

- *A timeout for every await.* `DeviceLink` wraps each connect, drain and read in a `wait_for` of its
  own, so at each particular await `TransportFails` is weakly fair. It is **not** one
  condition for the whole reading loop: a camera that answers one byte at a time resets the timer with
  each byte. That is why the conjunct is given for each await and each turn of the scan,
  and `ScanSettles` needs the prefix limit.
- *The loop* closes closing sockets (`Reap`), resumes `wait_closed()`, and runs the
  finalizer of a generator nobody refers to (`Finalize`).
- *prepare_live ends*: its HTTP and CAS requests have their clients' timeouts.
- *The CAS client's timers* (`TimesOut`) fire at its awaits, the loop gives up a TLS shutdown that is not
  answered (`SocketCloses`) and resumes `wait_closed()` (`Closed`); `wait_closed()` itself has no timeout.
- *Download*: threads finish their jobs, the loop resumes what is ready, the timer fires,
  and a generator told to close ends (which is `ReleaseSettles` of LiveStream).

Safety runs use `Spec`, without fairness, except where a run checks both.

## 5. What is proved

From the named assumptions on the constants only, each `Spec => []Inv` by an inductive
invariant that was checked with TLC first.

- **LiveStreamProofs.** The properties are not inductive: that nothing leaks depends on where
  the generator is. `IInv` adds, for each await, which links are held (`Links`) and what
  the camera has answered (`Answers`). Theorems: `TypeCorrect`, `NoLinkLeaks`,
  `StreamNeedsCommand`, `MediaNeedsHandshake`, and `Refinement`: `Spec => ImplementsSession`.
- **FuReassemblyProofs.** Assumes `PlainPseudoTypes`: NAL types sent with pseudo headers are below 32.
  (Without it exactness is false: see `fu_pseudo`.) `IInv` says that what is active is a clean
  prefix of a NAL whose distance from the camera's number tells whether it is the current one
  (`ActiveSound`), and that a NAL without a lost fragment is active until its end
  (`NothingForgotten`). Theorems: `TypeCorrect`, `Exactness`, `FlushSound`.
- **DownloadProofs.** `Phases`, `FileFollowsJobs` and `CountFollowsJob` tie await, jobs, file and
  count together. Theorems: `TypeCorrect`, `CountSound`, `EndsClean`, and `Refinement`: `Spec => ImplementsRecording`.
- **ClientSessionProofs.** `Logged` (every session in use was issued) and `OneCas` (up to a second
  login there is one session and one CAS), and that the camera moves for a task that still waits.
  Theorems: `TypeCorrect`, `SessionSound`, `CameraSound`, `CasSound`, `CasCurrent`, `PulseSound`.
- **CasClientProofs.** `IInv` says for each await which connection is open, and that a certificate was
  shown and accepted on the carrier before anything was written. A lemma shows that what
  `_dns_name_matches` accepts stands for the host, for names of any number of labels. Theorems:
  `TypeCorrect`, `HostNamed`, `NothingElseLeft`, `ParsersOnly`.
- **IdmxFramingProofs.** For frames of any number and size. The lemmas are about division by
  `FrameSize` (which frame a unit belongs to, where its sentinel is) and about the frames of one piece
  (`OneFrame`, `WholeFound`); `IInv` adds that every found frame lies between two cuts, that
  a sentinel has one frame, and that an uncut frame was given. Theorems: `TypeCorrect`,
  `PacketsCutExactly`, `OwnDataOnly`, `OnlyCutFramesLost`.
- **FormatsProofs**, about three modules.
  *MediaPackets*, for packets of any make: `PacketInv` says that the wire is a number of whole packets, with where each
  begins, that carry the media not yet read. The lemmas show that the first `$` of such a wire is that of its
  first packet, that the length read there leads to the next one, and that `rtp_payload`
  takes off what the camera put around the media, whatever these are. Theorem `MediaStayInStep`.
  *HikImage*, for any block size, number of segments and cut: `ImageInv` says what the camera has laid out (`Camera`), that
  the blocks found so far are the first segments in their order and where the cursor may be (`SplitInv`), and
  that what is joined is the beginning of the original up to the segment reached (`DecryptInv`).
  Theorems `ImagesAreCutCleanly`, `WholeImagesAreExact`.
  *LanEndpoint*: the two readings agree for any addresses, `ReadingsAgree`.
- **PlaybackProofs.** `Links` (only the present exchange's socket exists), `Answers` (an exchange
  begins only after what the one before must have brought), `Flushed` (nothing is owed once the media has come to its
  end). In `Refinement`, `Spec => ImplementsSession`, they make the abstract phase and the sockets held functions of
  the await, and each action is then one abstract step or none. Theorems:
  `TypeCorrect`, `FreshLinks`, `RightWindow`, `NothingLeft` (that `FinishedIsComplete`, which the refinement contains), `Refinement`.

Every safety invariant and action property of the passing runs is a theorem, and so are the three
refinements. Only model-checked is all liveness (`OpeningSettles`, `ScanSettles`, `ReleaseSettles`,
`PlaybackSettles`, `TimeLimitHolds`, `CallSettles`), which is out of the prover's reach.

What a loop computes from data of any length would need induction over the data. It is avoided by
models whose loops take a step for each packet, frame or segment: the induction is then that over
the steps of the specification, and the invariant says what was computed so far.

## 6. What the models found

- `fu_pseudo`: for NAL types from 32 the pseudo header's first byte has bit 0x40 of its own,
  which the decoder takes for the end bit: the NAL is truncated and its tail dropped.
- `framing_reads`: playback feeds `iter_frames` with raw reads, though it is documented to
  be given complete packets: a frame cut between two reads loses its tail.
- `download_size`: the time limit may strike while a thread is writing: the chunk reaches the
  file and not the count.
- `cas_age`: an expired certificate is documented to be tolerated only if it "really is expired (not some other
  verification failure)". The handshake says so of the first connection; of the certificate shown on the second, made
  without verification, only the age and the names are compared, so one with another flaw is tolerated too.
  `CarrierNamesHost` is what holds, and it says nothing of the second certificate's issuer.

Met while modelling, and kept as they are in the models:

- README and CHANGELOG promise automatic region redirects; `login()` raises `RegionRedirect`
  (`LoginRedirected`) and nothing retries.
- With sentinels at offset 8, the second supported offset, every frame but the last of a packet loses its last
  byte to the next one (`idmx.py` 122 tries 9 first); `CutsAreLocal` bounds the loss.
- A `ptz` that fails or is cancelled between START and STOP leaves the camera moving.
- The refused second connection of the CAS fallback is never closed (`UnverifiedRefused`).
- Three parsers of the CAS client raise past the library's exceptions (`OnlyParsersEscape`). `_parse_credentials` catches
  `ET.ParseError` alone: an XML declaration with an encoding unknown to Python is a LookupError, with a multi-byte
  one a ValueError (`Parsed`). A malformed `EncryptType` is a ValueError of `int()`. Those exceptions of `x509` that are no
  ValueErrors (repeated extension, unknown version, unsupported name) are not caught at `cas.py` 297 (`Examined`).
- A picture that breaks off inside its first header is passed on as it came, and one that breaks off in
  a later header or hash is shortened without an error.
- The ports of a Camera are documented to default to 9010 and 9020 when the camera reports none
  (`camera.py` 164); for the command port `models.py` 305 puts 8000 in between, which `prepare_live()` stores as if
  reported and `live()` dials (`CmdPort`, `Dial`).
- `live()` never looks for a new address once `local_ip` is set.

## 7. Not modelled, and why

- The layout of control and CAS headers, the AES envelope, XML wording, and the fields of alarms, records
  and messages: pure functions without state, covered by byte-exact unit tests; no interleaving reaches them.
- The AES-ECB prefix decryption of a NAL: a function of one NAL.
- False sentinels in data, and a `$` in a preface: the framing models take the camera's stream free of them.
  FuReassembly covers the consequence (any frame may be lost), not the false frame itself.
- The feature code (a function of the MAC address), the command line and the examples (sequential callers).

## 8. The plan

The order is by importance to a user of the library; the first eleven are done.

1. LiveStream with StreamSession: checked and proved, refinement included.
2. FuReassembly: checked and proved.
3. Download: checked and proved.
4. ClientSession: checked and proved.
5. Playback: checked and proved.
6. IdmxFraming: checked and proved.
7. CasClient: checked and proved.
8. Ptz and the lone requests: in ClientSession, checked and proved.
9. MediaPackets, HikImage, LanEndpoint: algorithms on bytes and records, checked and proved.
10. Recording, the abstract specification of a download: checked and proved.
11. PlaybackSession, the abstract specification of a playback: checked and proved.
12. To do: composition of IdmxFraming and FuReassembly: what a cut between reads costs in NALs.
