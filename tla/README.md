# TLA+ models of the Verse JavaScript client

This directory models the browser client in `src/javascript`. The client
authenticates to a Verse server over a WebSocket. It has three byte-level codecs
and one event-driven session, and the modules below check both against
`spec.md`.

## 1. Inventory

### Components, their state and their operations

| Component | Source | State | Operations |
|---|---|---|---|
| Header codec | inside `src/request.js`, `response.js` | none | writes version nibble, reserved byte and 16-bit length; `checkHeader` reads the version |
| Request codec | `src/request.js` | none (fresh buffer per call) | `handshake(name)`, `userAuth(name, passwd)` |
| Request codec, older copy | `request.js` (repository root of the client) | none | the same two functions, written with a moving cursor `buf_pos` |
| Response codec | `response.js` | none | `checkHeader(buffer)`, `parse(buffer)` → `'passwd'` or `undefined`, or a thrown `RangeError` |
| Negotiation codec | `src/negotiation.js` | none | `string_message`, `int_message`, `fcid`, `ccid`, `url`, `cookie`, `ded`, `rwin`, `fps`, `compression` |
| Session (socket handlers) | `src/socket.js` | one module-level `my_webscoket` and its `readyState`; no session variable at all | `init`, `onConnect`, `onMessage`, `onError`, `onClose`, `window.onbeforeunload` |
| Bootstrap | `src/app.js` | the config object | calls `wsocket.init(config)` once |
| WebSocket transport | the browser | `readyState`, frames in flight each way | open, message, error and close events; `send`, `close` |
| Not code at runtime | `test.js`, `spec/*.js`, `Gruntfile.js` | none | tests and build |

### How the components interact

`app.js` calls `init`, which creates the WebSocket and registers the four
handlers. The browser then calls those handlers one at a time, each running to
completion:

* On the `open` event, `onConnect` sends `request.handshake(username)`. This is
  a `user_auth` command that proposes method NONE.
* On a `message` event carrying an ArrayBuffer, `onMessage` first calls
  `response.checkHeader`. If that returns false, it calls `close()` and stops.
  Otherwise it calls `response.parse`. When the result is `'passwd'`, it sends
  `request.userAuth(username, passwd)`.
* `onError` and `onClose` only log.

The negotiation codec is not connected to the session. It builds self-framed
records that are meant to be packed back to back.

### What is hard here

* **Event order and the peer.** The peer can answer in any order, with any frame,
  as often as it likes, and it can close at any time. A frame that is still in
  flight when the client calls `close()` is never dispatched.
* **No session state.** Nothing remembers that the credentials were already sent,
  that the peer refused, or that a frame was malformed. Everything depends on the
  frame being handled.
* **Exceptions.** A `DataView` read past the end of the buffer throws a
  `RangeError`. This aborts `onMessage` halfway and leaves the socket open.
* **Byte arithmetic.** Every length goes through `setUint8` or `setUint16`, which
  wrap modulo 2^8 or 2^16 without an error. `charCodeAt` values above 255 lose
  their high bits.

### What makes each component correct

* **Codecs:** every length field equals the length it describes, so frames and
  records are self-describing. The peer reads back exactly what was encoded. The
  two copies of the request codec agree byte for byte.
* **Session:** the handshake goes out first and then only credentials. The
  password goes only to a version-1 peer that asked for it, and once per
  request. Spec §4.5 adds three more promises:
  * the credentials are sent once;
  * a refusal or a malformed frame closes the session;
  * a PASSWORD offer at any position of the method list is answered.

`PROJECT.json` lists every hazard at the line where it occurs, with the property
that covers it.

## 2. Plan

The session comes first, because it is the program's behaviour. The codecs come
next, because the session is only as good as the bytes it sends.

1. `DataView`: ArrayBuffer and DataView semantics, meaning zero-filled buffers,
   `ToUint8`/`ToUint16` wrap-around, range checks, `charCodeAt` packing and
   `setFloat32`. Writes are defined only inside the buffer. In JavaScript a
   write outside it throws a `RangeError`, but every encoder of the client
   allocates its buffer at the sum of its fields, so none writes out of range.
   No mutant relies on an out-of-range write. It is platform behaviour, so it is not mapped,
   except `PackString`, which is the code's packing loop.
2. `Request`, `RequestLegacy`, `Response`, `Negotiation`: the codecs, as
   operators.
3. `WireFormat`: the reference reading of the wire format, written from spec
   §3, §4 and §6 and independent of the code. Properties compare the code with
   it. It also builds the frames a peer sends.
4. `Session` composes `Request` and `Response` with the WebSocket and a peer.
   `MCSession` instantiates it.
5. `SessionSpec` is the abstract session machine of spec §4.5. `Session` is
   checked against it through `INSTANCE ... WITH` a refinement mapping.
   `AuthClient` is the abstract client that the code does implement, with its
   liveness. It is done in this sitting (see `session_safety`).
6. `Codec`/`MCCodec` and `NegotiationCodec`/`MCNegotiation` are harnesses for
   the pure codecs. Each step calls one encoder on inputs from small sets at the
   edges of the length bytes.

Items considered and not done:

* **A response-side round trip over all short frames.** `parse` does not read
  the header length, so it cannot agree with the reference reading on frames
  whose length field lies. `session_malformed` already shows that
  disagreement. On well-framed frames, `RefinesAuthClient` checks the
  agreement that matters to the session.
* **A silent peer.** See "What is not modelled".
* **Negotiation decode.** Spec §4.2 says the codec is symmetric, but the source
  has no decoder. `WireFormat` holds the reference reader that the encoder is
  checked against.

## 3. Modules and how they map to the code

| Module | Models | State / actions |
|---|---|---|
| `DataView` | ArrayBuffer/DataView (platform) | operators only |
| `Request` | `src/request.js` | `handshake`, `userAuth` as chains of `SetUint8`/`SetUint16` on `NewArrayBuffer(message_len)`, the same offsets as the code |
| `RequestLegacy` | `request.js` | the same functions as concatenations of fields, which is what the `buf_pos` cursor builds |
| `Response` | `response.js` | `checkHeader`, `parse` as CASE over the reads in code order. A read past the end gives `RangeError` |
| `Negotiation` | `src/negotiation.js` | all constructors. `fps` uses `SetFloat32` |
| `Session` | `src/socket.js`, `src/app.js` | variables listed after this table |
| `AuthClient` | what `socket.js` promises | `phase`, `pending` (abstract frames not yet heard), `said`; `Open`, `Deliver`, `Hear`, `Close`; weak fairness on `Open` and `Hear` |
| `SessionSpec` | spec §4.5 | `state`, `out` (messages emitted); `Open`, `PasswordRequired`, `Accepted`, `Close` |
| `Codec` | harness for the request codecs | `last` = the last call and both copies' results |
| `NegotiationCodec` | harness for the negotiation codec | `records` (what was encoded), `stream` (the bytes) |

`Session` has the following variables:

* `ready` is `readyState`.
* `c2s` is every buffer the client has sent, and `srvRead` is how many of them
  the peer has read.
* `s2c` is every frame the peer has sent, and `cliRead` is how many of them the
  client has consumed.
* `onclose` is the socket's `onclose` attribute. It is `"null"` until
  `onbeforeunload` sets it to a no-op.
* `closeHandlers` is the set of handlers the `close` event ran. It is empty
  until the event fires.

The record `config` is the object `app.js` passes to `init`. The listeners hand
its `username` and `passwd` to the handlers. The URI and protocol tag only
choose the transport.

`onbeforeunload` may run in any state, because `close()` on a socket that is
already closing or closed does nothing. The page can stay after the event, for
example when a download link fires it. The socket then goes on to fire `close`.

Its actions come in two groups:

* **Client:** `onConnect`, `onMessage` and `onbeforeunload`.
* **Transport and peer:** `PeerReply`, `PeerPush`, `PeerClose`, `PeerCloseArrives`,
  `CloseCompleted` and `ConnectionLost`. `onError` and `onClose` run inside the
  last two. `FireClose` is the browser's dispatch of the `close` event: it runs
  every listener added with `addEventListener`, plus the `onclose` attribute
  when one is set.

Each handler is one action, because the browser runs it to completion. Both
channels are append-only histories, so properties can relate what was sent to
what was received. `onMessage` is enabled only while `ready = "OPEN"`. This
models the browser's rule that a message event whose socket is no longer OPEN
is dropped.

The peer is not code of this repository and is modelled as an environment. It
answers each client buffer with any one binary frame from `PeerFrames` or with
a text frame (`PeerReply`), or it closes. Once it has read the handshake it may
also send frames nobody asked for (`PeerPush`). Examples are a repeated offer
and an offer that overtakes the answer to the credentials. The client matches
no frame to a request, so these are cases the code must survive. `onMessage`
ignores the text frame, because its data is no ArrayBuffer.
`MCSession` gives it seven frames:

* an offer of PASSWORD, the 7-byte version-1 form of the frame that
  `spec/response_spec.js` tests. The test's frame is 8 bytes long and has
  version nibble 0;
* an offer of only NONE;
* an offer of no method at all;
* an offer of NONE before PASSWORD;
* a PASSWORD offer under version 2;
* a 1-byte frame;
* another version-1 command.

`session_malformed` swaps the 1-byte frame for `LengthMismatch`. That is a
PASSWORD offer whose header claims 9 bytes for its 7.

The user is `albert`/`12345` from `spec/request_spec.js`.

## 4. Runs

| Run | Expect | What it shows |
|---|---|---|
| `session_safety` | pass | `WireWellFormed`: every buffer sent is framed correctly and decodes as the configured user. The first buffer is the handshake with NONE, and every later one is PASSWORD with the configured password. `CredentialsOnlyOnOffer`: the number of credentials sent never exceeds the number of version-1 PASSWORD offers consumed. `RefinesAuthClient`: the client implements `AuthClient` under the fairness below. It answers every version-1 user_auth_fail whose first method is PASSWORD with exactly one credentials message, closes on another version, and ignores everything else, text frames included. It also hears every frame that reaches it while OPEN, so each such offer is eventually answered unless the session closes first. The mapping classifies the unconsumed frames into `pending`. |
| `session_refinement` | violation | `RefinesSessionSpec`: a second PASSWORD offer makes the client send the credentials again. Spec §4.5 has no such step. |
| `session_refusal` | violation | `RefusalEndsSession`: after a refusal, the socket stays OPEN. |
| `session_multi_method` | violation | `EveryOfferAnswered`: the offer [NONE, PASSWORD] is never answered. |
| `session_malformed` | violation | `MalformedFrameEndsSession`: the offer `LengthMismatch` passes `checkHeader`, which reads only the version. `parse` never compares `message_len` with the size, so the client sends the password and the socket stays OPEN. The 1-byte frame `<<16>>` breaks the same property a different way: `parse` throws, and the socket stays OPEN. This run leaves that frame out, so that the trace shows the length mismatch. |
| `session_unload` | violation | `OnCloseDisabledOnUnload`: the comment at `socket.js:11` says the assignment disables the close handler. The close event that follows `onbeforeunload` still runs `onClose`, because `init` added it with `addEventListener`. |
| `codec_requests` | pass | For all inputs that fit the length bytes, including a 251-character handshake name (4 + 251 = 255) and name plus password of exactly 250, three things hold. `FrameConsistent`: every frame is self-consistent. `RoundTrip`: it decodes to its inputs. `CopiesAgree`: both copies give identical bytes. |
| `codec_overflow` | violation | `FrameConsistent`: a 252-character name makes the handshake's command length 256, which is written as 0. |
| `codec_wide_chars` | violation | `RoundTrip`: code unit 945 is sent as 177. |
| `negotiation_records` | pass | `StreamRoundTrip`: every two-record stream built from all eight constructors splits back into exactly the records encoded. The edge values are ids 0 and 255, a 252-character string, and floats 0, -2.5, 5/32 and 1023/64. |
| `negotiation_overflow` | violation | `StreamRoundTrip`: a 253-character string gives a record whose length byte reads 0. |
| `negotiation_int_wrap` | violation | `StreamRoundTrip`: `fcid` with id 256 sends id 0 instead of failing with ValueTooLarge (spec §4.2, §7). |

Each property of a passing run has a mutant in `PROJECT.json`. A mutant is a
plausible slip in the code that TLC catches:

* an off-by-one command length;
* a dropped version check;
* a handshake command length off by one;
* a password packed one byte early;
* a field missing from the older copy's command length;
* a record length byte holding the string length.

There is no separate type invariant. Every value the code writes passes through
DataView's ToUint8/ToUint16, and the harness variables are typed by
construction. A type invariant would state nothing that a slip in the code
could falsify.

### Bounds and why they are enough

* **Session:** the peer sends at most 4 frames (`MaxFrames`), answered or
  unsolicited. That is enough to see several sequences:
  * handshake → offer → credentials → a second offer → a second send;
  * two offers pushed before the first is heard;
  * a refusal or a malformed frame followed by anything.

  Each client step sends at most one buffer, so `c2s` stays bounded too.
  `session_safety` reaches 285,010 distinct states in about 80 seconds. With 5
  frames it reaches 2.8 million states and takes 15 minutes, and no sequence
  it adds involves a new kind of step.
* **Codecs:** lengths are chosen at the edges of the bytes.
  * Handshake names go up to 251 characters, and spec §8's bound of 247 is
    included too. 4 + 251 = 255 fits a byte; 252 is the first length that
    wraps.
  * Passwords are chosen so that n + p reaches exactly 250, the last sum that
    fits. `WithinLimits` filters out the pairs that do not fit.
* **Negotiation:** two records per stream suffice for the self-framing property,
  since it is the length byte of one record that locates the next.
  Floats have denominators of at most 64, so the float32 encoding stays inside
  TLC's 32-bit integers.

### Fairness

`Session.Spec` makes four client-side actions weakly fair:

* `onConnect` and `onMessage`, because the browser's event loop eventually runs
  every queued event;
* `PeerCloseArrives` and `CloseCompleted`, because a started closing handshake
  completes or times out.

The peer gets no fairness, because it owes the client nothing. `session_safety`
checks liveness under these assumptions. `AuthClient.Spec` carries weak
fairness on `Open` and `Hear`, and TLC checks that `Session`'s fairness implies
it. Without `WF_vars(onMessage)` the check fails: an offer can wait forever in
an open session.

Session runs use `CHECK_DEADLOCK FALSE` because CLOSED is final: `app.js` calls
`init` once, and nothing reopens the socket. Every other state can still step,
since `ConnectionLost` is always enabled.

## 5. What is not modelled

* **Rounding of doubles to float32.** This affects `fps(7.244)`, because TLC
  has no reals. Only values that float32 represents exactly are encoded.
* **Logging.** The `console.log` text is left out. `onError` and `onClose`
  only log. What the model keeps is whether `onClose` runs, which is the
  subject of the `onclose` assignment in `onbeforeunload`.
* **Parts that are not runtime code.** `test.js` calls an undefined
  `messages.composeHandshake`. `Gruntfile.js` and the Jasmine specs are not
  runtime code either.
* **A 16-bit header length that wraps.** The length wraps only
  for names longer than 65527 characters. The one-byte fields wrap first, and
  the model checks those.
* **A handshake timeout.** After the handshake, the client waits for the peer
  with no timer (hazard at `socket.js:38`). A silent peer keeps the session
  OPEN forever, and the model reaches that: the peer owes nothing, so
  stuttering forever after the handshake is a behaviour of `Spec`. Spec §5
  says the reference specifies no timeout, and it calls adding one a design
  choice. So there is no promised behaviour for a property to check, and no
  timer in the code to model.
* **Frame loss and reordering.** The WebSocket runs over TCP, which loses and
  reorders nothing, and the code has no retry. Repeated or unrequested frames
  from the peer are modelled (`PeerPush`).
