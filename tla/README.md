# azure-utpm-c: a TLA+ development

azure-utpm-c is a small TPM 2.0 client library. A program opens a connection to
a TPM (a raw device, a resource manager, Windows' TBS, or the TPM simulator),
calls functions such as `TSS_CreatePersistentKey` or `SignData`, and each of
these turns into a run of TPM commands, marshaled into a buffer, submitted on
the connection, and answered by a response that is unmarshaled and checked.

This directory holds models of that code, the TLC runs that check them, and
machine-checked proofs. Paths below are relative to the repository; `src/x.c`
is the file `src/x.c` in it, and the headers are under `inc/azure_utpm_c/`.
`PROJECT.json` maps every definition to the lines it models.

## 1. Inventory

| component | state it keeps | operations | module |
|---|---|---|---|
| `src/tpm_socket_comm.c` | the socket; a cache of received bytes `recv_bytes`, `recv_length` | create, destroy, send, read | `TpmSocket` |
| `src/tpm_comm_emulator.c` | the socket; the step of the protocol it is in | create (handshake, power on), submit, destroy | `SimComm` |
| `src/tpm_codec.c`: device and calls | `TSS_DEVICE`: `tpm_comm_handle`, `LastRawResponse`; locals of a call between two commands | init, deinit, persistent keys, signing, properties, sequences | `TpmCodec` |
| `src/tpm_codec.c`: response codes | none | `CleanResponseCode` | `ResponseCode`, `Commands`, `TpmCodec` |
| `src/tpm_codec.c`: sessions | `TSS_SESSION`: handle, nonces, attributes | start, policy secret, use, flush; password sessions | `TpmCodec` |
| `src/tpm_codec.c`: building commands | `TSS_CMD_CONTEXT`: parameters, command and response buffers; sizes that are stored again at the end | the `TPM2_*` functions, `TSS_DispatchCmd`, `TSS_BuildCommand`, `TSS_SendCommand` | `CommandFormat`, `CommandBuffer`, `Commands` |
| `src/Marshal.c` | a read or write position and the bytes left | marshal and unmarshal of some 160 types | `WireTypes`, `Unmarshal`, `Marshal` |
| `TpmTypes.h`: the structures | | how long their arrays are, what `sizeof` gives | `Structures`, `Destination` |
| `src/Memory.c` | none | copy, compare, byte order | byte order in `WireFormat` |
| `src/tpm_comm_linux.c` | a device, a socket, or a loaded resource manager library | create, submit, destroy | `LinuxComm`, `Transport` |
| `src/tpm_comm_win32.c` | a TBS context | create, submit, destroy | `WinComm`, `Transport` |
| `src/gbfiledescript.c` | none | wrappers of `open`, `read`, `write`, `close` | not modelled: pure I/O |
| `src/TpmDevice.c` | | an earlier transport no `CMakeLists.txt` builds | not modelled |
| `samples/utpm_sample` | | a straight-line example | not modelled |
| the TPM, the simulator | external | what the commands and the protocol do | `Tpm`, part of `SimComm` |

How they meet. The codec calls `tpm_comm_submit_command` of whichever transport
was linked; the emulator and the Linux transport call `tpm_socket_send` and
`tpm_socket_read`. There are no callbacks and no locks: a connection belongs to
one thread, and concurrency is between the two ends of a connection and between
the programs that share one TPM.

What is hard in it:

* **Cutting.** `send()` and `recv()` take and give any number of bytes. Bytes of
  several replies share a cache. Correct: the reader gets the peer's bytes in
  order, none lost, none repeated; the peer gets the messages whole.
* **Framing.** A submit is four sends and three reads; a request has no number.
  Correct: both ends agree on where a frame starts, so that a reply belongs to
  the command it is returned for, and a command runs once.
* **Failure in the middle.** Any of these calls can fail, the peer can close,
  memory can run out. Correct: no handle to a simulator without power, no
  connection left behind, no call that hangs. `tpm_comm_create` of Linux tries
  three ways in turn and must give back what it took for those that failed.
* **Replies that come too late.** A device and abrmd keep a reply until it is
  fetched; a submit that gave up must not have it returned by the next one.
* **Several programs, one TPM.** Commands of two programs interleave; a program
  can die, or a reply get lost, between two commands of one call. Correct: the
  handle and the public area returned are those of the key the TPM has; no
  transient object stays loaded; a secret goes to the session it was meant for,
  although session numbers are used again; what a dead program left is cleared.
* **Boundaries.** The token to sign is cut at a size the TPM reports, sometimes
  fails to report, or that exceeds the codec's own limit. Correct: the signature
  covers each byte once.
* **Encodings.** Sizes are nested, a union depends on a field read before it,
  and a marshal function goes on when its buffer is full. Correct: a type has
  one encoding, nothing is read or written outside, and the caller can tell;
  and the constants the checks use agree with the arrays the headers declare.
* **Commands put together and taken apart.** The room left is counted and not
  looked at, two sizes are stored again when the rest is known, and a response
  is a header, maybe a handle, maybe a size, results and authorizations. Correct:
  a command is what was asked, a cut response is never an answer, and what was
  made has a name.
* **Error codes.** `LastRawResponse` is one field for all commands; codes carry
  the location of the error in the same word.

The `hazards` of `PROJECT.json` list each of these at the line where it bites.

## 2. The modules

| module | what it is |
|---|---|
| `ByteStream` | abstract: one direction of a connection as its reader sees it |
| `TpmSocket` | the socket: every call, one step per `send()` or `recv()` |
| `TpmSocketProofs` | its invariant and its refinement of `ByteStream`, proved |
| `CommandChannel` | abstract: what a submit promises the codec |
| `NetWord` | the words that messages are framed with |
| `SimComm` | the emulator transport over `TpmSocket`, with the simulator as peer |
| `SimCommProofs` | its types, its steps and its handle, proved |
| `SimChannelProofs` | what each step does to the two streams; the order of the commands, the frames and the refinement of `CommandChannel`, proved |
| `LinuxComm` | the transport of Linux: device, abrmd, user mode resource manager |
| `WinComm` | the transport of Windows |
| `Transport` | one or the other behind `tpm_comm.h`, as command channels |
| `TransportProofs` | their types, what they hold, whose reply and how much of it; the bytes on the socket, the packet in the slot, and the refinement of `CommandChannel`, proved |
| `ResponseCode` | the codes and `CleanResponseCode` |
| `Tpm` | external: the commands the codec uses, as functions of a TPM state |
| `TpmCodec` | `TSS_DEVICE`, `TSS_SESSION` and the calls, several programs over one `Tpm` |
| `TpmCodecProofs` | its invariant, proved for any number of programs |
| `CommandFormat` | what each `TPM2_*` function sends and takes out of the response |
| `CommandBuffer` | `TSS_BuildCommand` |
| `Commands` | one call of a `TPM2_*` function, from its parameters to its results |
| `CommandsProofs` | which codes come out of `CleanResponseCode`; that results are true and commands whole, proved for any sessions and any buffer |
| `WireFormat` | the description of a type, byte order, what a type expands to |
| `WireTypes` | the types of `Marshal.c`, described |
| `Unmarshal` | the `*_Unmarshal` functions, one step per function |
| `Marshal` | the `*_Marshal` functions, likewise |
| `MarshalRoundTrip` | what is unmarshaled is marshaled again |
| `MarshalProofs` | its types, and that it stays inside its buffers, proved for any set of types |
| `RoundTripProofs` | that what is read is written again, likewise |
| `Structures` | the structures of `TpmTypes.h`, with `sizeof` |
| `Destination` | the checks of `Marshal.c` against those structures |
| `MC...` | values for TLC |

Composition: `SimComm` has an instance `Sock` of `TpmSocket` whose send and read
calls are its own steps and whose peer is the simulator. `TpmSocket` implements
`ByteStream`; `SimComm` and `Transport` both implement `CommandChannel`, which is
all the codec above knows of them. `Transport` extends `LinuxComm`, has an
instance of `WinComm` on the same variables, and chooses between them in its
initial state, as the build does. `TpmCodec` extends `Tpm`, which extends
`ResponseCode`. `Commands` extends `CommandFormat`, which takes the largest and
smallest size of a type from `WireTypes`, `CommandBuffer` and `ResponseCode`.
`MarshalRoundTrip` runs `Unmarshal`, then `Marshal` over the value it got; both
take the types from a constant `Schema`, which `WireTypes` provides;
`Destination` adds the sizes of structures and arrays, constants which
`Structures` provides.

Definitions whose name ends in an underscored word (`SendSome_NoAdvance`, say)
are plausible slips in the definition they are named after. They are part of no
specification: they show for each property that such a slip would be noticed.

### TpmSocket

| code | model |
|---|---|
| `TPM_SOCKET_INFO.recv_bytes`, `recv_length` | `buf` (the pointer: null, live, or stale), `recv_bytes` (the bytes), `Len(recv_bytes)` |
| `tpm_socket_create`, `tpm_socket_destroy` | `Create`, `CreateFails`, `Destroy` |
| `tpm_socket_send`, `send_socket_bytes` | `SendRefused`, `SendCall`, then `SendSome`/`SendError`/`SendStopped` per `send()`, `SendReturn` |
| `tpm_socket_read` | `ReadRefused`, `ReadCall`, then per turn of the loop `ReadServed` or one of `RecvSome`, `RecvNoMemory`, `RecvError`, `RecvClosed`; `ReadGivesUp` |
| `add_to_buffer`, `remove_from_buffer` | in `RecvSome`, `RecvNoMemory`, `RecvClosed`; `RemoveFromBuffer`, `ReadStopped` |

Undefined behaviour is a choice: a second `realloc` or a `free` of a pointer that
`realloc(p, 0)` has freed either passes or stops the program (`handle =
"aborted"`), and so does the copy into a failed allocation in
`remove_from_buffer`. A `send()` on a connection the peer has closed may raise
SIGPIPE. Arguments that are NULL are left out. `written`, `delivered`, `asked`,
`sendFailed` and `lost` are history.

### SimComm

`pc` is the socket call in progress of the current `tpm_comm` call; when it has
returned, one action looks at the result and makes the next call. `Setup...` are
`execute_simulator_setup`; `Power...` and `SetupPowers`, with which it and
`tpm_comm_create` return, are `power_on_simulator`; `Submit...` are
`tpm_comm_submit_command`; `DestroyCall`, `DestroyCloses` are
`tpm_comm_destroy`. Words of the protocol are bytes in network order. The
simulator consumes a request when all of it has arrived (`SimHandshake`,
`SimCommand`), and hangs up at the end of a session or at a word it does not
know.

`power_on_simulator` opens a connection of its own to the platform port
(`PowerConnects`), asks for power, reads the acknowledgement, asks for NV, and
reads again (`PowerSent`, `PowerAcknowledged`, `SetupPowers`), and destroys the
connection. `platform_conn` is that connection, `signal` the request on it that
the simulator has not taken, `answer` the acknowledgement on its way back. Each of
these calls may fail (`PowerFails`), a send that reports a failure having delivered
its word or not; the simulator (`SimSignal`) obeys a request before it acknowledges
it with 0, or refuses it, having obeyed it or not. It may also crash and be started
again at any time (`SimCrashes`): then it has no power, and knows of neither
connection. The words on this connection are not cut up, as those on the other are:
each is one send or one read whose way of failing is `TpmSocket`'s.

A command of zero bytes is included: it is what `TSS_BuildCommand` yields when
it refuses its arguments, and the codec submits it all the same.

### LinuxComm, WinComm, Transport

| code | model |
|---|---|
| `TPM_COMM_INFO.conn_info` | `conn_info`, a set of its flags |
| what has been acquired and not given back | `held`: the handle, descriptor, socket, library, TCTI context, TBS context |
| where `tpm_comm_create` stands | `creating` |
| `tpm_comm_create` of Linux | `CreateCall`, `OpenRmDevice`, `OpenDevice`, then the following, `CreateFails` |
| `load_abrmd` | `LoadAbrmd`, `AllocateTcti`, `InitTcti`, and `UnloadAbrmd` for its label `err` |
| `tpm_usermode_resmgr_connect` | the steps of `load_abrmd`, then `ConnectTrm` |
| `tpm_comm_create` of Windows | `CreateCall`, `ContextCreate`, `GetDeviceInfo`; `CreateFails` is its `cleanup_memory` |
| `tpm_comm_destroy` | `Destroy` |
| `tpm_comm_submit_command` | `SubmitCall`, then `SubmitRefused` or `SubmitStarts` and one step per call below: `DeviceWrite`, `DeviceRead`; `TctiTransmit`, `TctiReceive`; `SocketSend` per message, `ReadLength`, `ReadResponse`, `ReadAck` |

Every acquisition and every release of a creation is a step of its own, which may
fail where the call may: an attempt that fails goes on to the next way (`GoesOn`)
and leaves held what it does not itself give back. The device and abrmd are a slot for one packet: the TPM (external) takes a
command out of it and puts the reply in, and neither takes a command while the
slot is occupied. Over the socket a call of `TpmSocket` is one step with the
outcomes that `TpmSocket` allows; the resource manager (external) takes a
request when it is complete by its own idea of a frame, old or new. `machine`
is what the program finds: device files, a library that loads or does not, the
files of resource managers and which of them runs. `WinComm` has one step for
the services running the command and one for what they report.

### TpmCodec

One step is one TPM command, from building it to what the caller makes of the
answer; commands of the other programs come in between. `Dispatch` is
`TSS_DispatchCmd`: it says what `LastRawResponse` and the result become when the
command is answered, put off with a warning, not sent, sent with the reply lost,
or answered with a response cut short. `Init...` are `Initialize_TPM_Codec`,
`Key...` `TSS_CreatePersistentKey`, `Sign...` `SignData` with
`TSS_GetTpmProperty`, `TSS_HMAC` and the sequence commands. `Crash` is the death
of the program at any point. `Session...` are `TSS_StartAuthSession`,
`TSS_PolicySecret`, `TPM2_ActivateCredential` and `TPM2_FlushContext` on a
`TSS_SESSION`, of which `sess` keeps the handle and the nonce of the TPM; the TPM
ends a session at its use unless it was started with `continueSession`, gives
numbers out again, and refuses a `PolicySecret` whose nonce is not the session's. The programs pass `TSS_PolicySecret`
the nonce in their `TSS_SESSION` or, as its parameter allows, NULL; the TPM then has
nothing to compare.
A password session is four fields the caller fills in: a value. Behind a resource
manager a session belongs to a connection and its number is virtual, so the
models with sessions are those without one. The transport below is any on which losing a
command does not disturb later ones: a device, TBS or a resource manager. On the
emulator transport this does not hold, see below.

### CommandFormat, CommandBuffer, Commands

`CommandFormat` lists for each `TPM2_*` function its code, handles, sessions, the
types it marshals and the types it unmarshals, and computes the least and the
most bytes a type takes. `CommandBuffer` is `TSS_BuildCommand` on a buffer of any
capacity: the buffer is a function from offsets to the pieces stored there, so
that a piece over another, or behind the end, shows. In `Commands` a call is
`Invoke` (marshal the parameters, build, send), then what the transport brings
(`SubmitFails`, or a response of the TPM that is whole, cut off anywhere,
refused, or of a TPM 1.2), `Dispatch` (the header, the handle, the size) and one
`ReadResult` per `TSS_UNMARSHAL`. `Build` is a call of `TSS_BuildCommand` from
outside, with arguments none of the functions would pass.

### WireFormat, WireTypes, Unmarshal, Marshal

`Marshal.c` has two functions per type, all made after seven patterns: an
integer with its checks, bytes, a size with bytes, a count with elements, a
structure, a union, and a size with a structure. `Shape` names them, `WireTypes`
describes each type by its pattern in the order of the file (a name that
`Marshal_fp.h` defines as another's function is that other), and one action per
pattern is what a function does. `todo` and `left` are the calls not yet made,
first one first: what in the code is the stack of callers, each of which returns
at the first result that is not `TPM_RC_SUCCESS`.

| code | model |
|---|---|
| `*buffer`, `*size` of an unmarshal | `input` (what was read so far), `size` |
| `*target` | `value`: its integers and byte arrays, in order |
| the flag that admits a null value | `flag` of a call; a field passes `TRUE`, `FALSE` or its own |
| a union's selector | the place in `value` or `source` of an integer read before |
| `startSize` and `target->size` of a sized type | `at` and `n` of its `close` task |
| `*buffer`, `*size`, the result of a marshal | `at` and `memory`, `room`, `count` |
| `sizeField` of a sized type | `at` of its `close` task |

The bytes of a buffer are chosen when they are read, from the set `Offered`; the
contents of byte arrays, which no function looks at, are fixed by their length.
`stepped` is history: by how much `*buffer` has moved without a charge to
`*size`. A sized type does that: it steps over two bytes, marshals the structure
and only then charges the two; so a structure may reach up to two bytes past the
room for each size field around it that is still open, and `WritesStayInRoom`
says exactly that and no less. `NextIsInteger` and `NextIsArray` are guards the
code does not have: they say that the source is a structure of the type asked
for. As deadlock is checked, the runs show that they hold whenever a step is due.
A `TPM2B_SENSITIVE` of size 0 is accepted without its sensitive area being
touched (`Untouched`); it is not marshaled again, since that would write what the
caller had there before. NULL arguments are left out.

### Structures, Destination

`Structures` describes the C structures behind the same names: members, arrays,
unions, and the sizes and alignments of an ABI that aligns an integer to its
size. `Destination`, which takes those sizes as constants, puts the two next to
each other: what an unmarshal function
is about to store against the array it stores it in.

## 3. The runs

| run | bounds | what it shows |
|---|---|---|
| `socket_safe` | two byte values, messages of 0 to 3 bytes, reads of 0, 1, 3, `recv()` of at most 2, 4 bytes each way; `send`, `recv`, `create` and allocations may fail | `StreamIntegrity`, `SendIntegrity`, `PointerInv`, refinement of `ByteStream`; a send returns, and a read returns once the peer has closed |
| `socket_split_send` | no faults | violation of `FailedSendIsShort` |
| `socket_split_read` | no faults | violation of `FailedReadIsShort` |
| `emulator_quiet` | 3 commands, responses of 1, 2 and 3 bytes for a buffer of 2, a right and a wrong protocol version, no injected faults; no two calls after a failure | `IdleIsFrameAligned`, `CallReturns`, `SimulatorIsReleased`, no deadlock |
| `emulator_faults` | 2 commands, every fault, a simulator that refuses either power request and crashes at any time, callers that go on after a failure | `RunsInOrder`, `OpenIsPowered`, `NoOrphanSocket`, refinement of `CommandChannel` |
| `transports` | Windows, and Linux on seven machines, each quiet or troubled; 2 commands, responses of 10 and 12 bytes for buffers of 8, 11 and 12 | `NothingLeftBehind`, `ReplyIsOwn`, `LengthIsTrue`, refinement of `CommandChannel`, `CallReturns` |
| `codec_shared` | two programs, one handle, 2 slots, 3 calls each, tokens of 1 and 5 bytes with pieces of 2; lost commands, lost replies, crashes | `ReturnedKeyIsPersistent`, `NoTransientLeak` |
| `codec_emulator` | one program, 5 calls, tokens of 2, 4 and 7 bytes, input buffers of 0, 2 and 6, `MAX_DIGEST_BUFFER` 4, 3 session numbers, two `TSS_SESSION`s of which one continues, secrets with and without a nonce, every fault | `SignatureCoversToken`, `InitializedIsStarted`, `ClearedFromPreviousRuns`, `SecretGoesToOwnSession`, `CallsReturn` |
| `codec_report` | one program, tokens of 1 to 4, lost commands and replies | violation of `FailureIsReported` |
| `codec_connection` | one program, a TPM that puts commands off | violation of `CommandsUseConnection` |
| `commands` | every `TPM2_*` function with its smallest and largest parameters and two pairs of sessions; every response code with every location; responses cut at the end of each field and one byte before; `TSS_BuildCommand` with 0 to 2 handles and sessions or NULL, codes around the ends of its range, capacities -1 to 56 | `CommandIsWhole`, `PatchesStayInside`, `EveryCommandFits`, `ResultIsTrue`, `MadeIsNamed` |
| `marshal` | the callable types; buffers of 0 to 8, 20, 24 and 3000 bytes; for each integer the ends of its ranges, its null value and a value outside; for each size and count the least, the largest and one more; for seven types with many parts (public areas, ECC details, creation data) every selector, and one valid and one invalid value of other integers; then 3, 2 or 1 byte too little room, enough, one more, and no bound | `ReadsStayInside`, `OneEncoding`, `RoomTells`, `WritesStayInRoom`, `DestinationHolds` |

Why the bounds are enough. *Socket*: every order of pieces the loops tell apart
occurs: a message taken in one, two or three pieces; a read served from the
cache, by one `recv()`, by two, and one that gives up; a cache that is emptied
and one that is shortened; each with the peer closing, and memory failing, at any
point. The proofs remove the bounds. *Emulator*: `MAX_DATA_RECV` is 8 against
frames of 4 to 10 bytes, so that a `recv()` takes parts of several words; three
commands let the reply of one meet the next two. Handles come and go without a
bound, so that one is created to a simulator that an earlier one has powered on, or
that has crashed since, or in between (3.3 million states). *Transports*: the machines give
every way through `tpm_comm_create`, with each of its steps failing before the next
way is tried; two commands let a reply that came too late meet the next command, on
the same handle and on a new one; the buffers are below the least a submit
accepts, between the two responses, and enough. A new connection is made when
what was sent on the earlier one is over. *Codec*: the loop of `SignData` depends
on the token's size modulo the input buffer's, and on either against
`MAX_DIGEST_BUFFER`; the sizes give a token below it, a multiple, and one with a
rest, an input buffer above it, one of 0, and the unlimited one of a failed
property. Two
programs and two slots give every race for the handle and a full TPM. Three
session numbers are what the TPM of `Implementation.h` has loaded at once
(`MAX_LOADED_SESSIONS`), and five calls let a session be started, lost, its
number given to another and the first one used again. *Commands*: nothing in
building or reading a command depends on more than sizes; the ends of each
type's sizes, one, two or no sessions and every cut of a response meet every
branch, and the capacities reach from none to more than any of the calls needs.
*Marshaling*: an integer meets every branch of its check, each type every failure
and a success, each size field one that is too small, too large and right, and
each union every arm, with two exceptions: hash values are represented by SHA1
and SHA512 (the arms differ in their length alone), and `TPMU_ENCRYPTED_SECRET`
is in no structure. A slack of -1 to -3 makes a last field, a size field and a
field before them not fit. The lists are of their least length and one more, and
refuse one more than their largest. `MaxStream`, `MaxCommand` and `MaxCalls` are
the only bounds on counters; `MaxStream` is never reached in the emulator runs.

Fairness. `TpmSocket`: a send or a read in progress takes its next step if one
is possible (the thread runs, and a blocking call that can return does); nothing
obliges the peer or a caller. `SimComm`: the same for the host, and the
simulator answers a request it has in full and a request for power or NV, which is
what it is for; it is not assumed to behave when faults are injected, and that run checks no liveness.
`Transport`: the same for a creation and a submit; the TPM runs a command that reached it, the
resource manager takes a request that is complete, and TBS returns, which is what
a blocking call of each of them waits for. `TpmCodec`: a call in progress goes
on; the transport returns from every command (a submit that hangs would be a call
in progress for ever, which the codec cannot help). The marshaling and the
building of commands need none: nothing is said of them but what their states
are, and they have no loop but over their fields. `CHECK_DEADLOCK FALSE` is given
where the system may stop: a stopped program, an exhausted bound, a peer that
never writes, a single call that is over; and in `transports` because host and
resource manager do wait for each other, see below.

### What the violations say

* `socket_split_send`: `send_socket_bytes` compares the *last* `send()`'s count
  with the whole length. A message taken in two pieces is reported as a failure
  although all of it has gone out.
* `socket_split_read`: `tpm_socket_read` tests the cache *before* each of two
  `recv()` calls and not after the second. A read whose bytes come in two pieces
  fails with all of them cached.
* `codec_report`: `SignData` promises that a failed command's code is in
  `LastRawResponse`; when the command or its reply is lost, the field keeps the
  success of the command before.
* `codec_connection`: when `TPM2_Startup` fails, `Initialize_TPM_Codec` destroys
  the connection, keeps the handle, and sends three `FlushContext` on it.

### What holds only until a failure

After a submit has failed the emulator transport promises nothing: it drains
nothing and closes nothing. `CommandChannel` says so with its state `failed`,
and `IdleIsFrameAligned` stops there. This is not caution on the model's side:
with `ReuseAfterFailure` the model does return one command's reply for another
command (the first one's reply arrives late), and a split send that was reported
as failed can leave host and simulator each waiting for the other. What is left
after a failure is checked by `emulator_faults`: no command runs twice, none
overtakes another, and the handle and its socket stay together.

The transports of Linux are better off where they exchange whole packets:
`ReplyIsOwn` goes on after failures on the device and on abrmd, because neither
takes a command before an earlier reply is gone. It excepts the socket, on which
`tpm_comm_linux.c` drains nothing either.

### What is excepted

`NothingLeftBehind` excepts the memory of the TCTI context of a handle that was
opened, which `load_abrmd` allocates and nothing frees. `OpenIsPowered` excepts a
simulator that has gone away under a handle: nobody asks it for power again, and
the handle's own connection tells. `CallReturns` of the transports excepts a resource
manager that is not the one `conn_info` says: `tpm_comm_create` takes an old one
for granted if its files exist, and beside a new one that runs both ends then
wait for ever. `CommandIsWhole` excepts an array of no sessions given instead of
NULL, which yields a tag that promises sessions.
`SecretGoesToOwnSession` is about secrets shown with the nonce of a `TSS_SESSION`.
Of a `TSS_PolicySecret` with `nonceTPM` NULL it says nothing, and nothing could be
said: in the model such a secret does go to another session that was given the
number. It is how `tests/tpm_codec_ut/tpm_codec_ut.c` calls it, at line 558.

`CallsReturn` of the codec excepts `SignData` on a TPM that reports an input buffer
of 0 bytes (`Endless`): the loop over the token then takes pieces of 0 bytes for
ever, and no line of `SignData` or `TSS_GetTpmProperty` excludes the size. What is
checked is that it is the only such size, and that a property the TPM does not
report, or whose command fails, is not taken for it. No document says what the code
should do there.

`NoTransientLeak` excepts a program one of whose calls has failed: when
`EvictControl` or `FlushContext` fails, or a sequence is broken off, the code
leaves the object loaded. `ResultIsTrue` speaks of the errors that the header
defines; a code it does not define may consist of bits that `CleanResponseCode`
masks away, and would then pass for success.

## 4. The proofs

All of `TpmSocketProofs` holds for every alphabet, every set of messages, every
`MAX_DATA_RECV`, every bound and every set of faults (`SocketAssumption` states
their types and nothing more).

| theorem | states |
|---|---|
| `Typing` | `Spec => []TypeOK` |
| `StreamIsIntact` | until an allocation fails, delivered, cached and travelling bytes make up what the peer wrote |
| `PointerIsGood` | `PointerInv`: `recv_bytes` points to a block whenever `recv_length` is not 0, and dangles only after the peer has closed with nothing left |
| `SendsAreWhole` | until a send reports a failure the peer is sent the messages whole and in order |
| `SocketIsSound` | `Spec => []SocketInv`, the conjunction |
| `SocketIsStream` | `Spec => StreamSpec`, whatever fails |

The argument. `StreamIntegrity` is an equation `written = delivered \o
recv_bytes \o wire`; every step moves the boundary between two of its parts or
appends at its end, so preserving it is associativity of `\o` and
`s = Take(s, n) \o Drop(s, n)`, the lemmas `JoinAssoc`, `TakeDrop` and
`ShiftBoundary`. The same equation serves sends, but `SendIntegrity` is not
inductive by itself: a send that starts must start with nothing left over from
the one before, which is `IdleShape` (outside a send `left` is empty and
`sent_bytes` 0). `StaleOnlyAfterClose` needs `CacheHasBlock`: a stale pointer
is made only with an empty cache, and stays harmless because once the peer has
closed with nothing travelling no byte arrives. The refinement maps a step to a
`Write` (the peer writes), a `Deliver` (a read is served; `StreamIntegrity`
makes the bytes the next of the stream, `JoinExtends`), a `Reopen` (create,
destroy, and an allocation that fails with bytes in hand: the stream ends there)
or a stutter.

`MarshalProofs` and `RoundTripProofs` hold for every `Schema` of the shapes in
`WireFormat`, any buffer, any bytes offered that are as wide as their integers, and
any room (`SchemaAssumption`, `OfferedAssumption`, `CallsAssumption`,
`SlackAssumption`). What they need of `Marshal.c` beyond the shapes is that the
size of a buffer or a list which is refused has an error code, and
`UnionAssumption`: a union occurs as a field of a structure only, never as the
element of a list or as a type called from outside, and its selector is one of the
integers the structure begins with. So it is with every `TPMU_*` there: the
functions that call its functions pass a field they have dealt with before.

| theorem | states |
|---|---|
| `MarshalInvariance` | `Spec => []MarshalInv`, the conjunction of what follows with `ClosesBehind` and `RoomIsKept` |
| `MarshalTyping` | `Spec => []TypeOK` |
| `ReadsAreInside` | an unmarshal takes what it charges, and never more than the buffer has |
| `WritesAreInRoom` | a marshal writes nothing past the room, but for size fields not yet charged |
| `RoundTripInvariance` | `Spec => []RoundTripInv`: a marshal call goes through the points of the unmarshal call |
| `EncodingIsOne` | `OneEncoding`: what is written is what was read, size fields included |
| `RoomIsTold` | `RoomTells`, for buffers of less than 65536 bytes |

The argument. `ReadsStayInside` is inductive: what was read and what is left make
up the buffer until a call fails, and a failed call has nothing left to do.
`WritesStayInRoom` is not: it needs `RoomIsKept`, that as long as the room was
enough, the position and the room left make up the room given and what was
stepped over, with nothing written behind the position; and `ClosesBehind`, that
the size field a `close` will write lies wholly before the position, so that
writing it late moves nothing forward. Once the room is negative nothing is
written any more. `PutStep` does this for the integers and arrays, `WriteStep`
for each action.

`OneEncoding` and `RoomTells` compare a call with one that ended before it began,
and nothing in the state says how that one got to its result. So the invariant
supplies it: `ReadIsExplained` says that there is a sequence of points (calls still
to come, values and bytes so far) from the start to where the unmarshal call is, of
which each follows from the one before by what the values read there say
(`Follows`: this integer was in these bytes, this selector chose that arm). It is
stated with the values at the end, not with those of the time, so that it can still
be used when the call is over: what is read later only adds to the values
(`FollowsStill`). That needs `Selected`, that the selector of a union was read
before the union is reached. `WritesBack` says that a marshal call is at some point
of that sequence: it has the same calls still to come, but for flags, and its count
and `*size` are what that point has read, less two bytes for each size field
stepped over and not yet written (`Charges`). Sizes are not in the values the
marshal functions look at: `Waits` says of each that waits where its bytes were
read, and what the count was there, so that the difference that is stored is the
one that was read (`SizeCounted`), also when the counts have been cut to 16 bits.
What has been written is the bytes read, without holes but for those size fields,
as long as the room was enough (`Complete`), and with a hole ever after (`Lacks`).
There is a lemma for each way of going on: `PutReaches` for integers and arrays,
`EntersReach` for structures and unions, `HeaderReaches` and `SizeReaches` for the
two ends of a sized structure. At the last point nothing waits, and the count is the
number of bytes read modulo 65536: `RoomIsTold` therefore assumes that no buffer is
that long. For a larger one the UINT16 could not hold the size.

`SimCommProofs` and `SimChannelProofs` are about the emulator
transport over its socket, for every size of `recv()`, every set of faults, and
every answer of the simulator. `SimAssumption` asks that a command's number be a
byte (commands are told apart by the bytes they carry, so `MaxCommand` is at most
255) and that the size of a response survive the word that announces it.

| theorem | states |
|---|---|
| `Typing` | `Spec => []TypeOK`; in particular `*resp_len` never exceeds the caller's buffer |
| `SocketFollowsHandle` | `NoOrphanSocket`: between calls there is a connection exactly where there is a handle, and none to the platform port |
| `HandleIsPowered` | `OpenIsPowered`: a handle whose simulator is still there has one with power and NV, whatever failed, was refused or crashed on the way |
| `RunsOnce` | `RunsInOrder`: whatever failed, no command runs twice and none overtakes another |
| `FramesAlign` | `IdleIsFrameAligned`: after a submit that worked both ends have consumed every byte |
| `IsChannel` | `Spec => ChannelSpec`: it implements `CommandChannel` |

The argument. *The handle*: none of the properties is inductive, since what a
step of `tpm_comm_create` may do depends on the socket call that has just
returned. `ControlInv` says which socket call is in progress at which step and
that a read which worked left its bytes behind; `HandleInv` says who owns the
socket. *The power*: `PowerInv` says what each step of `power_on_simulator` may rely
on as long as the simulator's session is still there. An acknowledgement of 0 is
that of the request just sent, because nothing is on the way when a request is sent
and `answer` occurs only while one is waited for; the simulator has obeyed it; and
it has not crashed since, for a crash ends the session, also the one of the other
connection, which is how a crash between the two requests cannot pass unnoticed.
*The order*: after a failure the two streams may stop in the middle of a
frame and later commands follow, so nothing can be said of frames. What can is
said of bytes: a byte carries a command if it is not zero and not the last one of
a word, and `InOrder` says that the bytes which carry commands rise along the
stream and that all the simulator has run is below all that is still to come,
unless the simulator stands between the two bytes of a command, where no request
word starts (`Stuck`). For that, no length may be mistaken: three zeros and a
command's byte would be a length of that many bytes, which is why the bytes on a
connection have to be counted too (`LengthInv`, eleven to a command). *The
frames*: on a handle that has not failed, the request in progress is known byte
by byte (`FrameByte`), and it is either `Unserved`, the simulator having consumed
nothing of it, or `Served`, with its whole answer on the way (`Answer`);
`StreamInv` is the choice of the two. *The refinement* maps the idle handle to
`ready`, a submit in progress to `busy`, and a failure to `failed`. The command
that runs is the one in progress by `Unserved`, the reply that is returned is its
own by `Served`, and that it runs once is `RunsInOrder` together with
`cmd \notin executed` while it is unserved.

`TransportProofs` is about Linux and Windows, on any
machine, for every response, buffer and set of faults. `LinuxAssumption` asks of
the commands and responses what `SimAssumption` does, and that a response be no
shorter than a header.

| theorem | states |
|---|---|
| `Typing` | every variable keeps its type; in particular `*resp_len` and the reply fit the buffer |
| `EverythingGivenBack` | `NothingLeftBehind`: outside a creation, what is held is what the flags of the handle name |
| `LengthReported` | `LengthIsTrue`: `*resp_len` is what was stored, on every transport |
| `OwnReplies` | `ReplyIsOwn`: over packets, and the TBS, a reply is that of the command, also after failures |
| `TransportIsChannel` | `Spec => ChannelSpec`: both implement `CommandChannel` |

The argument. `PathInv` ties the step of a submit to the one flag of `conn_info`
that led there (`Connection` lists the flags that occur); without it
`tpm_comm_destroy`, which looks at the flags in an order of its own, could give
back the wrong thing. `NothingLeftBehind` is not inductive, since a creation in
progress holds what no handle has yet: `HeldInv` adds what has been acquired at each
place `creating` may be, and one case per step shows that a step which fails arrives
where the next one expects it (`CreateGivesBack`, and on Windows likewise). `ReplyIsOwn` needs `SlotInv`: a read is only reached with
the submit's own packet in the slot, since the write before it fails as long as
another one, or its reply, is there.

For the refinement `ChannelInv` says what is on the way. Over packets it is short
(`PacketInv`): on a handle that works the slot is empty outside a read, and what is
in it has not run until it is replied. Over the socket the resource manager cuts
the stream by its own idea of a header, of nine bytes or eleven, which need not be
the host's: `tpm_comm_create` goes by the library files it finds, not by what runs.
So it is proved of the bytes which of them it can take for a request. On a handle
that works `Unserved` gives every byte of the request in progress (`FrameByte`), and
`RequestIsOwn` that a request is complete only when the two agree on the header and
it is the one in progress, whole: cut the other way the length reads as 65536 or
more. `Served` gives the answer that is then on the way. After a failure, or once
the handle is closed, nothing is known of frames, but a command must still not run
before it was submitted, or a later submit would find its own already run: `Tame`
says that no byte exceeds the last command's number unless it ends a word, so what
would read as a later command stands behind a length of millions, and `Limit`
counts the bytes of all submits to less than that (`RunsSubmitted`).

`TpmCodecProofs` holds for any number of programs, handles, slots and sessions,
every token and input buffer, one of 0 bytes included, and every set of faults.
`CodecAssumption` asks that a token be shorter than `TSS_BAD_PROPERTY`, that a
template describe a key, and that the models with sessions have no resource manager.

| theorem | states |
|---|---|
| `Typing` | every variable of the programs and of the TPM keeps its type |
| `KeysPersist` | `ReturnedKeyIsPersistent`, whatever programs race for the handle |
| `TokensCovered` | `SignatureCoversToken`: every byte once and in order, wherever it is cut |
| `NothingLeaks` | `NoTransientLeak`, for a program none of whose calls failed |
| `SuccessIsStarted` | `InitializedIsStarted` |
| `SecretsGoHome` | `SecretGoesToOwnSession`: a secret shown with a nonce is in the session the nonce is of, although session numbers are used again; of one shown without a nonce, nothing |
| `PreviousRunsCleared` | `ClearedFromPreviousRuns`, for `MaxSession <= Sessions` |

`PreviousRunsCleared` assumes that the TPM has no more sessions than `Initialize_TPM_Codec`
flushes, three, which is `MAX_LOADED_SESSIONS` of `Implementation.h`; with more it
is false. The argument is one of interference. `Inv` is a conjunction over the
programs of what each knows between two of its commands: the slot it has in its
hand is in use, its own and of the right kind (`ObjInv`); the piece of the token
it is at is what the TPM's sequence has taken in so far (`ObjInv` again, with
`pos`); which sessions of its earlier runs it has flushed (`ClearInv`). A lemma
per command of `Tpm` says what it does to the TPM (`EvictIs`, `UpdateIs`, ...);
`Effect` is the most that a step of one program does, which is to touch only
objects and sessions of its own and handles that are free; and under `Effect` what
the others know stays true (`OthersKept`). So each action is looked at for its
own program only (`KeyEvictKept`, `SignUpdateKept`, ...).

`CommandsProofs` holds for every set of sessions, whatever the sizes of their
nonces and HMACs, and every call of `TSS_BuildCommand`: any capacity, negative ones
included, any code, any number of handles and sessions, any parameters.
`CommandsAssumption` says no more than that counts and sizes are numbers
(`CallOK`); `FormatAssumption` says it of the sizes `CommandFormat` computes, which
TLC evaluates.

| theorem | states |
|---|---|
| `ErrorsComeThrough` | `CleanResponseCode` gives every error the TPM defines as it is, but for its location |
| `ResultsAreTrue` | `ResultIsTrue`: success means that the TPM did it and all of the response was understood; an error is the TPM's |
| `WhatIsMadeIsNamed` | `MadeIsNamed`: the caller has the handle of what was made |
| `PatchesAreInside` | `PatchesStayInside`: no piece of a command over another, none behind the buffer but the two sizes |
| `CommandsAreWhole` | `CommandIsWhole`: the sizes stored in a command that fits lead to its handles, sessions and parameters |

The argument. `ErrorsComeThrough` is arithmetic on the bits of a word:
`CleanFormatOne` and `CleanFormatZero` say what is left of any word at all.
`ResultIsTrue` and `MadeIsNamed` are claims about a call that has returned, which
need to be known while it goes on: `CallInv` says what a response can be
(`DoneIs`, `RefusedIs`, `OldIs`) and, while results are read, that what is left of
the response are the results from the next one on and the authorizations
(`ReadingInv`). `DoneOutcome` is the step that counts: for a command that was done
the header checks let through exactly the responses that are whole, because the
handle is taken off for the commands that give one and no others. This is
`CommandsAre`, command by command: `ReturnsHandle` lists codes, `gives` is what the
function does, and they are in two places of the code.

`CommandIsWhole` and `PatchesStayInside` follow from what each function of
`TSS_BuildCommand` does to the buffer. `BufferOK` says that until the room is
negative, position and room make up the capacity, and that the pieces lie one
behind the other without a hole up to the position (`MemoryOK`); `Extends`, that
what was stored stays. One lemma per stage says what it adds (`PutIs`, `PutAllIs`,
`NamedIs`, `SessionsIs`, `ParamsIs`), and `PatchKeeps` that a size stored again over
its placeholder moves nothing. It is a placeholder only if it fitted:
`SessionsIs` has the case that it did not. Then the size of the authorization area
is stored behind everything else, whatever the capacity, nothing follows it any
more, and only `MemoryApart` is left of `MemoryOK`. That is why the second half of
`PatchesStayInside` asks for room for that size, and it asks for nothing else.
`Ends` and `PutAll` are recursive functions over the pieces; that they are defined
(`EndsExists`, `PutAllExists`), and what they give, goes by a least counterexample
(`LeastOf`, `Induction`).

Model-checked only:

* liveness (`SendReturns`, `ClosedReadReturns`, `CallReturns`, `CallsReturn`,
  `SimulatorIsReleased`), which is out of the prover's reach;
* `EveryCommandFits` and `DestinationHolds`: they are about the sizes of the types
  there are and not of any others, so a proof would be TLC's evaluation of them,
  written out;
* the four violations, which are single behaviours.

## 5. Not modelled, and the plan

Left out for good:

* `gbfiledescript.c`: wrappers of `open`, `read`, `write` and `close` for the
  tests to replace; `TpmDevice.c`: no `CMakeLists.txt` builds it; the sample: a
  straight line of calls that the programs of `TpmCodec` make in any order.
* Of `TpmTypes.h`, `Implementation.h` and `tpm_codec.h`, constants and macros no
  modelled code looks at: the bits of attributes, the command codes of functions
  the library does not have, implementation limits of the TPM. What `Marshal_fp.h`
  declares is what `Marshal.c` defines.
* NULL arguments, logging, the text of messages, the contents of key templates.
* Of `Memory.c`, comparison, padding and concatenation, which nothing calls.
* How the four words on the connection of `power_on_simulator` are cut up: a word
  is sent or read, or is not. The socket calls are those of `TpmSocket`.
* Lack of memory for the handle itself, on which `tpm_comm_create` returns NULL
  before it has done anything.

Every command of the library is in `Commands`, and every run of several commands
whose order matters in `TpmCodec`; the calls that are a single command (`TSS_Hash`,
`TSS_Sign`, `TSS_Create`, and the like) have no action of their own there.

Open: the model's TPM answers with results as small or as large as their types
allow, and TLC and the proofs speak of those; `DoneOutcome` and `NextIsLeft` hold of
results of any size, so only `Succeeds` would have to be widened. And
`EveryCommandFits` could be stated for a set of types given as a constant, as
`WritesStayInRoom` is.
