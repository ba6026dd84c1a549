# OpenXM: OX sessions, specified and proved

OpenXM connects mathematical systems: a *client* (Risa/Asir, kan/sm1) sends
objects and commands to an *engine*, over the OX protocol.  This directory holds
TLA+ specifications of the C implementation of that protocol, the TLC
configurations that model-check them and TLAPS proofs about them.

The core of the development is the *reset protocol*.  A client can stop a
running engine at any moment; afterwards "it is assured that each stream is empty
and that the subsequent request from a client correctly corresponds to the
response from the engine" (`doc/OpenXM-specs/control.tex`).  Three processes,
two TCP streams, a control channel, a Unix signal, two `longjmp` buffers and a
flag take part in that, and no test of the repository exercises it.

Paths below are relative to the root of the repository; `kxx/`,
`kan96xx/` and `ox_toolkit/` are under `src/`.

## 1. Inventory

| Component | Code | State | Operations | Interacts with | What is hard |
|---|---|---|---|---|---|
| Engine | `kxx/oxserver00.c` | program point, `OxCritical`, `OxInterruptFlag`, two jump buffers, action and mask of SIGUSR1, position in the input | read a message, execute a command, reply, the handshake of a reset, the signal handler | client (data channel), control server (signal), operand stack (calls) | a signal between any two instructions, `longjmp` out of a handler |
| Control server | `kxx/oxmain.c`: `parentServerMain`, `myServerExit` | which requests are unread | forward a reset, kill, exit with the client | client (control channel), engine (kill(2)) | order against the engine's start and end |
| OX client | `kan96xx/plugin/oxmisc.c`, `oxmisc2.c` | `dstate`, position in the input | requests (`oxReq`), answers (`oxGet`), reset, close | engine, control server, user | late answers, a second reset, balls of the user's own |
| OX messages | `kan96xx/plugin/oxmisc.c`, `cmo.c` | – | header, body, `oxWaitSyncBall` | client, engine | readers out of step with the messages |
| FILE2 streams | `kan96xx/plugin/file2.c` | read and write buffer of a descriptor | put, get, flush, select, clear | everything that reads or writes OX messages | partial writes, end of file, clearing half a message |
| Signals | `util/mysig.c` | – | `mysignal` | engine | action, mask and pending signal are three things |
| Start-up and connection | `kxx/oxmain.c`: `main`, `childServerMain`; `oxCreateClient`, `oxCreateClient2` | sockets, passwords, byte order | accept/connect twice, fork, exec, time out | client, control server, engine | a time-out between two sockets, an exec that fails |
| Client table | `oxGetClientID`, `oxClientListUpdate`, `oxClientListRemove` | table of client objects | allocate, update, remove | client | an id that is not yet taken, a full table |
| Operand stack | `kxx/nullstackmachine.c`, `kxx/sm1stackmachine.c`, `kan96xx/Kan/stackmachine.c` | stack, error stack, `recursive` | push, pop, execute | engine | errors as values or jumps |
| OX/CMO toolkit | `ox_toolkit/ox.c`, `oxf.c`, `cmo.c` | `OXFILE` buffers, receive table | a second client library, and the library of other servers | engines | a reset of its own, a write buffer nobody flushes |
| Other OX servers | `ox_math/`, `ox_pari/`, `ox_gsl/`, `ox_python/` | program point, flag or jump buffer | read, execute, answer, serve a reset | toolkit | a jump from anywhere, or a flag that nobody looks at |
| Mathcap | `kan96xx/plugin/oxmisc2.c`, `ox_toolkit/mathcap.c` | tags the peer accepts | register, test | operand stack, toolkit, client | forms nobody has written down, lists in lists |
| CMO codec | `kan96xx/plugin/cmo.c`, `cmo-gmp.c` | – | encode, decode | client, engine | recursive data |
| Launchers | `kxx/oxd.c`, `oxlog.c`, `ox100start.c`, `oxpipe.c`, `oxc/` | child processes | fork, exec, wait | control server | few states |
| Java proxy | `OpenMath/OMproxy.java` | an engine in Java | the engine's loop | client | threads |
| Kan/sm1 kernel, k097, hgm, asir-contrib, other engines, documents | the rest | – | computer algebra, wrappers, libraries, build files | – | not state machines of this protocol |

What makes each part correct:

* *engine*: a jump never leaves a message torn; no reset is noted and forgotten;
  the engine is deaf to SIGUSR1 only while it has already been told;
* *control server*: it outlives no client and leaves no engine behind;
* *client*: answers come in the order of the requests, none while a reset is
  under way, none across a reset;
* *streams*: bytes come out as they went in; clearing loses a prefix and nothing
  else;
* *client table*: two living clients have different ids;
* *start-up*: either both ends have both channels and one byte order, or the
  attempt is undone;
* *stack*: a reply answers the command it belongs to, an error packet tells of its own
  failure, nothing is sent that the peer's mathcap excludes;
* *toolkit*: no word is taken for another, and the answer that a call returns is to
  its request.

`PROJECT.json` lists under `hazards` where in the code each of these can go wrong.

## 2. Plan

| Order | Module(s) | Of | State |
|---|---|---|---|
| 1 | `OxMessage`, `OxChannels` | messages, streams, signal state | done |
| 2 | `OxEngine`, `OxControlServer`, `OxClient` | the three processes | done |
| 3 | `ResetProtocol` | the abstract promise | done |
| 4 | `OxSession`, `OxSessionDocs` | the composition, its properties; what the documents say beyond them | done |
| 5 | `OxSession_proofs` | TypeOK, action properties, inductive invariant, refinement | done |
| 6 | `ByteQueue`, `Fp2Stream` | `file2.c`: two buffers and a bounded socket, refined to a queue of bytes | done |
| 7 | `ClientTable`, `MCClientTable` | `OxClientList`, its ids, the descriptors of client objects | done |
| 8 | `ClientTable_proofs` | types, the table, ids, descriptors | done |
| 9 | `Fp2Stream_proofs` | types, StreamOrder, ClearedIsGone, the refinement of ByteQueue | done |
| 10 | `OxStart`, `OxStart_proofs` | connection, passwords, byte order, the alarm of `oxCreateClient2`, fork and exec, descriptors; types, alarm, passwords | done |
| | `OxStartStreams_proofs` | what is left on the connections, and who has an engine | done |
| 11 | `Capacity` in `OxChannels` | a session over two bounded streams: client and engine that block in write(2) | done |
| 12 | `OxStack`, `OxStack_proofs` | the operand stack, its error packets, the mathcap; all its invariants | done |
| 13 | `OxToolkit`, `OxToolkit_proofs` | the second library: its client, and the servers written with it | done |
| 14 | `oxd` and its like, Java proxy, oxc | launchers, a translator | not modelled (section 7) |

The questions in the order in which we ask them: does a reset do what the documents
say (1-5); are the streams it relies on what it takes them for (6, 9, 11); does a
reset that is broadcast reach every engine, and the right one (7, 8); how does a
session come to exist (10); can its bounded streams stop it (11); whose are the
answers and the errors that it carries (12); and does the other library keep the
same promise (13).  What is proved is in section 6.  Left of the plan: whether a toolkit session
with `ox_math` implements `ResetProtocol` too, under the premises of
MathAnswersCorrespond; and an abstract specification of the start-up (a session is made
of both sides, or of neither) that `OxStart` implements.

## 3. Modules and code

`OxSession` is the top of the model of one session; `Fp2Stream` is the stream below
it, `ClientTable` the process around it, `OxStart` what comes before it and `OxStack`
what its commands do.  `OxToolkit` is a session over the other library.

    OxMessage <- OxChannels <- OxEngine, OxControlServer, OxClient <- OxSession <- OxSessionDocs
                                              ResetProtocol (INSTANCE) ^        <- OxSession_proofs
    ByteQueue (INSTANCE) <- Fp2Stream <- Fp2Stream_proofs
    ClientTable <- MCClientTable, ClientTable_proofs
    OxStart <- OxStart_proofs <- OxStartStreams_proofs
    OxStack <- OxStack_proofs        OxToolkit <- OxToolkit_proofs

**OxMessage.**  A message is a record of its tag, the function id of a command, the
number of the request it belongs to (`id`, an auxiliary that the code does not
send), the length of its body, and `whole`, which is FALSE between the flush of a
header and that of the body.  The bytes themselves are left out; what remains of
them is arithmetic on lengths.  A reader that is out of step has a *skew*, the
number of bytes it has taken of the message in front of it.  `Spill` and
`WaitSpill` compute the skew behind a message, 8 bytes at a time, as
`oxGetOXheader` and `oxWaitSyncBall` would; the "dirty trick" with the serial
number (`oxmisc.c`:193-196) is one case of `WaitSpill`.

**OxChannels.**  The two directions of the data channel and the control channel are
FIFO sequences.  `oxSendInt32` flushes after every four bytes, so nothing is held
back by a write buffer.  Each holds `Capacity` messages: a write(2) to a full stream
blocks, that is, the action that writes is not enabled, and the process stays where it
is (`HasRoom`).  `sigAction`, `sigBlocked` and `sigPending` are the
kernel's state of SIGUSR1 in the engine.  `InstallHandler` is `mysignal`, which
also unblocks; `IgnoreSignal` and `RaiseSignal` discard as POSIX says.

**OxEngine.**  `pc` names points of `nullserver`.  Consecutive statements between
which neither another process nor a signal can make a difference are one step;
the three `mysignal` calls at label `aaa`, the test of the flag, the assignments
to `OxCritical` and `OxInterruptFlag` and the system calls are steps of their
own, as a signal between them matters.  A signal that can be delivered is
delivered before the next step (`Runs`).  `controlResetHandler` returns or jumps
to `EnvOfChildServer`; as `longjmp` does not restore the mask, SIGUSR1 stays
blocked until `AfterJump`.  A body may be rejected by the parser, with a jump, or end in a
tag the parser does not know, which it takes for a null object, and which leaves the
reader out of step (`cmo.c`:1043); so it may on the side of the client.  `nested` is KSexecuteString's counter `recursive`
after a jump out of it: later errors then jump to `nullserver` (`ExecuteJumps`).

| Action | Code |
|---|---|
| `InstallAtChildEnv`, `IgnoreForTest`, `InstallAfterTest`, `AfterJump` | `oxserver00.c`:146-199 |
| `BeginHandshake` ... `EndHandshake` | 203-215, `fp2clearReadBuf`, `oxWaitSyncBall` |
| `PassFlagTest`, `LeaveCritical`, `Select`, `ReadHeader`, `ReadBody` | 201-254 |
| `Execute`, `ExecuteReturns`, `ExecuteJumps`, `InstallAfterExecute` | 305-346, `KSexecuteString` |
| `SendReplyHeader`, `SendReplyBody`, `Shutdown`, `OtherCommand` | 274-374 |
| `controlResetHandler`, `KilledBySignal` | 386-402, default action |

**OxControlServer.**  `ForwardReset`, `ReadKill` (the `sleep(2)` before the exit is
the state "dying") and `myServerExit` are the branches of `parentServerMain`.

**OxClient.**  Each call of the library is an action; the user may make any call
that the code does not refuse, in any order.  `oxGet` in the state
DSTATE_FIRST_SYNC is one action for each message that `oxWaitSyncBall` reads.  A
refused call changes nothing: the client object is written back only when the
call succeeds.

**OxSession** composes them and adds `GetEndOfStream`, the return of
`oxWaitSyncBall` at the end of the data stream, which needs to know of both
server processes that hold the socket.  `base`, `nreq`, `nreset` and `last` are
auxiliary counters of the client.

**ResetProtocol** is the promise to the user: requests are numbered, answers come
in that order and none while resetting; completing a reset gives up every earlier
request.  `OxSession` implements it under the mapping `resetting` = (`dstate` =
DSTATE_FIRST_SYNC), `asked` = `nreq`, `givenUp` = `base`, `answered` = `last`.

**OxSessionDocs** states what the documents say and the code does not do.

**Fp2Stream** is one direction of a connection at the level of `file2.c`: the write
buffer of a FILE2, the socket, the read buffer of the FILE2 at the other end.  A
byte is the number of the `fp2fputc` that wrote it, so loss, doubling and
reordering all show.  A write(2) is in progress while `wpc` is "flushing" or
"closing" and hands bytes over in pieces, as the bounded socket has room; it is
over when it has handed over everything (`WriteSome`), when a signal handler cuts it
(`WriteIsCut`), at EPIPE or EBADF.  `fp2fflush` then forgets the buffer whatever
write(2) has returned.

| Action | Code (`kan96xx/plugin/file2.c`) |
|---|---|
| `fp2fputc`, `fp2fflush`, `fp2fclose` | 98-172 |
| `WriteSome`, `WriteIsCut`, `WriteToGoneReader`, `WriteToClosed` | the write(2) of `fp2fflush`, 107-124 |
| `fp2select`, `fp2fgetc` | 174-226 and `oxSocketSelect0`, `mytcpio.c`:195 |
| `fp2clearReadBuf`, `ClearSome`, `ClearNothing` | 250-288, one step for each round of its loop |

**ByteQueue** is what the session takes a stream for: bytes come out in the order
they went in, the reader may give up the oldest, the newest are lost only once an
end is gone.  `Fp2Stream` implements it with `queue` = the read buffer, the socket and
the write buffer, one behind the other.

**ClientTable** is the process of the client: any number of client objects, the table
OxClientList, and the descriptor table of the process, in which a number is used
again as soon as it is closed.  The process is sequential, so each call is one
step; the question is what sequences of calls do.  A client object is created with
the descriptors that the kernel gives out (the lowest free ones) and an id from
`oxGetClientID`; the ways to end it differ in what they leave behind:

| Action | Code | Descriptors closed | Entry freed | Object marked |
|---|---|---|---|---|
| `KoxCloseClient` | `oxmisc2.c`:744 | both | yes | no |
| `oxshutdown` | `Doc/ox.sm1`:347 | data | by the next list | yes |
| `oxshutdownAborts` | the same for RFC 101 | data | no | no |
| `SendToGonePeer` | `file2.c`:112 | data | no | no |
| `Dropped` | the program loses its last reference to a closed array | – | – | – |
| `CreateFails` | `oxmisc.c`:647 | none of those opened | – | – |

A client is an array that the sm1 program shares, and `KoxCloseClient` does not mark it: as
long as the program keeps it, it passes `oxObjectToClient` and can be closed, shut down or
written to again.  All of these go by the numbers in the array, whoever has them by then.

Four history variables say what has happened so far: `closed` is the set of the arrays that
`KoxCloseClient` has been called on and that are still kept; `reused`, one of them has been
used again; `shared`, a control client of RFC 101 has been made, whose id is also the next
engine's; and `stale`, a data stream has been closed under its object by `fp2fflush`, while
the FILE2 keeps the number of a descriptor that the next client may get.  Properties that
hold only until then say so by name.
`KoxGetClientList` is what `ox103_reset` calls to find the engines.  `MCClientTable` adds
the symmetry of client objects for TLC, and a bound on what follows a second use.

**OxStart** is how a session comes to exist.  With `-reverse` the server connects to
sockets that the client has made, under an alarm of 20 seconds in the client; without,
it listens and the client connects.  Then come the passwords, the fork into control
server and engine, the exec of the engine, and a byte each of them sends to tell the
byte order, and reads.  `cpc` and `spc` are the points of the client's call and of the
server process (after the fork: of the control server), `epc` that of its child.  A
connection has the number of the call that made it, so that what a failed call has
left behind shows: `cli` and `srv` say which connection each side holds for a
channel, `opened` and `held` who still has a descriptor of it.  read(2) at the end of
a stream, or on the descriptor -1, returns without a byte and the code does not look:
`ByteTaken`, `TailOf`, `PassTaken` and `Offers` treat that.  The user may call again after an
error.

Who asks for a password of m characters reads m+1 bytes, cuts them to m and compares, on
either channel of the client and on the control channel of the server: so a longer password
that begins with the right one is accepted, and what follows stays on the stream
(`PassTaken`).  The server's data channel is read without the cut (`Matches`).  The model has
a password "p", a longer one "px" that begins with it, and another one, "q".

`oxCreateClient2` returns NULL with the alarm still armed; the point "null" of `cpc` lies
between that return and `errorKan1`, which its caller comes to and which takes the alarm
back.  An alarm that rings there jumps into a stack frame that has returned: the client is
"lost".

| Action | Code |
|---|---|
| `Call`, `ConnectControl`, `ConnectData`, `SendPass` | `oxCreateClient`, `oxmisc.c`:647-715 |
| `Call`, `AcceptControl`, `AcceptData`, `ReadPass`, `cancelConnection` | `oxCreateClient2`, `oxmisc.c`:955-1054, with the alarm |
| `errorKan1` | `kanExport0.c`:3311, the error that `KoxCreateClient` and `KoxCreateClient2` make of NULL |
| `oxSetByteOrder` | the exchange of the byte order, on either channel |
| `FindServer`, `ServerConnects`, `socketOpen`, `socketAccept`, `ServerReadsPass`, `Refuse` | `main`, `oxmain.c` |
| `Fork`, `ControlTells`, `ControlHears`, `myServerExit` | `main`, `parentServerMain` |
| `Exec`, `errorToStartEngine`, `EngineTells`, `EngineHears` | `childServerMain`, `nullserver` |
| `ServerGone`, `ClientExits` | either process ends, anywhere before the session |

**OxStack** is the stack that the commands of `nullserverCommand` work on, one step for a
message.  An object is its kind and the number of the request that made it; lists
have elements, so that the check of a list against the mathcap goes down into it.  A list
is the set of its elements: their order and number make no difference to any check.  The
deepest objects of the model are lists of lists, and `cmoCheck00`, which in the code calls
itself, is written out to that depth.
`KSexecuteString` counts its own nesting: interrupted by a reset it never counts
down again (`nested`), and from then on every failure jumps to `nullserver`, which
pushes an error packet that tells nothing, instead of returning an error to
`Sm1_executeStringByLocalParser`, which fetches the message from ErrorStack.  A jump or
a reset pushes the string "(Computation is interrupted.)", and it stays below what comes
next.  `mathcapList` is what the peer has registered with SM_setMathCap: whatever was on
top, so also something unfit.  Four forms of a mathcap meet `cmoCheckMathCap`: the
list of tags that the code accepts; the form without the inner brackets that
`stackmachine.tex`:488-492 prints ("unpaired"), for which SM_popCMO fails after it has
sent its header and sends no body; one without OX_DATA, for which two elements of an
array are compared that nobody has written; and an empty list of tags, which lets
everything pass.  The contents of trees and of error packets are never checked.
`Lost` is the end of the stack: with Strict = 1 the warning of a full stack is itself an
error, whose handling pushes again; the engine does not recover.

**OxToolkit** is a session over `ox_toolkit`, word by word.  Its client has two calls that
read: `OX_get` waits for an answer, `ox_reset` for a ball.  `receive_ox` and
`receive_cmo` are the points of `cpc`; with `oxf_setbuffer` (`buffered`) `ox_reset` leaves
its own ball in the buffer, where it stays until the next message.  The servers
differ in how they take SIGUSR1: `ox_math` notes it (`noted`) and looks at the flag
between two messages; `ox_pari`, `ox_gsl` and `ox_python` jump out of wherever they
are, send a ball and go on reading, what was sent before the reset included.
`ox_gsl` uses `setjmp`/`longjmp`: whether the signal is unblocked afterwards depends on
the C library (`savesMask`).  `torn` says that a jump has cut a message in half.

| Action | Code |
|---|---|
| `send_ox`, `OX_get`, `ox_reset` | `ox.c`: calls of the user |
| `ClientReadsTag` ... `ClientReadsValue`, `ClientReadsBall` | `receive_ox`, `receive_cmo`, the loop of `ox_reset` |
| `ServerReadsTag` ... `ServerReadsCode`, `ExecuteEnds`, `ServerWrites`, `ServerReadsEnd` | the loops of the servers |
| `sm_sigunmask`, `EnterSelect`, `SelectReturns`, `exchange_ox_sync_ball`, `Exchanged`, `sm_sighandler` | `ox_math/serv1.c` |
| `usr1_handler` | `ox_pari.c`, `ox_gsl.c`, `ox_python.c` |

## 4. Runs

| Run | Bounds | What it shows | States |
|---|---|---|---|
| `session` | 2 requests, 2 resets, bodies of 4 and 8 bytes, cuts at 0 and 4, bodies rejected or unknown on both sides | TypeOK, DeafOnlyWhenTold, BallInvariant, OrderInvariant, NoTornMessage, AnswersAreFresh and the refinement (KeepsPromise), at every interleaving | 2,396,581 |
| `liveness` | 3 requests, 1 reset, streams of 2 messages, balls of the user's own | HandshakeCompletes, ResetCompletes, NoOrphan, also when client and engine block in write(2) | 478,596 |
| `stream` | buffers of 2 bytes, socket of 3, 6 bytes written, signals | StreamTypeOK, StreamOrder, ClearedIsGone, ArrivedIsRead and the refinement (IsQueue) | 17,614 |
| `table` | 3 clients of all kinds, 3 entries, 3 descriptors, 1 file, 1 closed object kept | TableTypeOK, ListIsComplete, IdIdentifiesClient, OwnDescriptors, EntriesAreLive | 2,192,929 |
| `start` | 3 calls; both directions, passwords equal, longer, shorter, different or missing on either side | StartTypeOK, NothingLeftOver, RefusesWrongPassword, ObjectHasEngine, AlarmIsTakenBack, CallReturns, NoOrphanServer | 38,390 |
| `stack` | 4 messages, a stack of 5 places, an ErrorStack of 3 | StackTypeOK, OwnResult, ErrorsTellOwnFailure, Protected, AnswersAreWhole | 2,360,976 |
| `toolkit` | 2 requests, 2 resets; the three servers, with and without a buffer, both kinds of setjmp | ToolkitTypeOK, InStep, MathAnswersCorrespond, JumpAnswersAscend, ResetReturns, ServerEnds | 126,153 |

*Session.*  Two requests and two resets are enough for each race we know of: a request
under way in either stream while another is served, and a reset that falls into
every point of an earlier one.  A body of 4 bytes shifts a reader by half a header,
one of 8 keeps it in step; other lengths are multiples of four in the code (every item of
a CMO is padded or written in int32s, strings excepted) or behave as one of them.
Cuts at 0 and 4 are where `oxSendInt32` flushes.  `MaxReq` and `MaxReset` are the
only bounds on behaviour and stand in the guards of the client's actions; the
proofs do not use them.  `Capacity` is a size of the system; 12 messages are more than a
session of these bounds can have under way, so that `session` is one without blocking,
and the 2 of `liveness` are fewer than its user sends: both sides block there, also in the
middle of a handshake.  In `liveness` bodies have 8 bytes and clearing cuts no
message: `doc_odd_body` shows why the first is needed, section 7 says why the second.

*Stream.*  Six bytes fill a write buffer three times and a socket twice, so each
buffer runs full and wraps its indices while others are in every state.  A TmpSize
of 2 below a socket of 3 makes `fp2clearReadBuf` go round its loop.

*Table.*  Three objects share three entries, of which the last is never handed out
(`OxClientListn < MAX_N_OF_CLIENT - 1`): so the third client meets a full table, and
after a close a free entry.  With three descriptors the process runs out of them, and
failed connections leak some, so that a number passes from client to client.  `MaxKept` is
the number of closed arrays that are kept at a time: one is enough to be closed again when
two others have been made, and may be any in turn; `MaxFiles` the number of clients that are
files.  The constraint `ReuseAlone` leaves out what follows once a closed object has been
used and, besides, a stream closed under its object or a control client of RFC 101 made: only
EntriesAreLive says anything of that, and its proof covers it.  (Without the constraint
the run has 5,613,243 states and the same result.)  Symmetry is sound: only invariants are
checked and no expression names a client.

*Start.*  Three calls are one that fails on the first channel, one that fails on the
second, and one that finds what they have left.  `MaxCalls` is also the number of
connections; no proof uses it.  Of passwords only the order matters in which one begins
with another: equal, longer, shorter, neither, none.

*Stack.*  Four messages are enough to register a mathcap, run a program, fail and pop;
or to be interrupted, fail twice and pop.  Five places on the stack and three
on ErrorStack are reached by these messages and by resets at rest.

*Toolkit.*  Two requests, one sent before and one after a reset, and a second reset
that meets the rest of the first.

Deadlock is not checked in any run: a session ends, a client with nothing to ask waits,
a process that has run out of descriptors can only stop.

The other five runs each refute one sentence of the documents; the bounds are the
smallest at which the disagreement shows, and keep other causes out but for `doc_not_listed`.  `session` and
`toolkit` are the runs they are to be compared with.

| Run | Sentence | What happens |
|---|---|---|
| `doc_signal_gap` | control.tex:128 the engine sends OX_SYNC_BALL | once a message has been read `OxCritical` is still 1 between the test of the flag and `OxCritical = 0`: a signal there is only noted, the engine blocks in `fp2select` and the client waits for its ball |
| `doc_user_ball` | control.tex:143 the request corresponds to the response | a ball of the user's own is taken for the client's answer |
| `doc_odd_body` | control.tex:118 discards until it receives OX_SYNC_BALL | the ball behind a body of 4 bytes is missed |
| `doc_not_listed` | ox.sm1:579 `ox103_reset` broadcasts to all processes | a control client of RFC 101 has the id of an engine, or a client that has been closed has it still; closing that one takes the engine out of the table |
| `doc_toolkit` | control.tex:143 the request corresponds to the response | a server that jumps serves after its ball what was sent before the reset, and the client takes the answer for that to a later request |

Two of the properties have a second cause.  SignalLeadsToBall: the client of a first reset
is back in its usual state before the engine is, and may reset again; the second signal is
then noted in the flag that `oxserver00.c`:212 clears, or ignored, and no ball comes.  The
bounds of `doc_signal_gap` allow one reset and so show the first cause alone; with
`MaxReset` = 2 and `MaxReq` = 0 the property is violated by the second.  ResetReachesAll is
violated in both ways that the table names, in three steps and in four; `doc_not_listed` shows
the one that its workers come upon first.  Both go through `oxmisc2.c`:774, which frees an
entry by its id and does not look whose it is.

## 5. Fairness

`FairSpec` of `OxSession` assumes weak fairness of the engine's own steps and of the
delivery of a signal (the scheduler runs both processes), of the end of a
computation (users who wait for one assume it), of the control server's steps, and
of the client library's reads (the client is a call that blocks in `oxGet` until
something comes).  Nothing is assumed of the user: he need not make requests,
reset or close.

ResetCompletes says what the code achieves: it leaves out the resets noted between the
test of the flag and `fp2select` or inside a handshake, which need not end;
SignalLeadsToBall is the statement without these exceptions.

`FairSpec` of `Fp2Stream` assumes weak fairness of a write(2) in progress (the kernel
copies what there is room for) and of the reader's calls: `nullserver` and `oxGet`
read as long as `fp2select` shows them something.  The writer need not write, flush
or close.

`FairSpec` of `OxStart` assumes it of the client's call, of the alarm clock, of the server
process, of the control server and of the engine.  The user need not call, and
nobody dies by himself: the end of a process is a possibility, never assumed.
CallReturns names the three ways in which a call waits for ever (`NobodyAnswers`), and the
client that is lost to an alarm between NULL and the error.

`FairSpec` of `OxToolkit` assumes it of the server, whose computations end, and of a call
of the client that reads.  ResetReturns names the four ways in which it waits for ever
(`ResetIsLost`).

## 6. Proofs

All proofs are checked by TLAPS to the last leaf: 30 theorems in 7 modules.  Each
invariant of the runs that pass is stated by a theorem, and so is each action property
and both refinements.  The theorems hold for every value of the constants that the named
assumptions of the modules allow; `MaxReq`, `MaxReset`, `MaxCalls` and `MaxMessages` are
any numbers, so that the bounds of the runs are none of the proofs.  The inductive
invariants were checked with TLC before they were proved.

### The session

`OxSession_proofs` holds for every value of the constants: any set of body lengths, any
cuts, any number of requests and resets, faulty bodies or not.

| Theorem | Statement |
|---|---|
| `TypeCorrect` | Spec => []TypeOK |
| `JumpIsSafe` | Spec => NoTornMessage |
| `DeafOnly` | Spec => []DeafOnlyWhenTold |
| `RequestsInOrder` | Spec => []OrderInvariant |
| `BallsInOrder` | ~UserBall: Spec => []BallInvariant |
| `FreshAnswers` | ~UserBall: Spec => AnswersAreFresh |
| `PromiseKept` | ~UserBall: Spec => KeepsPromise |

The argument is in layers.  `CriticalOK` ties the program point to `OxCritical`: the
flag is set wherever a message or a handshake is half done, so the handler jumps
only out of points where nothing is; with it JumpIsSafe is immediate.
OrderInvariant is inductive over TypeOK: the numbers of answers, of the command in
work and of the commands under way form one ascending line, and every action
takes from its head or adds at its tail.  BallInvariant says where the balls are; it
is a disjunction of the four phases of a session (no ball under way, ball to the
client, ball to the engine, server gone), and each action keeps the phase or moves
to the next.  The phases need the order of the streams and the points where the
engine may jump, so `ResetInvariant` = TypeOK /\ CriticalOK /\ OrderInvariant /\
BallInvariant is the inductive invariant.  AnswersAreFresh and the step
simulation of the refinement follow from it: an answer is taken only in a phase in
which everything in the stream is newer than `base` and, by OrderInvariant, than
`last`.

The assumption ~UserBall is needed: with it TRUE `doc_user_ball` refutes the
statement.

### The client table

`ClientTable_proofs` holds for any number of clients, entries and descriptors.  The
properties say themselves until when they hold: OwnDescriptors until a stream is
closed under its object, ListIsComplete and IdIdentifiesClient until the table is reported
full or a control client of RFC 101 is made, and all three until a closed object is used
again.  EntriesAreLive holds through all of that.

| Theorem | Statement |
|---|---|
| `TableTypeCorrect` | Spec => []TableTypeOK |
| `TableHoldsNoClosedClient` | Spec => []EntriesAreLive |
| `DescriptorsAreOwn` | Spec => []OwnDescriptors |
| `EveryEngineIsListed` | Spec => []ListIsComplete |
| `IdsAreDistinct` | Spec => []IdIdentifiesClient |

EntriesAreLive is inductive over the types: an entry is written together with the id
of the object it holds and freed by that id, so that an array closed twice frees its
successor's entry but leaves none of its own.  For the descriptors the invariant
(`DescriptorInvariant`) must speak of every object and not only of the living: an
object that `oxshutdown` has marked still names the data descriptor it no longer
owns, and only its mark keeps `KoxCloseClient` from closing the successor's.  Closed arrays
have no mark: nothing but their not being used does it, and the proof shows that a
program which drops them, or leaves them alone, is safe whatever else it calls.  For
the table `ListInvariant` joins ListIsComplete, IdIdentifiesClient and
`FilesAreNumbered`: that a new id is nobody's follows from ListIsComplete (its entry
is free, or was never handed out) for sockets and from the numbering from 0x8000
for files; ListIsComplete needs distinct ids in turn, or closing one client would
free another's entry.  That RFC 101 and closed objects have to be left out
`doc_not_listed` shows.

### The streams

`Fp2Stream_proofs` holds for every size of the buffers, of the socket and of the pieces
`fp2clearReadBuf` reads.

| Theorem | Statement |
|---|---|
| `StreamTypeCorrect` | Spec => []StreamTypeOK |
| `StreamInOrder` | Spec => []StreamOrder |
| `ClearedStaysGone` | Spec => ClearedIsGone |
| `StreamIsQueue` | Spec => IsQueue |

The lemma `Steps` says that every action does one of four things to the queue
UnderWay: it appends the next byte, takes the first, drops a prefix (of length 0
when a byte only moves between buffers) or loses a suffix; that is the algebra of
`\o`, SubSeq and Tail, and the refinement reads off it.  Each of the four keeps an
ascending line ascending, which is StreamOrder.  ClearedIsGone needs to know what a
half emptied socket may hold: `ClearInvariant` says that outside of
`fp2clearReadBuf` everything under way is newer than what it found, and within it
everything in the write buffer is.  When its loop ends the two read-side buffers
are empty, and only the write buffer is left.  `BufferInvariant` adds to the types
that a full write buffer is being flushed and that the read buffer stays empty while
the socket is cleared.

### The start

`OxStart_proofs` holds for any number of calls.

| Theorem | Statement |
|---|---|
| `StartTypeCorrect` | Spec => []StartTypeOK |
| `AlarmIsSafe` | Spec => []AlarmIsTakenBack |
| `WrongPasswordRefused` | Spec => []RefusesWrongPassword |

The types alone are not inductive: `Direction` says which points of a call belong to
which direction, as a connection number 0 is sent to otherwise, and
`AlarmOnlyConnecting` that the alarm is armed only within the waiting part of a call and
at "null", between its return and the error; so a call that ends, in either way, has taken
it back, although `oxCreateClient2` forgets it on three of its ways out.
For passwords `StartInvariant` adds `OwnPasswords` (what a side reads is what the other has
sent, or a rest of it; no rest begins with a password), `Numbered` and `Checked`.  With
-reverse the client accepts what begins with the password it asks for, and no more is
proved; a listening server compares the data channel exactly.  The hard case is a listening server:
it compares a password with a buffer nobody has written when the client has died, and
goes on to the fork.  That such a session never serves a living client follows from the
numbers: the server's data connection is that of a past call, and what the client has
closed of a past call is never opened again.

`OxStartStreams_proofs` goes on from there, with the two properties that relate all three
processes and what is on the wire between them.

| Theorem | Statement |
|---|---|
| `StreamsAreClean` | Spec => []NothingLeftOver |
| `ObjectMeansEngine` | Spec => []ObjectHasEngine |

Both are about the end of a start-up, where both sides are done; the invariant must say
what is under way before.  First `Connected`, who has which connection: what the client
has of its call is open (`ClientEnd`), what the server has is held by the processes that
need it (`ServerEnd`), with -reverse there is one connection (`ReverseQueue`), and a call
that has yet to connect finds nothing under its number (`Unused`).  `Straddling` is the
hard part: several calls may connect to a listening server one after the other, and a
control connection of one call with a data connection of another would be a session of
nobody.  It cannot be, as the server listens for data only when it has closed its
control socket: of the calls that connect to both one reaches it, and it is the first in
the backlog of the data socket.  Then `ToClient` and `ToServer` say what the two
streams of a connection hold, as a function of how far both sides are: `ClientPhase` is 0
before the passwords have been exchanged, 1 after, 2 when the byte order has been too;
`ServerPhase` has one more, as the server tells its byte order before it hears the
client's.  A stream holds a password if its writer is past it and its reader is not, then
a byte order under the same condition (`Fits`).  Each action advances one side of one
connection by one phase and changes one of its streams accordingly (`ClientAdvances`,
`ServerAdvances`), or makes a connection, and everything else keeps both.  Both
are said of `Joined` connections only: an end that has been closed may leave anything
behind, and the premise Agreed of NothingLeftOver (equal passwords) is needed, since
a side that asks for none leaves the other's in front of the byte order.  ToClient needs
no Agreed for a listening server, which sends no password, and with -reverse a client that
asks for one refuses another; so ObjectMeansEngine excludes only the client that asks a
server with -reverse for none, or for a shorter one than it sends, and says that the byte the client takes for
the engine's byte order is one.

### The toolkit

`OxToolkit_proofs` holds for any number of requests and resets, for each server, with
and without a buffer.

| Theorem | Statement |
|---|---|
| `ToolkitTypeCorrect` | Spec => []ToolkitTypeOK |
| `StaysInStep` | Spec => []InStep |
| `MathAnswers` | Spec => MathAnswersCorrespond |
| `JumpAnswersOrdered` | Spec => JumpAnswersAscend |

InStep says what a reader finds in front of it; the invariant must say what is in the
whole of both streams.  `Grammar` does: a reader is in one of seven phases, and
`Parses(q, s, r)` says that the words of s take it from phase q to phase r (it is the
existence of a function from the positions of s to phases, as recursion is not
available to the prover).  What is in the stream, what is still being written and what
the reader is in the middle of parse together, and each message takes phase "tag" to
phase "tag".  That alone is not inductive, as `ox_reset` must find its ball and nothing
else ends it: `NoReset \/ InReset` says that a reset is one token that is passed on, from
the pending signal to the flag, the words to write, the words under way and the ball
half read.  While it is anywhere, the client is in `ox_reset`; there is no second.

The answers need the numbers of the requests.  `Line` says that the answers under way,
what is being written and the requests under way are one ascending sequence, newer than
the last answer; it holds even where a jump has cut a message.  `AwaitedOK` orders the
pops that OX_get has not answered.  Of these `Coming` says that they are under way
(except in `ox_reset`, which gives them up), and `Owed`, for ox_math only, that what is
under way and not given up is one of them.  So the first answer under way is not newer
than the oldest pop, and with ox_math not older either.  Both rest on `MathOK`: ox_math
is `Serving`, `Asking` (the ball is on its way to the client, and whatever it discards is
of the time before), or `Answered` (the client's ball is in its buffer, on the stream, or
read, and what is in front of it is older than the reset and what follows newer: `Cut`).
A server that jumps has no such mode, which is why `AnswersCorrespond` fails for it.

### The stack

`OxStack_proofs` holds for every size of the operand stack and of ErrorStack and any
number of messages.

| Theorem | Statement |
|---|---|
| `StackTypeCorrect` | Spec => []StackTypeOK |
| `OwnResultHolds` | Spec => []OwnResult |
| `ErrorsTellOwnFailureHolds` | Spec => []ErrorsTellOwnFailure |
| `MathcapProtects` | Spec => []Protected |
| `AnswersWhole` | Spec => []AnswersAreWhole |

The invariant is `StackInvariant`.  Its first part, `OwnTypeOK`, is StackTypeOK with the
objects narrowed to `Own(n)`: of a request up to n, and telling, if an error packet
anywhere within them tells anything, the failure of their own request.  That has to hold of
whatever an object can be copied to, the name that SM_setName binds and the
registered mathcap included, or SM_evalName would bring back what the stack is free of;
ErrorsTellOwnFailure follows.  Why a packet tells its own failure is in
`FailsWithError`: the failure that has just been pushed on ErrorStack is on top of it, or
ErrorStack was full and has been emptied, and then the packet tells nothing.
`ResultOnTop` says that while the result or failure of a program is still to be fetched it
is on top of the stack, below nothing that a jump has pushed, which gives OwnResult.
`FitMathcap` says that what is registered, unless `misused`, is one of the three
lists of tags that `cmoCheckMathCap` can read; so it never ends in an error after the
header, which is AnswersAreWhole, and passes an object only when everything within it is
listed, which is Protected.

### Only model-checked

The liveness properties (HandshakeCompletes, ResetCompletes, NoOrphan, ArrivedIsRead,
CallReturns, NoOrphanServer, ResetReturns, ServerEnds), as the prover does not treat
fairness and ENABLED.  The five disagreements are counterexamples and need no proof.
`cmoCheck00` on objects of any depth would be an induction over data: model and proof stop
at lists of lists.

## 7. Not modelled, and limits met while modelling

* The content of a CMO, and so commands that fail because of it other than by the
  two jumps and the unknown tag; an error of the encoder in the middle of a reply
  (`cmo.c`:320).  `OxStack` has the kinds of objects and the elements of lists.
* A skewed reader that meets bytes equal to a valid tag inside a body: only the
  ball at half a header is treated.
* SIGINT and the control-C hooks, SIGALRM, SIGPIPE.
* The string mode of a FILE2 (fd = -1), its log and watch files, a read(2) that fails
  for good.
* `OXprintMessage` and the exit on end of file it causes.
* `oxMultiSelect`; several sessions of one client at a time (`ClientTable` treats
  their objects, not their messages).
* In `OxStart`: a side that has different passwords for its two channels, the rest of a
  password that begins with the right one again, peers that are not local, calls that fail for lack of memory or
  descriptors (fork excepted), bytes lost when a connection is reset.
* In `OxStack`: objects deeper than lists of lists, executable arrays, programs that change Strict or ErrorMessageMode,
  error packets sent by the client, mathcaps with more than one data format.
* In `OxToolkit`: serial numbers or values that equal a tag, words that arrive in parts,
  the codec, `parse.c`, and `ox_start`; the stack of the servers.
* Launchers (`oxd`, `oxlog`, `ox100start`, `oxpipe`, `oxc`): they fork and exec, pass ports
  and passwords as arguments and wait, and keep nothing between two connections.
* The Java proxy: a translator between OpenMath and CMO, almost all of it codec, over
  one connection that it serves in order.
* The kernel of kan/sm1, k097, hgm, asir-contrib: computer algebra and numerical
  programs, and libraries in the language of Risa/Asir.  Most of the repository's lines are
  here; none of it communicates, and what makes it right is mathematics.

Some behaviour is part of the models, is excluded by the premises of a property and has
no run of its own:

* a reset forwarded before the engine has installed its handler ends the engine
  (`KilledBySignal`), and one that falls into the test of the old action at label
  `aaa` is ignored by the kernel: in both cases no reset is ever noted, and
  ResetCompletes speaks of noted ones;
* a reset noted while a command is read does not stop the computation which that
  command starts (`oxserver00.c`:306): ResetCompletes relies on its end;
* when `fp2clearReadBuf` drops the first part of a message whose rest is still to come,
  the engine looks for the ball out of step and may miss it: `liveness` has no cuts;
* after `fp2fflush` has closed the stream of an ended peer, the FILE2 keeps the number
  of a descriptor that the next client may get: OwnDescriptors holds until then;
* an sm1 program that uses a client which it has closed closes descriptors of others and
  frees their entries: OwnDescriptors, ListIsComplete and IdIdentifiesClient hold until then;
* an alarm between the NULL of `oxCreateClient2` and the error of its caller leaves nothing
  to be said of the client (`cpc` = "lost");
* with -reverse a client accepts a longer password than it asks for and takes the next
  byte of it for the byte order: NothingLeftOver and ObjectHasEngine leave that out;
* the table counts clients that `oxshutdown` has killed until it is listed: `full` may
  be reported of dead entries, and ListIsComplete says nothing from then on;
* a control server that keeps its copy of the data socket, and an engine whose exec has
  failed, leave a call of the client waiting for ever (`NobodyAnswers`);
* a client of the toolkit that has set a buffer sends the ball of its reset with its next
  message: an `ox_math` server waits for it, and a second `ox_reset` before that message
  waits with it (`ResetIsLost`);
* a program interrupted by a reset leaves the counter of KSexecuteString raised, so that
  later failures tell nothing; ErrorsTellOwnFailure allows an error packet that tells nothing;
* what fills the operand stack in 30000 steps, for instance a client that never pops: the
  end is a state of `OxStack` in which nothing is claimed.
