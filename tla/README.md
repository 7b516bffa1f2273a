# Verification of nonblocking-socket

TLA+ models, model-checking runs and machine-checked proofs for the socket
library under `src/nsock` and the two programs built from it, `echoServer` and
`echoClient`. Paths below are relative to `src/nsock` unless they start with
`src/`.

## 1. Inventory

The library is single-threaded: one event loop (`npollLoop`) waits in
`epoll_wait` and calls callbacks, which run to their end and may call back into
the library. What runs concurrently with it is outside: the kernel, the peers
of the sockets, and whoever writes to stdin. Nothing is persisted.

| component | state | operations | correct when |
|---|---|---|---|
| `CircularBuffer` (`nsock.h` 75-135) | `dataBuf`, `dataStart`, `dataLen` | `put`, `get` (and `full`, `empty`, `getFreeSpace`, which nothing in the library calls) | it never leaves its memory, `put`'s loop ends, and it is a bounded FIFO of bytes |
| `NSock`, a connection (`nsock.cpp`, `nsock.h` 140-237) | `sockfd`, the callbacks, `recvBuf`/`recvOffset`/`recvLen`, `sendBuffer`, `stat` | `onAcceptCb`, `monitorSocket`'s callback, `recvFromSocket`, `setRecvFn`, `send`, `writeToSocket`, `handleError`, `end` | bytes go through in order, none lost or doubled; no edge of edge-triggered epoll is missed; the descriptor is released exactly when the peer is gone |
| `NSock`, opening (`nsock.cpp` 38-206, 264-306; `util.cpp` 23-45) | the descriptor of an attempt | `listen`, `connect`, `onAcceptCb`, `setnonblocking` | a failed attempt is closed once and the next address tried; a socket in the loop is non-blocking and has its own callback |
| `npoll` (`npoll.cpp`) | `epollfd`, `fdMap`, the batch of events | `npollAddFd`, `npollRemoveFd`, `waitForEvents`, `npollLoop` | a callback runs only for the socket it was installed for, though descriptors come back within a batch, and every ready descriptor gets its turn |
| `ConnServer` (`echoServer.cpp`) | `mListenSock`, `mConnections`, `mRecvPaused` | `createConnServer`, `serverLoop` (twice), `onConnect`, `onSocketRecv`, `onSocketDrain`, `onSocketError`, `getConnStats` | what a client receives is a prefix of what it sent; `mConnections` holds the live connections; every open socket has an owner; the end of stdin ends both loops |
| `CommandServer`, `NRequest` (`commandServer.*`) | `mDispatchTable`, `mIsEof`, `mMonitoring`, and cin's buffer | `addCommand`, `monitorStdin`, `stopMonitoring`, `onStdinReadable`, `parseInput` | requests are answered in order; the end of the input ends the loop, after everything before it, and nothing else does; the loop never waits for the writer |
| `echoClient` (`echoClient.cpp`) | `inpQ` | `onStdin`, the callbacks of the socket and of stdin | what is read from stdin is given to `send` in order, all of it before the socket is ended; either end is noticed |
| `util` | the log file | `log`, `setnonblocking` | - |

How they interact. `waitForEvents` calls `monitorSocket`'s lambda, which calls
`recvFromSocket`; that calls `onRecv`, which is `ConnServer::onSocketRecv`, and
that calls `send` on the *same* socket with a pointer into `recvBuf`. `send`
alternates `sendBuffer.put` with `writeToSocket`, which may call `handleError`,
so `onError`, so `end()`: a socket can be closed four frames below a function
that goes on using it. `setRecvFn` reads at once, so it has the same depth below
`onConnect`, before the error callback is installed. `CommandServer` shares the
loop, and reads stdin through a buffer of stdio that the loop cannot see.

What is hard to test, and what the properties are therefore about, is listed
with its line in `PROJECT.json` under `hazards`: the order in which kernel
events and callbacks meet, partial results of `send`, the wrap of the circular
buffer, edges that are announced once, events that were true when `epoll_wait`
returned and are not any more, and the second buffer under stdin.

## 2. Modules

| module | models | lines of the source |
|---|---|---|
| `RingFifo` | the arithmetic of the circular buffer as operators on the sequence it stores | `nsock.h` 93-124 |
| `ByteFifo` | abstract specification: a bounded FIFO whose `get` hands out a run and frees it | `nsock.h` 93-124 |
| `CircularBuffer` | the buffer on its memory, `put`'s loop one copy per step | `nsock.h` 75-134 |
| `TcpSocket` | external: one TCP socket in the kernel, its edge-triggered registration, the client | - |
| `EchoSession` | one connection of `echoServer` from the backlog to its close; extends `TcpSocket` and `RingFifo` | `nsock.cpp` 207-459, `echoServer.cpp` 89-153, `npoll.cpp` 98-116 |
| `LossyEcho` | abstract specification: what a client of the server may rely on | `nsock.cpp` 238-258, 298-305, 357-459 |
| `NPoll` | `fdMap`, epoll's set and the batch of one `epoll_wait`, over a table of descriptors that come back | `npoll.cpp` 34-54, 84-164 |
| `Connection` | abstract specification: what the event loop and the callbacks of one connection owe each other | `nsock.cpp` 238-258, 264-306, 440-459, `npoll.cpp` 98-116, `echoServer.cpp` 79-86, 127-147 |
| `EchoServer` | the program: listening socket, several connections, stdin, both calls of `serverLoop`; extends `NPoll` | `echoServer.cpp` 24-168, `nsock.cpp` 238-306 |
| `EchoClient` | the program: one socket and stdin; extends `NPoll` | `echoClient.cpp` 14-100 |
| `NSockOpen` | `listen`, `connect`, `onAcceptCb` and `setnonblocking`, one system call per step; extends `NPoll` | `nsock.cpp` 38-206, 264-306, `util.cpp` 23-45 |
| `CommandServer` | stdin as the event loop sees it, with stdio's buffer in between | `commandServer.cpp` 20-135 |
| `CircularBufferProofs`, `EchoSessionProofs`, `EchoOrderProofs`, `NPollProofs`, `EchoServerProofs`, `EchoClientProofs`, `NSockOpenProofs`, `CommandServerProofs` | the theorems | |
| `MCCircularBuffer`, `MCEchoSession`, `MCEchoServer`, `MCEchoClient`, `MCNSockOpen`, `MCCommandServer` | the finite instances | |

The modules are layers of one program. `EchoServer` and `EchoClient` take a
callback as one step, since nothing else of the program runs meanwhile, and keep
of it what other callbacks can see: which descriptors it opens, closes, adds and
removes. What happens inside the callback of a connection is `EchoSession`,
inside the callback of stdin `CommandServer`, inside `listen`, `connect` and the
callback of the listening socket `NSockOpen`; the outcomes these allow (a
connection that ends at its hang-up, at once or at its next event; a process that
the assert or SIGPIPE ends; a socket that is null, or that epoll refused) are the
alternatives of the steps above.

`Connection` is where the two descriptions of a server's connection meet. It
knows of a connection what passes between the loop and its callbacks: whether it
is in the backlog, open or closed, whether its client has gone, whether it is on
epoll's ready list, whether its callback runs. `EchoSession`, which has the inside
of the callbacks, implements it (`KeepsItsPart`): a callback that returns with the
socket open has seen every hang-up, or leaves the socket on the ready list for
it, and one that closes the socket does so only because the client has gone.
`EchoServer`, which takes a callback as one step, implements one `Connection` for
each client at once (`EachOnItsOwn`): whatever happens to the listening socket,
to stdin, to the other clients or to the descriptor numbers is for this client a
step of its own connection or no step at all. So what `EchoServer` assumes of a
callback is what `EchoSession` shows of one, and a connection in the company of
others is the connection that `EchoSession` studies alone. (The proof met one
step that `EchoServer` lacked, a callback of the listening socket in which the
process dies: `onConnect` reads at once, and may write. It is `AcceptKills` now.)

`PROJECT.json` maps every definition to its lines. Some conventions:

* **Steps.** In `EchoSession` a step runs from one system call to the next:
  between two system calls no other actor can move, and at each of them the
  client and the kernel may have moved. So `RecvData` is `recv()` and what
  follows it, `Deliver` the call of `onRecv` up to the first `put`, `WriteSome`
  one round of `writeToSocket`. `pc` names the loop the server is in;
  `recvCaller`, `writeCaller` and `pollOut` are the call stack (who to return
  to, and whether `EPOLLOUT` was in the `revents` being handled). The whole
  handler is modelled: `WriteFails` includes `handleError`, `onError`,
  `mConnections.erase` and `end()`.
* **Bytes** are numbered in the order the client sends them. Order, loss and
  duplication are then visible in what the client is sent; the values of bytes
  matter to nothing in the code.
* **`sendBuffer`** is a sequence with the slot of its oldest byte (`queue`,
  `start`); `CircularBuffer` is shown to implement exactly that. The wrap point
  matters, since `get` stops there.
* **The kernel.** `recv` answers data, then the pending error, then the end of
  the stream. `send` takes as much as fits, answers `EAGAIN` when nothing does,
  a pending `ECONNRESET` once, and otherwise raises `SIGPIPE` on a reset
  connection (the flags are 0 and the program leaves the signal alone; the
  process dies: `WriteKills`). Epoll puts a descriptor on its ready list at an
  edge and reports the events that hold when `epoll_wait` looks; space for
  `EPOLLOUT` is announced only if a writer has found none (`SOCK_NOSPACE`).
* **Faulty variants.** Definitions whose comment says "Faulty variant" are
  plausible mistakes in the definition they precede. No specification uses them;
  they are what shows that each property can fail.

* **Descriptors** (`NPoll`). `files` is the kernel's table: which socket each
  descriptor denotes. A new one is the lowest free, so that numbers come back at
  once. An event carries its number, as in the code, and for the properties the
  socket it was reported for. A step takes any event of the batch, since epoll's
  order is open. `epoll_ctl` may refuse an addition; `npollAddFd` answers 0 all
  the same, and the caller goes on (`refused` remembers it for the properties).
* **stdin** in `EchoServer` is what is typed next (a request, another line, a
  blank one, half a line) and whether it is closed; the accumulation of lines is
  `CommandServer`'s subject. In `EchoClient` the lines are numbered and queue up;
  stdin may also fail (`StdinBreaks`: `EPOLLERR`, at which nothing more is read),
  a last text that never gets its newline is dropped with the end, and a line
  that `getline` has read ahead need not be announced, only the end or the error
  has to be (`StdinEvents`).
* **A connection epoll refuses.** `Accept(FALSE)` of `EchoSession` is the
  connection whose `epoll_ctl` failed: `npollAddFd` answers 0, `onConnect` reads
  once and puts it into `mConnections`, and no event ever comes. `refused` remembers
  it. `LoopEnds` is the end of the `serverLoop` that accepted the connection, at a
  moment nobody chooses: it clears `mConnections`, which closes a socket that no
  callback in `fdMap` holds, and nothing else. It is a step of the environment of
  the connection and under no fairness.
* **Lines of the client.** `handed` are the lines given to `NSock::send`, which
  queues all of one and answers so. That is not the end of it: `cut` are those of
  which `::send` did not take every byte (the rest is lost, as `EchoSession` shows
  in detail), `dropped` those given to a socket that was closed already. Only what
  is in neither has been sent (`Sent`).

Left out of `EchoSession`: logging, the addresses, the `acceptNr` and `acceptErrorNr`
counters of the listening socket, the identity of the connection. Left out of
`CommandServer`: the parameters of a request (nothing reads them), the text of
responses, the request ids. A line is a request name, an unknown text, or empty.

`CommandServer` in words: the writer's text is a `tail` until its newline makes
it a line in the pipe (`input`). `getline` takes lines from stdio's `buffer`, and
fills it from the pipe only when it is empty: with some of the lines (`ReadSome`)
or with everything, an unfinished tail included (`ReadAll`). When `getline` has
no line and nothing to read it waits: there is no step for that, which is how a
blocked server looks. Only the pipe and its hang-up are visible to epoll
(`Readable`). `monitorStdin` leaves open whether epoll accepted stdin, because
`npollAddFd` answers 0 either way.

## 3. Runs

| run | specification, bounds | shows |
|---|---|---|
| `ring` | buffer of 3 slots, 2 byte values, all arguments up to 4 bytes, fair | `TypeOK`, `PutStaysInBounds` (the loop never overruns memory or argument), `PutTerminates`, and `FifoSpec`: the memory implements the FIFO |
| `session` | send buffer 3, `recvBuf` 5, kernel queue 2, 6 bytes, fair server and reading client, epoll accepting or refusing the connection, the loop ending or not; 204 thousand states | `EveryByteAccounted` (each byte at one place, in order), `NeverPaused`, `OnlyRestOfLossStays` (what waits in `sendBuffer` is the rest of a loss), `OwnershipConsistent`, `SigpipeNeedsFin`, `NoEdgeMissed` (when the loop waits on a connection that epoll watches, nothing is left that only an event would move); `EchoesInOrder`: the connection implements `LossyEcho`; `KeepsItsPart`: it implements `Connection`; `BytesAreRead`, `PeerCloseNoticed`, `BufferFlushed`: what the edges are for. Those that need an event except a connection that epoll refused |
| `server` | 3 clients, 3 descriptors, fair; 198 thousand states | `TableIsCurrent`, `NoStaleEvent`, `SocketsHaveOwners`, `LoopLeavesNothing`; `EachOnItsOwn`: one `Connection` for each client; `BacklogEmptied`, `HangupsReleased`, `StdinEndsServer` |
| `client` | 1 descriptor, 3 lines, stdin ending or failing, fair; 12 thousand states | `InputInOrder`, `EndLosesNoLine` (when the client is done and stdin has not failed, every line was sent, cut for want of space, or came after the server's end); `EofEndsClient`, `ServerEndNoticed` |
| `open` | 2 descriptors, up to 3 addresses, fair; 20 thousand states | `NothingLeaks`, `HeldAreReady`, `NoAddressSkipped`; `CallReturns` |
| `command` | 4 lines over a request, an unknown text and the empty line, fair server | `RequestsInOrder`, `EofComesLast`, `WaitsOnlyInsideLine`, and `EofNoticed`: the close of stdin ends the loop |

The bounds are chosen so that the boundary cases occur. In `session` the send
buffer wraps with bytes on each side, one `recv` gives more than `send` can queue
at once (so its loop goes round while bytes wait in `recvBuf`), the kernel's
queue is smaller than a run (so `send` takes part of it) and fills up, and the
client sends more than the send buffer and the kernel's queue hold together. In
`server` the listening socket leaves two descriptors for three clients: accept
runs out of them, and one that a callback of a batch closes is given out by a
later callback of the same batch. In `client` one line is being sent while a
second waits and a third is written. In `open` a descriptor returns for another
kind of socket, a call may find none, and a good address may stand between two
bad ones. In `command` four lines leave some in stdio's buffer while others are
in the pipe and a tail is being written.

Deadlock is checked for `ring` and `open`. The other systems really stop: a
connection that is closed, a process that has exited, a client that has nothing
more to send, a server that waits inside `getline`.

Runs that end in a **violation** state what the repository says of itself, and
show what the code does instead (`PROJECT.json`, `findings`, quotes the lines):

| run | promise | what happens |
|---|---|---|
| `echo_prefix` | `src/test/test.js` 61: the echo is a prefix of the message | `writeToSocket` takes a run out of `sendBuffer` before `::send` is tried; `EAGAIN` or a short count loses the rest, and the echo has a hole |
| `recv_assert` | the assert of `nsock.cpp` 341 | `recv()` may fill `recvBuf`; the assert is strict, so 64 KiB in flight end the server |
| `command_blocks` | `commandServer.h` 19, non-blocking stdin | text without a newline stops the whole loop inside `getline` |
| `command_answers` | `commandServer.h` 19-20, request and response | of three `get-stats` that one read brings, one is answered; the others wait in stdio's buffer, unannounced |
| `server_stats` | `commandServer.h` 19-20, request and response | `get-stats` goes through `mListenSock`, which is null after a `listen` that answered null and in the second `serverLoop` |
| `client_batch` | `npoll.cpp` 109: it is `epoll_wait` that returns an unknown descriptor | the end of stdin takes the socket out of the table while its event waits in the batch; the end iterator is dereferenced |

### Fairness

`FairSpec` of `CircularBuffer` has weak fairness of the loop of `put`: it is a
loop of one thread. `FairSpec` of `EchoSession` and `CommandServer` has weak
fairness of `Server`, the disjunction of all steps of the one thread: while it
can do something it does something, with no preference between its steps.
`pc` determines the step in most states, so nothing stronger hides in it.
`ReadingSpec` adds weak fairness of the client's reading, which `BufferFlushed`
needs (a client that never reads keeps the buffer full, rightly).

`EchoServer` and `EchoClient` have weak fairness of the program as a whole, and
of `WriterEndsLine`: a writer that has begun a line ends it. The code needs that,
because until then its one thread stands inside `getline` (`command_blocks`); so
the liveness shown for these programs is conditional on it. Which event of a
batch comes next is not fair, but a batch ends; that no descriptor is starved
follows because `epoll_wait` has room for all of them. `BacklogEmptied`
presupposes that descriptors come free again and again, since accept fails
without. `NSockOpen` has weak fairness of the call's steps: the kernel answers
each system call, also the blocking `::connect`.

Nothing is assumed of anyone's sending, closing or resetting.

## 4. Proofs

For every value of the constants, under the assumptions `Size > 0`,
`RecvBufSize > 0`, `TxSpace > 0`, `MaxAddresses > 0`, `MaxBytes` and `MaxLines`
natural numbers, `Fds` a finite set of positive numbers, clients that are none of
the names of the other owners, and `""` not a request name or an "other" text:

* **`CircularBufferProofs`.** `Typing`, `Bounds` and `TwoCopies`
  (`Spec => []TypeOK`, `[]PutStaysInBounds`, `SecondCopyStartsAtZero`). `put`
  reads the free space once, before its loop; that `dataLen + wlen <= Size`
  stays true is what makes every later copy fit. `Refinement`
  (`Spec => FifoSpec`): the abstract queue is what is stored less what a running
  `put` has copied, so a copy is a stutter, the return of `put` the abstract
  enqueue, and `get` the abstract dequeue; the slots written are shown disjoint
  from the slots stored.
* **`EchoSessionProofs`.** `Typing` and `ThrottleIsDead` (`Spec => []NeverPaused`)
  from one inductive invariant `IInv`. `TypeOK` alone is not inductive: that
  `recvOffset + written` stays inside `recvBuf` needs `LocalInv` (the offset is
  always 0, `written` is 0 outside `send`, and `recvBuf` holds exactly the last
  bytes copied), and that the offset is always 0 needs `RoomInv`: whenever
  `put` is called there is room, because every round of `writeToSocket` takes a
  non-empty run out whatever `::send` says. `Ownership`
  (`Spec => []OwnershipConsistent`) adds `OwnerInv`, which says at every `pc`
  what the property says between polls, of a refused connection too: it is open,
  unwatched, and owned by `mConnections` alone. `Sigpipe` (`Spec => []SigpipeNeedsFin`)
  adds `SigInv`, what is known of the pending error of a socket that was reset.
  `Edges` (`Spec => []NoEdgeMissed`) adds `EdgeInv`, which says inside a callback of
  a connection that epoll watches what is still owed: what is not announced and not read is what the running
  loops are going to look at (`ReadInv`, `WriteInv`), except in `onConnect`,
  where the error callback is missing and the registration's own readiness has
  to make up for it (`ConnectInv`). `Contract` (`Spec => KeepsItsPart`) is the
  refinement of `Connection`: the four invariants together say that a hang-up is
  ahead, on the ready list or in the callback, until the descriptor is closed; of
  a connection that epoll refused `Connection` asks only that it be left alone
  until its loop ends.
* **`EchoOrderProofs`.** `InOrder` (`Spec => []EchoInOrder`) and `Accounted`
  (`Spec => []EveryByteAccounted`). The strengthening says where each byte is by
  its number: `wire` below `queue` below `Handed`, the number of bytes `send`
  has queued; what `send` has not queued is by `LocalInv` the interval
  `Handed + 1 .. copied`. Order and partition of the concatenation follow.
  `Exact` (`Spec => []EchoExactUnlessLost`, only an incomplete `::send` loses
  bytes): an increasing sequence that is a partition of an interval with nothing
  lost is the interval. `Refinement` (`Spec => EchoesInOrder`): each step is a
  `Take`, an `Echo`, a `Close` or a stutter of `LossyEcho`; that `Echo` adds only
  larger numbers is the order invariant.
  `RestOfLoss` (`Spec => []OnlyRestOfLossStays`) is inductive as `StayInv`:
  `sendBuffer` always holds the last bytes `send` was given; outside
  `writeToSocket` they are one run, at the start of the memory, behind a lost byte;
  and within `send` they are fewer than what this call has put, so the lost byte is
  one of the call's own. A `put` into an empty buffer leaves at most two runs, one
  into such a rest a single one, which the next write takes whole.
* **`NPollProofs`.** Lemmas, no theorem: each operation of `NPoll` keeps
  `PollInv` (the table is current, no event is stale) under conditions on the
  events that still wait. The lowest free descriptor exists because a set of
  naturals has a least element.
* **`EchoServerProofs`.** `Typing`, `Current` (`Spec => []TableIsCurrent`), `Fresh`
  (`[]NoStaleEvent`), `Owned` (`[]SocketsHaveOwners`) and `FirstLoopEnds`
  (`[]LoopLeavesNothing`) from `Inv`. To apply the lemmas one needs that an event
  tells its owner and is the only one for its descriptor; to close a connection
  without orphaning another, that a client has one descriptor
  (`OneDescriptor`), which a new one has because the backlog has it once
  (`OneConnection`); and `StdinInv` and `RoundInv` say in which loop stdin and
  the listening socket are in use. `Separate` (`Spec => EachOnItsOwn`) takes each
  action from the side of one client. A step that changes
  nothing of whether the client has come, hung up, waits in the backlog, is held,
  watched, armed or has an event in the batch is a stutter of its connection
  (`Unseen`). Which descriptors are its own follows from `Inv` (`View`), so a step
  that opens or closes others leaves it alone (`Kept`), and so does one that takes
  somebody else's event, because no event is stale (`TakenFrom`). `Sane` (who
  hung up is still held or waits, who is armed or handled is watched) is an
  invariant of `Connection` itself, carried along. What remains is this client's
  own event, its acceptance, and the end of the loop.
* **`EchoClientProofs`.** `NoStaleEvent` does not hold here (`client_batch`), so
  the invariant of `NPollProofs` is not one of this program; in its place stand
  `TableInv` (there is one socket, and the table has stdin, it, or both), `FlowInv`
  (what has not begun before the loop and what is over when it ends) and
  `GoneInv` (only the server's end closes the socket under lines that follow).
  `Current` (`[]TableIsCurrent`), `Typing`. `InOrder` (`[]InputInOrder`) is inductive
  next to the types: what was given to `send`, is queued and still waits are one
  after the other the numbers of the lines, and each step moves one line across
  one border. `NoLineLost` (`[]EndLosesNoLine`): when the client is done and stdin
  has not failed, `FlowInv` has stdin read and `inpQ` empty, so that sequence is
  `handed` alone; and `Given`, that a line cut or dropped was given to `send`.
* **`NSockOpenProofs`.** `Typing`, `NoLeak` (`[]NothingLeaks`), `Ready`
  (`[]HeldAreReady`), `FirstUsable` (`NoAddressSkipped`, an action property).
  `Inv` adds what has been done to the socket of the attempt at each `pc`, that a
  descriptor brings no mark from an earlier life, and that the addresses already
  passed were of no use unless no descriptor is free.
* **`CommandServerProofs`.** `Typing`; `EofIsLast` (`Spec => []EofComesLast`) from
  `EndInv`, which adds what `getline` has seen; `InOrder`
  (`Spec => []RequestsInOrder`), inductive next to the types: the proof is about
  how a line moves between three sequences whose concatenation stays the same;
  `Waits` (`Spec => []WaitsOnlyInsideLine`).

Only model-checked: the liveness properties (`PutTerminates`, `BytesAreRead`,
`PeerCloseNoticed`, `BufferFlushed`, `BacklogEmptied`, `HangupsReleased`,
`StdinEndsServer`, `EofEndsClient`, `ServerEndNoticed`, `CallReturns`,
`EofNoticed`), which need fairness and `ENABLED`, out of the prover's reach. Their
safety cores are proved: `NoEdgeMissed` under the first three of the connection,
`KeepsItsPart` and `EachOnItsOwn` under `HangupsReleased`. Every invariant and every action property that a passing run
checks is also a theorem. The other way round, `SecondCopyStartsAtZero`,
`EchoExactUnlessLost` and, for the client, `TableIsCurrent` are stated by theorems
and cost no run of their own. The violated properties are counterexamples and need no proof.

## 5. What the work says about the code

* The throttle of `ConnServer` (`mRecvPaused`, `setRecvFn(nullptr)`,
  `onSocketDrain`'s re-arming) is dead code: `send` never answers a short count.
  The loss of bytes in `writeToSocket` is the other side of the same coin. If
  that is repaired by keeping the unsent part, the throttle comes alive, and
  with it the flag that all connections share (`echoServer.cpp` 104), and
  `onClientSocketDrain`, which does not retry `inpQ`.
* `onConnect` calls `setRecvFn`, which already reads, before `setErrorFn`. An end
  of stream met there is reported to nobody; `PeerCloseNoticed` holds only
  because the registration itself put the descriptor on epoll's ready list.
* Closing a socket deep below `recvFromSocket` or `writeToSocket` is harmless to
  the records of the connection: the following `recv`/`send` fail on descriptor
  -1 and `end()` of a closed socket does nothing. But `end()`, "gracefully" by its
  comment (`nsock.h` 183), drops what is queued, also at a client's half-close.
* A reset by itself does not raise SIGPIPE: the pending error is answered first.
  It takes a FIN before the reset, or a reset that falls into `onConnect`.
* A connection that epoll refuses is read once, in `onConnect`, and never again: its
  bytes, its end and what waits in `sendBuffer` are noticed by nobody, and its
  descriptor is held until the `serverLoop` that accepted it ends
  (`npoll.cpp` 34-36). The properties that need an event except it.
* What stays in `sendBuffer` when `send` returns is always the rest of bytes of
  which some are lost already (`OnlyRestOfLossStays`): no byte that `sendBuffer`
  keeps for later has the byte before it reach the client.
* The comment of `echoClient` (72-73) wants a line that does not fit saved for the
  drain event. `send` answers the full size, so nothing is ever saved: a line
  that meets a full socket is cut under a server that is there and reading
  (`cut`), and the client does not learn of it.
* In the server a batch never holds a stale event: a connection's callback closes
  only its own socket, and the listening one is closed outside the loop. That,
  not `npoll`, is what keeps `npoll.cpp` 112 safe there; the client breaks it, at
  the end of stdin and also when `send`, called for a line of stdin, meets a
  reset and ends the socket whose event waits in the same batch.
* `serverLoop` clears `mConnections`, but connections that epoll watches live on
  through their callbacks, and the second `serverLoop` goes on serving them. At
  exit they are destroyed with the static table they would remove themselves
  from (`npoll.cpp` 70-81).
* An empty line ends a `serverLoop` as the end of stdin does (`EofComesLast`
  excepts it, and no property forbids it); and raw input after
  the last newline is dropped at the end of stdin (`commandServer.cpp` 29, 35).
* `echoClient` notices that the server is gone but does not exit: it goes on
  reading lines and drops them, until stdin ends.
* Requests are never lost by the buffering of stdin, only delayed: at the
  hang-up they are handled one per event, and the end comes after them.
* Some branches cannot be taken: "already being monitored" (`npoll.cpp` 125), a
  failing `EPOLL_CTL_DEL`, `setnonblocking`'s "already set", and the callers'
  handling of `npollAddFd` and `npollRemoveFd` errors. The failure paths of
  `listen` and `connect` do not free the list of `getaddrinfo`.

## 6. Not modelled

* `echoTest.cpp`, `src/test`: read for what they promise.
* `src/include/gtest`: vendored headers of the unit-test framework, nine tenths
  of the lines under `src/`; no program runs them. The map covers half of
  `src/nsock`; what is left there are declarations, includes, logging, formatting
  of statistics and the unit tests.
* `util`'s log file; the timeout of `epoll_wait`, whose return without events
  changes nothing (with an empty `fdMap` the loop polls without waiting, which
  costs time only); `epoll_create` failing before `main`; the destruction of
  static objects after it.
* Memory: the list of `getaddrinfo`, the growth of `epollEvents`, `bad_alloc`.
* Signals other than SIGPIPE, and `EINTR` (no handler is installed).

## 7. What is left

The parts of the program are modelled, and their safety is proved. Worth doing
next: if `writeToSocket` is repaired to keep what `::send` did not take,
`EchoSession` with that repair, where `NeverPaused` fails and the shared
`mRecvPaused` becomes the subject; and a `Connection` for the socket of
`echoClient`, whose `SocketEvent` takes its part of the contract as given (a socket
that stays open has seen no end, or is on the ready list): `ServerEndNoticed`
rests on it.
