# Formal models of the coroutine HTTP server

The repository is a small HTTP server written as coroutines: `main` opens a
listening socket, a scheduler waits in `epoll_wait` and resumes one coroutine
for each socket that is ready or whose timer went off, and each coroutine reads
a request, answers it and, on a keep-alive connection, starts again. This
directory holds TLA+ models of it, TLC configurations that check them on small
instances, and TLAPS proofs for instances of any size.

To run a model: `tlc -workers 2 -config MCServer.cfg MCServer`. To check proofs:
`tlapm ServerProofs.tla`.

## 1. The system

| component | source | state | operations |
|---|---|---|---|
| Events | `events.hpp` | mask believed in force, changes asked for | `set_ev`, `enable_ev`, `disable_ev`, `sync_ev` |
| Scheduler, Service | `scheduler.hpp`, `scheduler.cpp` | epoll instance, `fdset`, timers, `service_list`; of each Service its socket, Events, `er_flags`, `timerx`, two list hooks | `run`, `add`, `chg`, `del`, `set_timer`, `Service::yield`, `read_sock`, `write_sock`, `terminate` |
| Coroutine | `coroutine.hpp` | a stack, the caller | `yield`, `yield_with` |
| Event timer | `evtimer.hpp`, `circarray.hpp`, `utility.cpp` | a circular array of intrusive lists, its epoch and increment | `insert`, `expire`, `advance` |
| Timespec arithmetic | `utility.hpp` | none | comparison, `+=`, `-=`, `millisecs` |
| HttpBuf | `httpbuf.hpp`, `httpbuf.cpp` | a string stream, state of the header scanner | `have_end`, `read_header`, `read_body`, `read_chunked`, `parse_headers`, `parse_xheaders`, `write`, `reset` |
| Server | `server.cpp` | locals of `sock_func` and `listen_func` | `main`, `listen_func`, `sock_func`, `exit_coroutine` |
| Field parsing | `parse.hpp` | none | `parse_fields` into words and into maps, `parse_tomap` |
| Gzip | `gzip.cpp` | a `z_stream`, an input and an output buffer, mode | `compress`, `decompress`, `finish`, `write_callback` |
| Sockets | `sockets.cpp` | none | `import_ip`, `listen` |
| IOBuf, `coroutine.cpp` | | | a buffer with `reset`, an example |

**How they interact.** There is one thread. The scheduler and the services
transfer control to each other: `run()` resumes a service from its dispatch loop
or from the callback of a timer, and the service gives control back where it
would block. What is shared is the Service object: the scheduler sets its
`er_flags` and `timerx`, the service its `Events`, and the scheduler brings the
kernel's mask up to date after each resumption. The kernel holds a bare pointer
to the Service in `data.ptr`, `service_list` and the timers hold hooks inside it,
and the service itself asks for its own deletion. `HttpBuf` calls back into
`Service::read_sock` and `write_sock`, which yield.

**What is hard.** Pointers to a Service are held in three places while it may be
deleted in a callback; descriptor numbers and addresses are reused at once;
a timeout is an exception thrown out of whatever call the service waits in;
the change mask is applied again at each yield; errors of reads and writes are
ignored in places; the kernel moves between any two steps. The list with lines is
under `hazards` in `PROJECT.json`.

**What makes each part correct.** Events and Scheduler: no dangling pointer, no
leaked or doubly owned descriptor, masks in step with the kernel, a timeout
delivered to the wait it belongs to. Server: no exception leaves a coroutine,
every held-up response is timed, what lapsed strikes, resets and input are served. Timer: nothing fires a granule early or survives a granule late,
no index outside the array. HttpBuf: a header end is found where there is one and
only there; a body and the headers behind it come out as they were meant, however the
reads cut them, without waiting for what will not come; what is written is the buffer.
Field parsing: what is in the text comes out, and parsing ends. Gzip: no buffer is
left, no byte is lost, no assertion fails, every call returns. Sockets: a server that
runs listens where it was told and nowhere else, and a failure leaves nothing open.

## 2. Modules

| module | models | extends |
|---|---|---|
| `Events` | `events.hpp` as pure operators on a record; flags are a set, `^` is symmetric difference | |
| `Services` | abstract: what the scheduler promises the functions of services | |
| `Scheduler` | `Scheduler::run` and the life of Services, for service bodies that call the interface in *any* order | `Events`; instance of `Services` |
| `Connections` | abstract: what the server promises its clients | |
| `Server` | `server.cpp` on the scheduler, with the clients and sockets | `Scheduler`; instance of `Connections` |
| `Timespec` | `utility.hpp`'s operators on `timespec`, as pairs of integers | |
| `TimerSet` | abstract: what a timer promises | |
| `EvTimer` | `evtimer.hpp` on `circarray.hpp`, in the rounds in which `run()` uses it | `Timespec`; instance of `TimerSet` |
| `HeaderEnd` | `HttpBuf::have_end` in `read_header`'s loop | |
| `HttpBody` | `parse_headers`, `read_body`, `body`, `read_chunked`, `parse_xheaders`, `reset` | |
| `HttpWrite` | `HttpBuf::write` over a socket that takes a part or fails | |
| `HttpBuf` | the three in the order in which `sock_func` uses them, request after request | `HeaderEnd`, `HttpBody`, `HttpWrite` |
| `Gzip` | class `Zlib` and the functions of `gzip.cpp`, over any zlib | |
| `Fields` | `parse.hpp` | |
| `StartUp` | `main` up to `run()`, and `sockets.cpp` | |
| `*Proofs` | theorems about the module of that name. Those of `Events` are in `SchedulerProofs`, of `Timespec` in `EvTimerProofs`, of `HeaderEnd` and `HttpWrite` in `HttpBufProofs`; `HttpBodyProofs` has the lemmas of the theorems about `HttpBody` in `HttpBufProofs` | |
| `MC*` | constants and symmetry for TLC; `MCLibrary` also puts `EvTimer`, `Gzip`, `Fields` and `StartUp`, which share nothing, into one specification in which a behaviour is that of a timer or a call of one of the others | |

### Scheduler

A step is what runs between two points at which the kernel or another coroutine
can change what the program sees. `cpu` says who has the processor; `co[s]` is
the stage of a service's life. The phases of one round of `run()` are the value
of `phase`:

- `wait`: `EpollWait(report)` is lines 93-105: `epoll_wait` returns any non-empty
  report the kernel may give, `er_flags` accumulate, the services are queued.
  `EpollIdle` is the branch for 0 or an error, which does nothing: in particular
  it expires no timer.
- `expire`: `Expire(s)` pops one due service of timer `tx` and resumes it;
  `ExpireDone` goes on. Which services are due (`lapsed`) is abstract here and is
  the subject of `EvTimer`.
- `dispatch`: `Dispatch(s)` pops one queued service and resumes it.

`Resume` is the transfer together with what `Service::yield` does first on the other
side: a coroutine entered for the first time starts at the top of its function and
leaves `timerx` as it is; another takes the mark and throws. `Yield` is the
transfer back together with what `run()` does after its call: the dispatch loop
disables the errors seen, the callback does not; both sync and call `chg`. `ExitDel`,
`ExitClose` and `Terminate` are the three calls of `exit_coroutine`. A Service is
its address and descriptors are numbers that are reused, so a pointer left behind
would lead to a *different* object: that is what `NoDangling` forbids.

`Services` says what all that is for: a service runs until it waits or leaves, is
woken for an event that was reported or for a timer, and gets a Timeout only if one is
`owed` to it. It knows no lists, hooks, masks or epoll. The mapping (`Promise` in
`Scheduler`) takes as alive what is on the heap, as started whose function was entered
(`Begun`), as called what is in `service_list`, and as owed to a service the Timeouts of
its node in a timer's list and of its mark (`Owed`). A service that its timer starts keeps
the mark and is still owed that Timeout: the promise allows it, and the code keeps no other.

`service_list` is a set, as a descriptor is reported once, the kernel chooses the
order and the list is drained before the next wait.

### Server

`at[s]` is the place of a coroutine in its function. The bytes of a connection are
tokens: a piece of header, the end of a header with what the parsers find in it
(body length, chunked, keep-alive), a piece of body, the end of a chunked body.
One action is one system call with what the code does with its result, or one call
of the scheduler's interface, taken from module `Scheduler`. A system call that would block
is a step (`Blocks`) and the yield that it leads to another (`Yields`): in between the
client may send, the network take bytes or another connection arrive. `Lowest` is the
kernel's choice of a descriptor. `peer[c]` tells a reset
that is still to be reported (`rst`) from one that was (`dead`): a write to the
second raises SIGPIPE. `Header` stands for all that `parse_headers` finds; `chunked` is kept in a variable because the code keeps it across requests.

`Connections` says what all that is for, as a client sees it: connections are accepted in
the order in which they came; what a client sends is read in its order and goes to its own
request; there is one exchange at a time; and a response is made when what was read
is a whole request by its own header, or when the client ended in its body and all it sent was read. It knows no
services, descriptors, timers or places in the code, and lets a connection be given up at any
time. The mapping (`Exchange` in `Server`) finds the coroutine that has the connection by its
descriptor (`Serves`, `ServerOf`) and takes what that is doing as the stage of the exchange (`DoesAt`,
`ExchangeStage`) and its `hbuf` as the request. That a body read as chunked although its header
does not say so (finding `chunked`) still ends a whole request is part of the promise:
a chunked end suffices in `WholeRequest`.

### Timespec, EvTimer and TimerSet

The array is a function from objects to indexes. Times are timespecs, with a second of
`Thousand` milliseconds of `Million` nanoseconds each, so that TLC can have short ones;
one step of the clock is a nanosecond. `epoch` may hold a full second of nanoseconds, as
`+=` carries only more than that (`Almost`). `asked` is a history variable with the time
each object was armed for, and the refinement mapping turns it into the abstract
deadline. A service that a callback resumes arms the timer while the epoch is still that of the
round before; `prompt` records whether this round began within `MaxGap` of that one, and
callbacks arm only if it did. The condition is one on the load, not on the code: with timer 0
of the server (two seconds, server.cpp:247) and its longest delay (60 ms, server.cpp:192) it stands for rounds less than
1.94 s apart. A larger `MaxGap` is finding `evtimer_abort`. `Quot` is C++ division.

### HeaderEnd, HttpBody, HttpWrite, HttpBuf

The text of a header is any sequence of CR, LF and other characters; reads and blocks
cut it anywhere. `HttpBody` takes over once the end is known: `ParseHeaders` chooses a
message and how much of it is in the stream, and whether a line was too long for
`getline`, which sets the stream's failbit for the rest of the request. The reader is chosen as `sock_func` does, by a
`chunkedf` that stays set for the rest of the connection (`ChunkedOnce`), so a body with a length is
read as chunks after a chunked request, whatever that makes of it. `at` is the
place in `read_chunked` or `read_body`: the kinds of line (`size`, `eol`, `trailer`,
`skip`) share `get_char` and `got_eol`, which `TakeChar` is; `data` and `rest` are the
two halves of a chunk. `Read` is the callback, and its guard `~ReadAhead` is the condition
of the loop around it in each place. What the client means by a message (`content`,
`trailers`) is given with it, and so is its layout: `chunks` has the offsets of each
size line and of its data, `lines` those of the trailer. `MessagesWellFormed` says what
such a layout has to do with the text, by the rules of HTTP and without the code's: sizes are hexadecimal
numbers of any length, extensions any characters. What the code cannot do is in the properties, not in the
assumptions: `Understood` asks that the reader is the one the header declares (`ReadAsDeclared`) and that
counting in tens gives the sizes (`Countable`). A written byte is its
offset in the buffer, so a byte that is sent twice or out of order shows on the wire.

### Gzip

Bytes are counted, not kept. `Deflate` and `Inflate` say what `zlib.h` allows a call to
do: how much it eats and makes and what it returns; `Code` takes any of it and applies
the code's assertion. `job` is the call; `len` is the length of the stream that is
given, so that `given < len` is a stream cut short and `given > len` one with
something behind it; in a `corrupt` one `inflate` may report `Z_DATA_ERROR` anywhere, and does at the
latest at its end.

### Fields, StartUp

`Word` is a round of the loop of `parse_fields` into words. Into maps a round is
`StartMap`, which enters `parse_tomap`, a `Pair` for each round of the loop there, and
`EndMap`. `rounds` counts the rounds of all these loops. The characters are those the
code tells apart. `out` has what is inserted, in order; the server's container of words keeps those that are
alike up to case once (server.cpp:38). In `StartUp` an address is a text that parses or not, and `af` is
zero until one does: `socket` refuses family zero, which is what keeps the server from
binding to every interface although `import_ip`'s result is ignored.

## 3. Runs

| run | what it shows | bounds |
|---|---|---|
| `scheduler` | the safety of the scheduler under services that call the interface in any order, and the inductive invariant `IInv`; it implements `Services` | 2 services, 2 descriptors, 1 timer, one plain flag and one that is an error and forced |
| `server` | timeouts are caught, held-up responses are timed; liveness: input is read or the connection closed, a lapsed timer strikes in the next round | a listener and two connections at the same time: one client sends a request of three pieces in any parts and may be slow to take the response, the other sends nothing and may end or reset; `epoll_ctl` may fail for each |
| `server_requests` | the server refines the scheduler; `ServerInv`; nothing is answered without a header | one connection, two keep-alive requests, plain or chunked, in any parts, short writes, two timers |
| `server_live` | the server implements `Connections`; liveness: a reset connection is closed, the backlog is served | a keep-alive client with two requests, a slow one that may not take its response, descriptors for one at a time, each request sent whole, one of them chunked, none with content |
| `http_buf` | header ends, bodies, trailers and writing, over any number of requests | every text up to 5 characters, blocks of 3; 11 messages in any order (plain or chunked, lines ended by CR LF or LF, data that looks like a size or an end of line, leading zeroes, the sizes `a` and `10`, extensions with and without a digit, trailers that are forbidden and not, a next request behind it), reads of 4; buffers up to 5 bytes, blocks of 3 |
| `library` | the array implements the timer, no index out of range; gzip's buffers, assertions and termination; parsing of header values; start-up | 2 objects, seconds of 4 ms of 2 ns, a range of two seconds in granules of 2 ms, every phase of the clock, dispatched services and callbacks that arm, rounds up to 7 ns apart for those, arming within 2 ns of the round's clock reading, 4 s; inputs and streams up to 7 bytes, whole, cut or corrupt, over buffers of 3, output up to 10; every text up to 5 characters of 6 kinds; up to 3 addresses |
| `interest`, `chunked`, `sigpipe`, `evtimer_abort`, `chunk_size`, `http_write` | violations, section 5 | as above, smaller |

Why the bounds are enough to see what matters: two services are what it takes for
one to be deleted, or its address reused, while a pointer to the other is in a
list; two clients over one free descriptor reuse a number while the first
registration may be alive; three pieces of a request put a yield inside a header,
between header and body and inside a body; a text of 5 characters holds every
terminator at two offsets and straddles a block of 3; 4 s take the array of 5 slots
round more than once. Both connections of `server` are armed when they are accepted, lapse together or apart, and
are resumed by callbacks of which one ends its connection and another arms again. `ImplementsConnections` is checked where two clients share one
descriptor and one service's address, so that each is used again; requests are sent whole there,
the chunked one may be read in two parts, and two kept requests follow each other. It also holds in the bounds of
`server_requests`, where requests have content and are sent in any parts, and of `server`, where both connections
are open at the same time. The scripts of `server_live` are short because
TLC evaluates `ENABLED Thread` for every step and every property it checks under fairness;
requests with content are in `server` and `server_requests`. A read of 4 is smaller than every chunked message and larger than
a chunk, so that chunks are cut and reads hold more than one; 7 bytes take gzip's
buffers of 3 through a fill, a remainder and a rewinding. `MaxSecs`, `MaxLag`, `MaxWire`,
`MaxMade` and the rounds of `Fields` are the only bounds on counters; `MaxWire` cuts the
endless loop after a short write, and the bound on rounds, one more than the two for each
character that a text which ends can take, the endless loop of `parse_fields`. The 11
messages meet `MessagesWellFormed`, which TLC evaluates.

Deadlock checking is off where the clients and the clock may have nothing left
to do, a bound stops them or the functions return; it is on for `scheduler`.

**Fairness.** `FairServerSpec` asks only `WF(Thread)`: the one thread of the process
takes a step whenever it can, the kernel's `epoll_wait` returning when a
descriptor is ready. The clock, the clients and the network owe nothing, so
no liveness property of connections rests on a timeout. `LapsedStrikes` starts where the
clock has passed a slot and some descriptor is ready: it says what the code does
promise, a strike in the next round with an event, and not a strike in time, which is
false on an idle server. `GzipEnds` assumes that the thread goes on (`WF(GzipNext)`).

**What the liveness properties except.** `InputServed` excepts a client that does not take
its response (`txfull`) and a coroutine that epoll has not been asked to wake (`Unheard`): after
a second yield on the same wait (finding `interest`) or a refused `epoll_ctl`, input is lost
until a timer strikes in a round that another descriptor brings, and without the exception the property is false in this
run. What it says holds where the code
has a chance: input that comes between the read that found none and the `epoll_ctl` behind the yield, at any
place of the other coroutine, in the round that expires either's timer. Only `MayEnd`, the silent client,
ends its connection here; that resets are served is in `server_live`. `LapsedStrikes` begins in
a round with an event, as idle rounds look at no timer. The runs leave out short writes:
after one, `HttpBuf::write` may loop for ever without yielding (finding
`http_write`) and starve the thread.

## 4. Proofs

Proved for any sets of services, descriptors, flags, clients and scripts, any number
of timers, any length of text and buffer and any block sizes, under the assumptions
named in the modules (`SchedulerAssumption`, `FlagAssumption`, `ServerAssumption`,
`HeaderEndAssumption`, `HttpBodyAssumption`, `MessagesWellFormed`, `HttpWriteAssumption`,
`TimespecAssumption`, `EvTimerAssumption`, `GzipAssumption`, `FieldsAssumption`,
`StartUpAssumption`). All but one say what kind of thing a constant is, or what any run of
the program gives. `MessagesWellFormed` says that clients send what they mean by the rules of HTTP,
and further that no line has a CR but at its end.

- **Scheduler.** `Inductive: Spec => []IInv`, and from it `TypeCorrect`,
  `NoUseAfterFree`, `NoFdLeak`, `TimeoutsDelivered`, `MasksInStep`. The properties are not
  inductive by themselves. `NoDangling` needs `LiveRefs` (what is queued or linked is
  live, and nobody runs while `run()` waits), `LeavingRuns` (a service that has begun to
  leave keeps the processor until it is deleted, so nothing sees it half gone) and
  `Owned` (a live service's descriptor is open until `ExitClose`, and epoll's pointer for
  a descriptor leads to its owner). `LeftoverTimeoutOnlyAtStart` needs to speak of services
  that run or leave (`MarkOnlyAtStart`), `MaskInStep` of objects never synced
  (`MaskAgrees`). `RequestsCompose` and `SyncAlternates`
  have the algebra of symmetric difference they use. `SchedulerImplementsServices`: each
  step of the scheduler is one of `Services` or a stutter. It takes `IInv` and `Drained`,
  that `service_list` is empty when `run()` is about to wait, so that a report finds no one
  still called; `OwedCounts` has what each change of a node or a mark does to what is owed. The
  case that matters is `ResumePromised`: an entry that leaves the mark, one that takes it, and one by
  epoll that finds a mark all stay within what is owed.
- **Server.** `ServerImplementsScheduler`: every step of the server is a step of the
  scheduler or a stutter; hence `ServerIsSafe` and `ServerImplementsServices`. On top of it `ServerInv` is inductive:
  `TimeoutsCaught`, `WritersAreTimed`. The step from a timer's mark to an
  uncaught exception is closed by `WaitsInTry`, `ListenerUntimed` and `NewAtStart`; that a coroutine yields
  only out of a call that may block is `BlockedInCall`.
  `ServerTypeCorrect` needs that the descriptor of a coroutine is a client's until it is closed
  (`Connected`), which rests on the scheduler's `Owned` and `FdsOwned`: a descriptor that is
  accepted again belongs to nobody else.
  `ServerImplementsConnections`: each step of the server is one of `Connections` or a stutter.
  It takes `ConnInv`: a client is in the backlog once (`OnceWaiting`) or on one descriptor
  (`OnceServed`), never both (`WaitingAreHere`), and a coroutine that was not entered has read nothing
  (`StartsEmpty`). With `FdsOwned` a client then has at most one coroutine, so that the `CHOOSE` in the
  mapping has one value: `Mapped` says what the mapping is in each case, and the rest of the
  proof argues from it (`OneCoroutine`: a step of one coroutine leaves the other clients as they were).
  `ReadToWhole` is why reading ends with a whole request, `CoroutineServes` has the steps of a coroutine,
  `ServerServes` all.
  Two theorems are about findings of section 5: that nothing else breaks the promise.
  `OnlyResetsKill`: if no client resets its connection (`NoResets`), SIGPIPE does not end the process,
  whatever else goes wrong. `AlikeBodiesAsDeclared`: if the requests that a client may send are all chunked
  or all not (`Alike`), a body is read as its header declares it. Its invariant `AlikeInv` follows the
  header ends of a client from what it has to send over what is on the way to `hbuf` and
  `chunkedf` of the one coroutine that has the connection (`Uniform`), through descriptors and addresses that are used again.
- **HttpBuf.** `FoundIsAnEnd` and `HeaderEndInvariant`: the scanner's state describes the
  last characters it took (`StateFits`), across blocks and reads. `PlainEndsAreFound`: in a
  well-formed text the state is a function of those characters (`PlainInv`: `StateOfCrLf`,
  `StateOfLf`), and no end lies before them. `SuccessMeansWritten`, `WriteTypeCorrect`: the
  get position reaches the end only in a call that took everything at once.
  `WholeWritesAreExact` is the other side of finding `http_write`: if each call takes the whole buffer
  (`TakenWhole`: it fits a block and the socket has room) the wire is exact after each step.
  `HttpBodyInv` says where in the code a body can be and that the trailer lies before the get
  position. `BodiesComeOut`, `NoReadBeyondMessage` and `TrailersFound` are about what comes
  out of a body. Their invariant `ContentInv` ties the code's place to the message's:
  in a size line, the chunk whose line it is and what its digits before the get position count;
  in data, the chunk and how much of it is out; in the trailer, the line. So `out` is a first part of
  `content` after each step (`TakeCharContent`, `CopyChunkContent`), the end of the line or chunk lies within
  the message wherever the code reads (`EndAhead`), and `parse_xheaders` passes from line to line
  of the trailer (`TrailerNames`). A recursive function over the
  text would need induction here; the layout given with the message, and the well-ordering of the numbers
  (`Least`, from the library's theorem about well-founded relations), do without.
  The three are about any sequence of well-formed messages, and speak of a message that is `Understood`: of a
  body that the header declares as `chunkedf` has it, and of size lines that count the same in tens. The first fails only after a chunked request and
  the second only with sizes or extensions of more than one digit: findings `chunked` and `chunk_size`. Of any other
  message it is proved that positions stay consistent (`HttpBodyInv`) and that the next request is read anew.
  `HttpBufInvariant` puts the three together under `HttpBufSpec`: they hold over the
  requests of a connection, as `ResetScan`, `Reset` and `StartWrite` restore them
  (`BodyTypeCorrect`, `EachRequestsEnd`, `EachResponseWritten`).
- **Timespec.** `PlusAdds`, `MinusSubtracts`, `LessEqCompares`, `ComparisonsAgree`,
  `MillisecsRoundDown`: on values as the clock gives them, and where the timer needs it on
  values with a full second of nanoseconds, the operators compute what they should on
  the numbers that the timespecs stand for.
- **EvTimer.** `TimerTypeCorrect` for every timer. `InRangeNeverAborts` and `InRangeIsTimerSet` for
  a granularity below a second and behaviours in which each time that `insert` is asked for is within the
  range from the epoch on (`InsertsInRange`), whether a service that was dispatched asks or one that
  a callback resumed. From them `FittingTimerNeverAborts` and `FittingTimerIsTimerSet`, without a condition on
  behaviours, for timers that `Fits` describes: each delay, with the lag of a round and the gap between rounds after
  which callbacks may still arm, is within the range. Callbacks do arm under `Fits`, as the server's do; the gap is
  what their times are late by (`EvTimerInv`). The invariant
  has the epoch ahead of the round's clock reading while services arm (`EvTimerInv`),
  so that `insert` counts from less than an increment back; `PlacedInv` says that an
  object in slot k was armed for a time within the k-th increment from the epoch or
  less than one beside it. The head's objects are then due (`HeadIsDue`), and what is
  left when `expire` ends is not overdue (`NoneIsOverdue`): the two guards of `TimerSet`.
- **Gzip.** `GzipTypeCorrect`, `FinishDelivers`, `ProperCallsSucceed`, for buffers of any size and
  any behaviour `Deflate` and `Inflate` allow, for corrupt streams too, of which `ProperCallsSucceed` says nothing. `GzipInv` relates the place in the code to what
  is free in the output buffer and left in the input (`Places`): that is why zlib is not
  called with nothing to do, the case its assertion would catch.
- **Fields.** `ParsingIsBounded`, `EveryWordIsFound`, `EveryKeywordIsFound`, for texts of any
  length. `SpanFinds` and `UpToFinds` say what `strspn` and `strcspn` return, with `Least`.
  `PlaceInv` keeps `source` at an edge of a word, `RoundsInv` has the rounds so far pay for the
  characters passed, with one more for a field that was just entered. `WordsInv` says that the container
  has the words that `source` has passed, each as often, and `MapsInv` that the maps do, the one being filled included,
  with the value of the last pair that gives one.
- **StartUp.** `RunsListening`, `OnlyGivenAddresses`, `NoSocketLeaks`, for any command line.
  `StartUpInv` says what is settled of the addresses done with and where in `listen` the
  current one is; `socket` refusing a family of zero is what `OnlyGivenAddresses` rests on.

Leaves are split until each is proved in a quarter of the prover's usual time, so that a slower
machine proves them too.

Only model-checked: liveness (`ResetReclaimed`, `BacklogServed`, `InputServed`, `LapsedStrikes`,
`GzipEnds`), which the provers do not reach. Every other property of a passing run is a
theorem; those of the timer need the range, without which they are false. Of the findings' properties
`WireIsContents`, `WriteFailureReturned`, `ChunkedAsDeclared` and `NeverAborts` are theorems under a condition
that says when they hold; `InterestAsAsked` and `ChunkSizeRead` are only refuted.

## 5. Where the code does not do what it says

1. `interest`: `sync_ev` (`events.hpp:28`) does not clear the changes it applied, so a
   coroutine that yields twice in one wait toggles its mask back to nothing. A
   request that arrives in parts is left waiting.
2. `chunked`: `chunkedf` and `transfer_encoding` are not reset for the next request
   of a keep-alive connection (`server.cpp:131`).
3. `sigpipe`: errors of reads and writes are ignored and the next write to a reset
   connection ends the server (`server.cpp:193`).
4. `evtimer_abort`: `insert` lets an index equal to the array's size through
   (`evtimer.hpp:79`).
5. `chunk_size`: the hexadecimal digits of a chunk's size are accumulated in base 10 (`httpbuf.cpp:240`), and those of a chunk
   extension with them (`httpbuf.cpp:239`): the chunk `10` of 16 bytes is taken for one of ten.
6. `http_write`: `write` counts from where it was called (`httpbuf.cpp:474`): a short
   write, or any buffer over 2048 bytes, is sent again from near its start.

Also seen, and without a run of its own: `del` never finds its descriptor, as `add`
does not fill `fdset` (`DelDeregisters` in `Scheduler` is false; `close` does its
work); timers are looked at only when some descriptor is ready
(`scheduler.cpp:94`); a service that the timer starts arms it from within the
callback, when the epoch is as old as the last round (`server.cpp:192`): of a client that sends its
request more than the range of two seconds after it connected, with nothing else going on, the output timer is
clamped into a list that the same `expire` still empties, strikes at once and closes the keep-alive
connection (`ImplementsTimerSet` is false with a larger `MaxGap`, also where nothing aborts); a granularity of a second or more is counted twice
(`evtimer.hpp:44`; `ImplementsTimerSet` is false with `Granularity >= Thousand`; `main` makes such
a timer and does not use it); `have_end`
misses an end that follows a stray CR or LF, such as `\r\r\n\r\n` (`EndIsFound` is false
without the condition of `PlainEndIsFound`).

In `HttpBody`: `body()` gives out what followed a plain body in the stream, and `reset`
drops it, so a pipelined request is lost; after a header line as long as `max_hdrlen` the
stream is failed, the rest of the header and the body are lost, and a chunked body
is read until the client closes; after a chunked message that is cut short
`parse_xheaders` looks where an earlier request had its trailer. A header value
is cut at its first blank (`httpbuf.cpp:352-353`), so `Accept-Encoding: deflate, gzip` is read as
`deflate,`; values are left out of the model.

In `Gzip`: `compress` or `decompress` of an empty stringstream passes nothing on, so that `finish` calls
`inflate` on a stream that was never initialised, and its assertion fails; a stream that is cut short
fails the assertion at line 202, a corrupt one that at line 147 or 192; bytes behind a stream that fill the input buffer keep
`decompress` in its loop, as `inflate` eats none of them; `compress` passes 10 to `gzip_init`
whatever its argument `wbits` (`gzip.cpp:250`). `Proper` and the condition of `GzipEnds` are there for these.

In `Fields`: `parse_fields` into words does not skip the CR or LF at which a word ends and
meets it again in each round, for ever (`parse.hpp:46, 50`). Header values are
cut at the end of their line, so the server does not get there.

## 6. Not modelled, and why

`IOBuf::sample`, `ucase_buffer`, `EvTimer::visit` and `coroutine.cpp` are used nowhere in the server, the hash functors hold
no state. `EvTimer`'s copy constructor, which copies no entries, runs only if a ninth
timer is added; its destructor and `Scheduler`'s run when the process ends. Stacks and contexts are Boost's; a transfer of control is a change of
`cpu`; the caller pointer of a service is always the scheduler, and the other way round. Response contents, logging and the values of headers are left out. `main` may
listen on several addresses; `Server` has one listener, `Scheduler` and `StartUp` any number.
Seconds, positions and `hdr_chunklen` (a `short`) do not overflow in the models.

## 7. Plan

1. `Server` over `HttpBody`: that the tokens of `Server` are what `HttpBody` does with characters,
   as a refinement.
2. `hdr_chunklen` with its width, for trailers beyond 32767 characters.
