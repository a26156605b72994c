# A TLA+ model of the distributed server/client file storage

The program is a group of storage nodes (`src/server`) and clients (`src/client`)
that find each other by UDP multicast and move files over TCP. This directory
holds TLA+ modules translated from the C++ source, TLC configurations that check
them on small instances, and TLAPS proofs for every instance.

## Inventory

| Component | State | Operations | What makes it correct |
|---|---|---|---|
| Node storage: `Server::files_in_storage`, `used_space`, the shared folder | the set of names, an atomic 64-bit counter, the directory; two mutexes, one for each | `generate_files_in_storage`, `check_and_reserve_space`, `free_space`, `add_file_to_storage`, `remove_file_from_storage` | the counter is the bytes promised and offered; the set and the folder agree; what is promised fits |
| Upload worker: `handle_upload_request`, `upload_file_via_tcp` | parameters, `to_upload`, `failed`, an `ofstream`, two sockets; one detached thread per request | reserve, enter the name, answer, select, accept, open, read/write, clean up | one worker at a time per name; a failed upload leaves nothing; a successful one leaves the whole file; a worker ends |
| Removal: `handle_remove_request` | locals of the main thread | erase the name, `file_size`, `free_space`, `remove` | gives back what the file was charged with; never hits another upload's file |
| Server main loop: `run`, `handler` | one message buffer, one source address, reused for each datagram | receive, validate, answer or start a thread | a thread works on the request it was started for |
| Files list: `handle_files_list_request` | a packet being filled | append, send when full | every matching name goes out exactly once, in packets of bounded length (it does not: `files_list_incomplete`) |
| Download: `handle_file_request`, `send_file_via_tcp` | sockets, an `ifstream` | answer with a port, send the file | a client that reports success has what was sent; it cannot tell a thread that ended early from one that was through |
| Discovery: `handle_discover_request`, `get_available_space` | none | one read of `used_space`, one datagram | never reports a wrapped difference |
| Message format, `message_validation`, `is_valid_string`, `is_valid_data`, `is_expected_command` | none | pure | accepts what the sender's side builds and nothing a handler cannot take |
| Client: `discover`, `search`, `fetch`, `upload`, `remove` | `last_search_results`, one sequence generator, a socket; threads for fetch and upload | send, collect answers in a window of `timeout` seconds, transfer | an answer is taken only for its request; reported outcomes are true |
| Response window: `is_timeout`, `get_elapsed_time_timeval` | a start time | compute the receive timeout | the window closes; `setsockopt` gets a legal value |
| Sockets: `inet_socket`, `tcp_socket`, `udp_socket` | descriptor, `closed` flag | create, move, close | a descriptor is closed once, by its owner |
| Options, logging, build files | configuration; none | parse, print | ranges match the help text |

**How they interact.** Clients and nodes exchange datagrams, which may be lost,
repeated or overtake each other; an upload or download continues over a TCP
connection to a port the node names. Inside a node, the main thread handles
removals and discoveries itself and starts one detached thread for every upload,
download and list request; these threads share `used_space`, `files_in_storage`,
the folder and, through a reference, the main loop's receive buffers.

**What is hard.** (1) Each operation of a handler that touches shared state is
atomic, its sequence of operations is not: reserve, then enter the name; remove
the file, then give back, then leave the name; erase the name, then remove the
file. (2) A process may die at any of these points, and a restart reads the
folder as it is. (3) Errors come from every socket call and every disk call, and
are handled at different places or not at all. (4) A client may stay away, stop
in the middle or come back with the same request. The list of hazards, with the
line each one bites at, is in `PROJECT.json`.

## Modules

| Module | Role |
|---|---|
| `Units` | sums of bytes, as the cardinality of a set of units |
| `FileStore` | abstract specification: a catalogue of files with the states absent, pending, stored, doomed |
| `Storage` | the storage of one node: start-up scan, upload workers, removal, disk, crash and restart |
| `MCStorage` | instance of `Storage` for TLC (symmetry) |
| `StorageProofs` | totals; type correctness, the inductive invariant and the properties that follow from it; the books (`used_space` balances, capacity is kept); that the node implements `FileStore` until its disk fails |
| `Dispatch` | a client's request, the datagrams, the main loop's buffers, the threads' start, and the answer the client accepts |
| `MCDispatch` | instance of `Dispatch` for TLC (symmetry) |
| `DispatchProofs` | its inductive invariant and the four safety properties |
| `FilesList` | the packing of the list of names into datagrams |
| `MCFilesList` | instance of `FilesList`: names of three lengths |
| `FilesListProofs` | the bound on messages, their lengths, and that a short list is complete |
| `Download` | one fetch, from the request to what the client reports, while the node uploads and removes the name |
| `MCDownload` | instance of `Download` for TLC |
| `DownloadProofs` | its inductive invariant, and that a success means what was sent has arrived |
| `Upload` | one upload of a client: discovery, requests to the servers, transfer, report, with the servers' threads |
| `MCUpload` | instance of `Upload` for TLC |
| `UploadProofs` | its inductive invariant, and what the two reports "uploaded" and "too big" mean |
| `Search` | the client's main thread: search, discover and fetch, and the window for answers |
| `MCSearch` | instance of `Search` for TLC |
| `SearchProofs` | that a fetch asks a server of the last search, and that waits end with their window |
| `Client` | the threads of one client together: the generator they share, two fetches into one output file, the end of the process |
| `MCClient` | instance of `Client`: copies of two lengths |
| `ClientProofs` | its inductive invariant, what the last fetch leaves, and whose results are offered |
| `Protocol` | requests and answers as datagrams: layouts, lengths, byte order, validation on both sides, and the name and port acted on |
| `MCProtocol` | instance of `Protocol`: names around every limit of a message |
| `Sockets` | the process's table of descriptors and the objects that own them, in every handler and client thread |
| `MCSockets` | instance of `Sockets`: two threads, one descriptor too few |
| `CommunicationProofs` | the properties of `Protocol` for names of any length, and those of `Sockets` for any number of threads |

The models meet at the handlers: `Dispatch` ends with a thread's parameters
where `Storage` (uploads, removal), `FilesList` (lists) and `Download` (fetches)
begin with them. They are separate because a thread's parameters, once copied,
are its own. `Download` repeats the steps of `Storage` that a reader of the
folder can see, and leaves the accounts out. `Upload` is the client's side of the
workers of `Storage`: it has the whole client and the points of a worker that the
client can notice. `Search` ends where a fetch's thread, that is `Download`,
begins, with the address that it is given. `Client` puts these threads side by
side and keeps of each what the others can disturb. `Protocol` is below all of
them: the others take a message that passes validation for what was sent, and
`Protocol` says how far that is right. `Sockets` is below `Protocol`: the others
take a socket to be the thread's own.

### How `Storage` corresponds to the code

`used_space` and `files_in_storage` are the members of `Server`; `pc`,
`filename`, `file_size`, `to_upload`, `file` and `failed` are the control point,
parameters and locals of one upload thread; `removal` is the main thread inside
`handle_remove_request`; `folder` maps a name to an inode and `length` an inode
to the bytes on disk, so that a file that is unlinked while a stream writes to it
is still there for the stream. `crashes` and `ioError` are history.

One action is one access to shared state: a step between two lock operations or
system calls. `check_and_reserve_space`, `free_space`,
`add_file_to_storage` and `remove_file_from_storage` are one step each because
each holds its mutex throughout. The scan visits one directory entry per step
(`GenerateFilesInStorage`), and no request is handled before it is through,
because `init` runs before `run`. A read and a write of the copy loop are one
step, because both change only what the worker and its file own; how much of what
was written has reached the disk is open until the stream is closed.
`fs::exists` and `fs::remove` of the cleanup are one step for the same reason,
and a throwing `fs::remove`, which ends the process, is a `Crash` at that point.
Socket calls are a choice of outcomes. After a failed `accept` the code goes on
with an unassigned socket; the model lets it read anything or nothing.

`Crash` forgets the memory of the process, and with it the workers; the restart
scans the folder as the crash left it. `WorkerStep`, `ClientStep`, `RemovalStep`
and `Request` group the actions by who takes them. An operator marked *mutant*
is a plausible wrong version of the definition after it; no specification uses
one.

### How `Dispatch` corresponds to the code

`message_complex` and `source_address` are the two locals of `Server::run`; `main`
is where the loop is. `std::tie` assigns the message and then the address, so
these are two steps after `Recvfrom`; while the message is being assigned a thread
that reads it may see any mixture (`BeingChanged`). `Handler` starts a thread: the
number, and for fetch and list requests the address, are values of the parent
(`work`, `AddressArgument`); an upload's address is `std::ref(source_address)` and
every name is `message_complex.data`, an array that decays to a pointer, so the
thread copies them later (`CopyAddress`, `CopyFilename`), in either order. `ADD`
messages carry a parameter before the name and the others do not, so a name read
from a message of the other layout is arbitrary (`SameLayout`). `Answer` stands
for all the rest of the thread.

On the client's side `Send` is `fetch` or `can_upload_file` up to the datagram,
with a fresh number per request (numbers are random 64-bit values; a collision is
not considered). `Accepts` is `message_validation` with what each caller passes:
the name is compared for `CONNECT_ME` and `NO_WAY`, not for `CAN_ADD`, which
carries none. The data of a `CAN_ADD` in the model is the name the thread goes on
to work with, and nothing reads it but the property. Requests stay in `to_server`
for ever and answers until they are lost: this is repetition, delay and
reordering at once. `undisturbed` and an answer's `from` are history.

### How `FilesList` corresponds to the code

The handler holds `files_in_storage_mutex` from the first name to the last, so one
handler over a fixed set of names is the whole behaviour. One action is one
iteration of the loop: a name that fits is put in (`FillMessageWithFilename`), a
name that does not makes the message go out and is itself dropped (`SendFull`): the
`else` of `server.cpp:149` does not fill it in again. `std::set` has one order; the
model tries all, which needs no order on names.

### How `Download` corresponds to the code

One name, one thread that serves it, one client. `server` is where the thread is
in `handle_file_request` and `send_file_via_tcp`, `client` where the client is in
`fetch`, `receive_fetch_file_response` and `fetch_file_via_tcp`. A file is a
sequence of blocks, one for each turn of a copy loop, marked with the upload that
wrote it; `content` is indexed by inode, and an inode is called after the upload
that created it, so that a file that was removed or replaced can still be read by
a stream that has it open. A stream that writes to a file which another upload
has emptied leaves a hole (`Written`).

The connection goes from `announced` (the port has been sent) to `pending` (set up
by the client, not yet accepted), `open`, and `closed` or `broken`. The difference
of the last two is what the client sees after the bytes that have arrived: an end,
or an error. A process that dies closes its sockets as a thread that returns does,
so a crash is an end, too, and so is a thread that returns because `write` was
short (`WriteFails`), a read failed or there was no file to open: none of these
needs a broken connection. The part of a block that a short write has sent is not
counted. Datagrams are lost by `ReceivePort` giving up.

`sent`, `intact`, `finished` and `unwritten` are history: the blocks the thread has
sent, the file they are from until somebody writes to that, whether the thread has
come to the end of the file, and whether the client's disk has refused a block.

### How `Upload` corresponds to the code

`client` is where the thread of `Client::upload` is; `found` and `answered` are the
list that `silent_discover` returns, of which only the order and whether an entry
has room are kept. `inet_ntoa` returns one buffer and `ServerData` stores the
pointer, so every entry of the list reads as the last server that answered:
`address`. (In the library the code is built with, the buffer belongs to the
thread, so other threads do not change it.) All requests of the loop therefore go
to that server, although the loop takes a server from the list for each, and
`at_least_on_server_has_space` looks at the first entry only
(`AtLeastOneServerHasSpace`). Other servers with room are not asked, and a file
that fits on the second server found is reported too big; the model has this, no
property is about it.

Request number `tried` is the one in hand. `CanUploadFile` sends it, `ReceiveAnswer`
and `NoAnswer` are the loop that waits: an answer with another number is skipped.
A datagram is lost when the client gives up before it comes, or a thread stays in
`sent` for ever. Every thread has a port of its own, so a connection belongs to
the thread whose acceptance was taken. Connecting succeeds as long as the port is
listened to; when `select` times out at that moment, the backlog has taken the
client's connection and bytes, and closing the port resets it (`SelectTimesOut`).
A server's clean-up is one step here; its parts are in `Storage`, as are disk
errors. `Start` is the only step without fairness: the user need not upload. The
server ignores `SIGPIPE` (`Server::init`), the client does not: a write to a
connection that the server has ended or that is broken is reported, or kills the
process (`WriteFails`), as the system has it.

`disturbed` is history: something failed that the client need not see, because
what it has written is in the hands of the system.

### How `Search` corresponds to the code

`main` is where the main thread is: reading a command (`idle`), or at one of the
three points of the loop in `receive_search_respond` and
`receive_discover_response`, `is_timeout` (`check`), `set_timeout` (`set`) and
`recvfrom` (`receive`). The two loops differ in what they do with an answer. Both
use `multicast_sock`, which is not emptied between commands, and the user may type
the next command at any time after the window. `answers` only grows: a datagram
comes any number of times, early, late, out of order or never, and a server answers with
any set of files, since others upload and remove meanwhile.

A tick stands for a microsecond and `Ticks` of them for a second. `Seconds` and
`Fraction` are the two fields of the `timeval`; the clock is read for
`is_timeout` and for the `timeval` in different steps, so time may pass between.
`SetTimeout` has what the system makes of the values: a fraction that is not below
a second is refused (`EDOM`, thrown as `socket_failure`, after which the loop
continues and so spins until the tick is over), negative seconds do not wait at
all, and 0 with 0 is no limit (`Forever`). Numbers are drawn at random from
64 bits; the model counts them, so they do not collide. A fetch gets a copy of the
address it is started with (`fetched`).

### How `Client` corresponds to the code

One name, because threads of different names share only the generator. `Main`
runs the commands; a fetch or upload is a detached thread, and `idle` one that is
not started. `results` is what `last_search_results` says of the name: `search`
clears it first (`Search`), every answer in the window replaces it
(`ReceiveSearchRespond`), and `fetch` looks in it (`Listed`).

`generate_message_sequence` calls one `mt19937_64` of the process from every
thread. The race is modelled as a load of the position, its use, and a store of
the next one (`ReadGenerator`, `StoreGenerator`), so that a store may undo draws
that happened in between. That the generator refills its whole state every 312
numbers, in which a race could leave a state that belongs to no sequence, is left
out. `raced` is history and says that a store undid a draw. A fetch draws once, an
upload for its discovery and again for each request (`UploadContinues`).

`CreateOut` is everything from the request to the open `ofstream`, which empties
the file; `ReadBlock` is one turn of the copy loop. How much of what a stream was
given has reached the file is open until `CloseOut`, where the rest is written or,
if the disk refuses, lost without a word. Each stream writes at its own position
(`Written`). Two threads that leave the same file are a real case: the user types
`fetch` twice, and the thread is detached at once. `Exit` and the uncaught
exception of `fs::file_size` in an upload end the process with all its threads,
and the blocks in their streams' buffers.

### How `Protocol` corresponds to the code

The limits are those of `communication_protocol.h` and the 65507 bytes of a UDP
datagram. A string is a word and how much of it is taken, `strncpy` is `Prefix`,
and what `recvfrom` leaves in a buffer of zeros is `Datagram`.
`WireLength` is the arithmetic of `udp_socket::send`, whose length is a
`uint16_t`, and of `sendto`'s; `GoesOut` is whether the system takes the result.
An integer carries the set of the swaps done to it, so a missing or doubled
conversion shows.

The five handlers of the node act on what `MessageValidation` lets through, and
`Answer` is their reply; the client takes a reply with `Accepts`. Capacity, busy
names and timeouts are left to the choice of the handlers' outcomes: an upload may
be accepted or refused. A list goes out in any number of datagrams, none of them
empty or longer than a message (`HandleFilesListRequest`; which names they carry is
in `FilesList`). A pattern is found at the beginning of a name or not at all
(`Contains`).

The main loop looks at its own copy of the message (`acted`), but the threads it
starts get a pointer into the buffer and read the name when they run
(`server.cpp:455`, `464`, `468`): a handler's `name` is any that a request to the
node has put there, or garbage (`LateNames`, `Garbled`). `Dispatch` has the order of
these steps; here it is enough that a thread's name need not be its request's. A
port is listened at (`listening`) until the thread returns (`Close`), and the system
may then give it to another thread, of another request. `opened` is history: who
has listened where. `MaxHandled` bounds how many requests that arrive, once or
again, are handled.

Two facts that the properties state as their limits. A name or pattern of 65518 to
65535 characters makes a length that wraps around to a datagram shorter than its
header, which every node refuses. From 65536 on it wraps around to the first
characters of the name: a node that gets `remove` with such a name removes
another file (`Meant` holds below that length). Between 65490 and 65517
the system refuses the datagram.

### How `Sockets` corresponds to the code

`table` says for which object a descriptor was opened; the system gives out the
lowest free number. `object` is what a thread's three objects contain: the socket
it waits on, the connection, and the file stream. An object is destroyed when its
thread leaves the scope (`Leave`, in the reverse order of the declarations), by
the rule of the destructor: close, unless `closed`. A move is a copy of the fields
and `fake_close` of the source (`LetGo`). `Discover` is the socket that an
upload's discovery uses first.

`tcp_socket() = default` leaves both fields uninitialised. `create_socket` sets
`closed` after `getsockname`; if `socket`, `getsockname` or `accept` fails, the
destructor does what the memory says. For a failing `socket` the descriptor is -1,
so nothing is closed; after a failing `getsockname` the descriptor may stay open,
and after a failing `accept` (`AcceptFails`) both fields are arbitrary, and any
descriptor of the process may be closed. `OwnDescriptors` and `NothingLeaks` are
stated up to the first of these (`failed`). The names of the
specification carry a prefix (`SocketsNext`, `SocketsTypeOK`), because
`CommunicationProofs` extends this module beside `Protocol`. In an upload the handler also reads
from the undefined socket, because the exception of `accept` is caught and the
copy loop comes after it; `Storage` has what follows for the file.

### The discipline

The code does not serialise a removal and an upload of the same name, and does
not guard the start-up sum against overflow. `Discipline` names the two
assumptions under which the books are right: no name is removed while it is
uploaded (`Settled`), and the folder holds less than 2^64 bytes (`FolderFits`).
`Spec` is the program as it is; `OrderlySpec` is the program under the
discipline. What fails without it is shown by the run `storage_removal_race`.
The type invariant is proved for `Spec`.

## Runs

| Run | Specification and instance | Shows |
|---|---|---|
| `storage` | `OrderlySpec`; 2 workers, 3 names (one invalid), sizes 0 to 2, capacity 2, words of 3 bits, one crash, disk errors | the safety properties; the node implements `FileStore` until its disk fails |
| `storage_removal_race` | `Spec`; 2 workers, 2 names, sizes 1 to 3, no crash | **violation**: a removal during an upload makes the node offer more than its maximum space |
| `files_list` | 5 names of lengths 1 to 3, datagrams of 5 characters, every subset and order | the packing keeps its bounds, and a list that fits in one message is complete |
| `files_list_incomplete` | the same | **violation**: a list of more than one message lacks names |
| `dispatch` | 2 clients, one other sender, 2 names, one thread, 2 requests | what is right in spite of overtaking |
| `dispatch_overtaken` | the same, 2 threads | **violation**: a file is stored under another name |
| `download` | `FairSpec`; one upload of the name besides the file that may be there, 3 blocks, one crash, one removal after another | a fetch that reports success has what was sent; every fetch ends |
| `upload` | `FairSpec`; 2 servers, a file of 2 blocks that may shrink or grow to 1 or 3 | what the user is told agrees with what the servers hold; client and servers finish |
| `search` | `FairSpec`; 2 servers, 2 files, 3 commands, 2 different answers, a window of 2 seconds of 3 ticks | fetches go to a server that lists the file; waits end with their window |
| `client` | 2 fetches and an upload, 2 servers with copies of 1 or 2 blocks, 2 searches, 4 draws | what the threads of a client can still rely on while they share a generator, a file and a process |
| `protocol` | 2 nodes, 2 words, 2 ports, 2 requests, of which 2 arrivals are handled, names of 0, 2 and 65489 to 65538 characters | what was meant is what is received; a client connects to a port of its request; the two sides understand each other |
| `sockets` | 2 threads of one kind of process, descriptors 0 to 6 of which two are the main thread's | descriptors are closed once, by their owner, and none is lost |

The properties of `Storage`:

- `TypeOK`: types; in particular `to_upload`, which is unsigned, never goes below 0.
- `ExclusiveUpload`: one owner per name, whatever uploads run at once (under the
  discipline below: no removal of the name meanwhile).
- `MemoryMatchesFolder`: the set of names and the folder agree up to the gaps that
  running handlers account for, also after a restart.
- `Ledger`: `used_space` equals the reservations in flight plus the bytes of the
  files offered, at every point of every interleaving; after a disk error it may
  be too large, never too small.
- `WithinCapacity`: as long as anything is reserved, everything promised fits.
- `UploadedWhole`: an upload that ended well left exactly the announced bytes.
- `OfferedStays`: nothing but a removal of its name changes an offered file or
  lets another upload own it; not a refused duplicate and not the cleanup of a
  failed one.
- `ImplementsFileStore`: refinement of `FileStore` under a mapping that calls a
  name pending from `add_file_to_storage` to the end of its worker's reservation,
  and doomed while a removal has taken the name but not the file. The catalogue
  promises nothing after the first fault of the disk (`Fault`), and a restart may
  bring back a deleted file or offer the beginning of one, as the code does.
- `OfferedFits`: what the documentation says of the maximum space, and the run
  `storage_removal_race` refutes.

What `Storage` allows besides: after a crash during an upload the folder holds the
beginning of a file, which the restart offers like any other. `UploadedWhole` is
therefore about uploads that ended, and `MemoryMatchesFolder` about names.

The properties of `Dispatch`:

- `UndisturbedIsRight`: a thread that no datagram overtook has its own request's
  name and sender.
- `AddressKept`: fetch and list answers go to the sender, overtaken or not.
- `AnswerIsOwn`: a client accepts only an answer to its last request, although an
  overtaken upload thread answers other clients, and answers come late and twice.
- `AnswerIsForFile`: an accepted fetch or refusal is about the file named.
- `UploadIsForFile`: the same for acceptances, which the run
  `dispatch_overtaken` refutes: an upload thread that reads the name too late
  answers the right client with the right number, and stores another name.

The properties of `FilesList`:

- `MessagesBounded`: names, newlines and the final NUL stay inside the message.
- `LengthsTrue`: a datagram is exactly as long as the names it carries.
- `NamedOnce`: only names asked for, each once, none of an earlier message again.
- `ShortListComplete`: a list whose names fit in one datagram, with the newlines
  between them, has all of them, to the last character.
- `EveryNameListed`: what README.md says a client can fetch, the list of the files
  in storage, which the run `files_list_incomplete` refutes: a name that finds the
  message full is put in neither this message nor the next.

The properties of `Download`:

- `SuccessIsSent`: a client that reports success and nothing else, and whose disk has
  taken every block, has exactly what the thread has sent, in its order. If nobody
  wrote to the file since it was opened, this is a beginning of that one file,
  whatever has been removed or stored under the name meanwhile, and all of it once
  the thread has come to its end. A connection that breaks is told from one that
  ends.
- `FetchEnds`: the client reports something and the thread returns.

What a success does **not** mean: that the file is whole. A thread that ends early
(its node crashes, a read fails, there is no file to open, a write is short) closes
its connection like one that is through, and the client reports a success with a
beginning of the file or nothing. The same goes for a file that is removed between
the look-up and its opening, and for one that is still being uploaded. The protocol
sends no length, so the client cannot tell; the property says no more.

The properties of `Upload`:

- `UploadedArrives`: a client that reports "File uploaded" has sent everything
  that was announced, and the server has stored it or has the rest under way;
  lost answers, late acceptances, a file that changes after it was measured and a
  server that stops listening do not make it report a success it has not had.
  What it excludes (`disturbed`) is what the code cannot know: it does not wait
  for a confirmation, so a connection that breaks, or a server that fails, after
  the last write goes unnoticed.
- `TooBigStoresNothing`: after "File too big" no server receives or has the file,
  although some may have accepted it too late.
- `UploadEnds`: the client returns or its process has died, and a server that
  waits for the client stores the file or gives everything back. This is so because
  the client is the repository's: it sends, closes or dies. Of another one the
  server's thread, which reads without a timeout, assumes nothing and gets nothing:
  one that stays connected and silent keeps the name, the space and the thread.

The properties of `Search`:

- `FetchFromLister`: a fetch asks a server that named the file in an answer to
  the last search; answers to earlier searches and to discoveries, which come
  through the same socket, never put a server into the results.
- `WindowKept`: a wait for an answer never reaches beyond the window and never
  has no limit.
- `CommandEnds`: search and discover return, however many or few answers come.

The properties of `Client`:

- `LastFetchWhole`: of several fetches into one output file, the one that opened it
  last leaves its copy there, and nothing of a longer or earlier one. The condition
  `~mixed` is what the code lacks: two fetches from servers whose copies differ
  write into each other's file.
- `OwnResults`: what the user is offered is from an answer to the last search. With
  two threads in the generator two requests may get one number, and an earlier
  search's answer is then taken for one to the last (`raced`).

The properties of `Protocol`:

- `TypeOK`: besides types, that numbers and parameters travel big-endian.
- `Meant`: what a node's main loop receives is the name or pattern that was typed, if
  that has less than 65536 characters, and the size that was announced. What a
  thread makes of the name is another matter (`dispatch_overtaken`).
- `ConnectsToListener`: the port a client connects to is one at which the node it
  asked has listened for this very request, and for a fetch with this very name.
  For an upload the thread may have worked with another name, and in either case the
  port may by then be closed, or another thread's.
- `Understood`: what one side builds whole and sends passes the other's validation,
  except a removal of nothing, which is refused on purpose; up to the comparison of
  names, which a thread that was overtaken fails.
- `StringsEnd`: the strings in a message that went out end inside its array.

The properties of `Sockets`:

- `OwnDescriptors`: what an object will close was opened for it, and the main
  thread's sockets stay open, although numbers are used again.
- `NothingLeaks`: what is open has an object that will close it, whatever calls
  have failed and also when the process has no descriptor left.

**Bounds of `Client`, `Protocol` and `Sockets`.** Two fetches are an overlap in
each order, and a third would only repeat it; a longer and a shorter copy make one
fetch write beyond the other's end. Four draws are a search and three of another
thread's, or two searches and two. The lengths of `protocol` are those at which
something changes: nothing, a name, a full array and one more, a length that wraps
around to a datagram shorter than its header, and two that wrap around to nothing and
to a name; files themselves have names of 2 characters. Two requests are one whose
answers are late and the one that waits; two arrivals (`MaxHandled`) are one of each,
or one request handled twice, and two ports are enough for one to be closed and given
out again. Two threads need up to six descriptors;
with the main thread's two and only seven numbers, some call fails for want of one.
The threads are all a server's or all a client's, since these are different
processes. Deadlock is not checked: the commands are finitely many, and a process
ends.

**Bounds of `Upload` and `Search`.** Two servers give a first and a last entry in
the list, a late answer to the first request during the second, and two threads
that hold the name. Two blocks, or one or three of them, are a file that is read
in part, wholly, and beyond what was announced. Three commands are a search, a
discovery or search whose answers can be late, and a search in whose window they
come; two answers are one that is right and one that is not. With 3 ticks a second has
a beginning, a middle and an end, and one tick after the window is enough to read
the clock late. Deadlock is not checked in either: there is a last command and an
upload that is over.

**Bounds of `Download`.** One upload and the old file give a fetch of a file that
is being written, of a replaced file and of a removed one; three blocks have a
first, a middle and a last one, so that a connection ends before, in and after
them. Deadlock is not checked: a fetch that has ended has nothing left to do.

**Bounds of `Dispatch` and `FilesList`.** Two clients are a sender and somebody
who overtakes; two requests are either one from each or a request and its
repetition; the datagrams of others (`LIST`, and `DEL` for everything that starts
no thread) come any number of times. One answer in flight at a time
(`MaxInFlight`) is enough for lateness, because it may stay until the client has
asked again, and for misdelivery. `Threads` bounds the threads alive at once; the
proofs have no such bound. Names of different lengths make a message full with
and without its last character used. Deadlock is not checked for `Dispatch`,
where the node may have exited and every client be done; it is for `FilesList`.

**Bounds of `Storage`.** Two workers and two names give every pair of handlers on the same
and on different names, together with the main thread's removal. Sizes 0 to 2
with capacity 2 make two uploads fit, just fit or not fit, depending on what the
folder holds; the folder may hold up to 4 bytes at the start, more than the
capacity. Size 2 makes a partial transfer possible, size 0 an upload without a
byte. Words of 3 bits make subtraction below 0 visible as a wrapped value. One
crash is enough to meet every combination of a state and a restart; the workers
that have not begun give uploads after it. `MaxCrashes` and the number of
workers (each handles one request) are the only bounds on behaviours. Deadlock
is not checked, because a node all of whose requests are done waits for ever.

**Fairness.** `Storage` has no liveness property: a worker reads from its connection
without a timeout, so whether it ever returns is up to the client, of which the code
can assume nothing. `FetchEnds` assumes only that both threads are scheduled
(`ThreadStep`, `FetchStep`): each of the two waits for the other or for a timeout.
It assumes nothing of the uploads or the main loop. A network that goes silent
without breaking the connection is not modelled: both sides read without a timeout,
and would wait. `UploadEnds`
assumes the same of the client's thread (`ClientStep`, which includes the
timeouts of its loops) and of each server thread (`ServerThread`), and not that any
datagram arrives: `HandleUploadRequest` is not fair. It needs the same of the
network. `CommandEnds` assumes that
the main thread runs (`LoopStep`) and that the clock does (`TimePasses`), not that
anybody answers.

## Proofs

The theorems hold for every value of the constants that satisfies the module's
assumption; for `Storage`, `StorageAssumption`: any finite sets of workers and names, any sizes and
capacity below the word, any number of crashes, with or without disk errors.

- `TypeCorrect` (for `Spec`). `TypeOK` is not inductive: that `filename[t]` is a
  name when an action uses it, and that nothing runs during the scan, has to be
  known. `Types` adds that (`Shape`).
- `InductiveInvariant` (for `OrderlySpec`). `ExclusiveUpload` alone is not
  inductive either: a worker leaves `insert` only if the name is not in the set,
  so it has to be known that a name under upload *is* in the set (`Names`);
  `UploadedWhole` needs to know whose file a name has and how much of it a worker
  can have written (`Names`, `Files`, `Lengths`). The conjunction `IInv` is
  inductive, and `UploadsExclusive`, `MemoryAgrees` and `UploadsWhole` are its
  corollaries; `OfferedFilesStay` follows because the file a worker writes to
  is that of its own name, and who becomes the owner of a name found it missing.
- `BooksBalance` and `CapacityKept`. The sum `Booked` is the cardinality of a set
  of units (`Units`), because facts about cardinality need no induction over data.
  `TotalChange` says how a total moves with one summand; each action then changes
  no charge (`Quiet`), one (`OneCharge`), or, when a reservation turns into a file
  with another inode, two (`TwoCharges`), and `used_space` moves with it. `Books`
  is what has to be known beyond `IInv`: a name is scanned once, and the size a
  removal read is still the size of its file when it gives it back.

- `UndisturbedRight`, `AddressByValue`, `OwnAnswer`, `RightFile` (for `Dispatch`,
  any sets of clients, threads and names). The invariant says that the main loop
  dispatches what is in its buffers (`LoopInv`), that what an undisturbed thread
  has not copied is still there, and the loop is then receiving (`ThreadInv`), and
  that a number belongs to one request (`Numbers`), which is why a comparison of
  numbers tells whose answer it is.
- `BufferKept` and `ShortListsWhole` (for `FilesList`, any finite set of names, any
  lengths, any size of a datagram). `Shape` adds that a message is empty exactly
  if its length is 0, which makes `NewMessage` and `Rest` agree. A list that fits in
  one datagram is complete because as long as no message has gone out, the characters
  of the names that are left always fit (`NewlinesCount`).
- `SuccessSent` (for `Download`, any uploads, crashes and lengths). `Stages` says
  which points client, thread and connection can be at together; `Moving` and
  `Transfer` that what the client has read and what is under way are together what
  was sent, until the connection breaks; `Untouched` that, as long as nobody has
  written to the file, what was sent is its first `offset` blocks, and `Ended` and
  `AllSent` when those are all. Crashes and early ends are steps like any other: no
  hypothesis rules them out.

- `SuccessArrives` and `TooBigLeavesNothing` (for `Upload`, any finite set of
  servers, any length). `Stages` says that only the thread of the request in hand
  gets a connection, and which points client and connection can be at together;
  `Transfer` that, undisturbed, what was sent has been read or is under way, and
  that the server ends a connection only with the whole file. `Discovered` bounds
  the requests by the answers, which needs the cardinality of a finite set.
- `LengthsRight` and `EachNameOnce` (for `FilesList`). The characters of a message
  are the cardinality of the disjoint union of its names' characters, so putting a
  name in adds its length without an induction over the set.
- `FetchAsksLister` (for `Search`, any servers, files, numbers of commands and
  answers). `Results` is the property for what is remembered instead of what has
  been fetched; `Answers` says that a datagram carries the number and the kind of
  a command that was sent, so that comparing both (`Expected`) singles out the
  last search.
- `WindowsKept` (for `Search`, any window and any number of ticks in a second).
  Quotient and remainder are characterised once (`Division`, `Quotient`), from
  which the rest of the window, with its carry between the two fields of the
  `timeval`, is at most what is left of it and never 0 with 0 (`RestOfWindow`).
  The invariant relates the clock, which goes on between the steps, to the reading
  of `is_timeout` (`StepClock`).
- `TypeCorrect` (for `Dispatch`).

- `NodeImplementsFileStore` (for `OrderlySpec`). See below.
- `TypesKept`, `LastFetchDecides`, `ResultsAreOwn` (for `Client`, any fetches,
  uploads, servers, copies of any length, any number of draws). `LastFetchWhole`
  says nothing until a copy is complete, so it is not inductive. `Output` says what
  the file is before that: no longer than the copy of the thread that opened it
  last, every block the right one or a gap, and no gap where that thread has
  written; `Streams` says how far each thread can have got. `Draws` says that
  draws which were not undone increase, so that a number singles out a search.
- `DatagramsTyped`, `NamesMeant`, `PortsConnect`, `MessagesUnderstood`,
  `StringsTerminated` (for `Protocol`, any nodes, ports, requests and typed names,
  file names of 1 to 255 characters). The 16-bit arithmetic of
  `udp_socket::send` is treated once, in lemmas: up to which length nothing wraps,
  and that below 65536 characters a length either comes out as it should or as less
  than a header, which is refused. `Belongs` says of every answer
  which request it belongs to and that its number is that request's in the other byte
  order, `Announces` that its port, if it has one, has been listened at for that
  request under the name it carries, and `LateNames` which names these can be; a
  step only adds to requests and to the history of ports, so this stays true however
  late the answer is read and whoever has the port by then.
- `SocketsTyped`, `DescriptorsOwn`, `DescriptorsReturned` (for `Sockets`, any
  threads, any limit of descriptors and any sockets of the main thread). `Held`
  says which objects a thread does not have at each of its points, which is why an
  object that is set there was empty and loses no descriptor. `Sound` says that,
  until `accept` or `getsockname` fails, the table is exactly what the objects that
  will close it and main's sockets make it, and that an object which would close
  something arbitrary has nothing to close. That the lowest free number is free
  needs that a set of numbers has a least one (`MinProperties`), which the library
  has as a fact about well-founded relations.

The inductive invariants of `Storage`, `Client` and `Sockets` were checked by TLC on
the instances of their runs before they were proved.

**The refinement.** `NodeImplementsFileStore` is what the run `storage` checks, for every
instance: `OrderlySpec => ImplementsFileStore`. The mapping gives each name an entry
of the catalogue, `absent`, `pending`, `stored` or `doomed` with a number of bytes,
computed from the threads, the set of names and the folder. The proof has a lemma
for each action of `Storage`, which says what becomes of the entry of the name it is
about and that the other entries stay. What `FileStore` demands of a step is
mostly there in `IInv`. Two things are not. The number of bytes of an entry that
fails must not exceed what was announced (`Announced`). And `FileStore` lets an
upload begin only if all that is committed fits: the committed entries are mapped,
one to one, to inodes that are charged with as many bytes (`CommittedCharged`),
so that the sum of the first is at most the sum of the second, which the books say
is `used_space`.

The catalogue's `faulty` is the model's `ioError`, and `Fault` lets anything happen
once it is set. This is needed: after a failing `fs::file_size` or `fs::remove` the
node keeps a charge for a file that is gone or a file without a name, which the
catalogue does not have. The facts about a disk that works are therefore invariants
of the form "until the disk fails" (`UntilFault`), the fault stays (`FaultStays`),
and a step of a node whose disk has failed maps to `Fault`. What holds of such a
node all the same is in the other properties of the run and the theorems about them.

**Only model-checked.** `FetchEnds`, `UploadEnds` and `CommandEnds`,
since liveness under fairness is out of the prover's reach. Every invariant and
every action property of a passing run, and the refinement, are theorems. The three
violations are counterexamples on an instance.

## Not modelled, and the plan

What is left to do:

1. The invariants that the liveness properties rest on, as theorems: what holds at
   the points where a thread waits, so that only the fairness argument itself is
   left to TLC (`Upload`, `Download`).
2. The discipline made weaker. `Settled` forbids every removal of a name that is
   being uploaded; which of the properties need it, and which hold of `Spec`.
3. `Storage` against a client that is not the repository's: what a worker that waits
   for ever costs the others.

What the models show and no property is about, because the code makes no promise
there:

- Only the first server of the list is looked at before an upload, so a file that
  fits on another one which answered is reported too big; and all requests go to the
  server that answered last (`Upload`).
- At the end of the input the client's loop gets an empty command again and again
  and does not end (`Client::run`); the models have no end of input.
- A failing `accept` leaves an object that may close any descriptor (`Sockets`).

What is not modelled: logging and console output, which nothing reads; build
files; the refill of the random generator's state; the parsing of the program
options, of which only the effects are in the constants (`timeout`, `max_space`, the
folder). main's exit on an exception is part of `Crash` and `Exit`. The operating
system (sockets, file system, scheduler) is modelled by the outcomes its calls can
have. There is no module for several whole nodes and clients at once: nodes share
nothing but datagrams, so `Dispatch`, `Upload`, `Search` and `Protocol` have the
other nodes and clients where their answers and requests can be confused.

The only abstract specification is `FileStore`. A violation run is written only
where the code contradicts a document.
