------------------------------ MODULE Protocol ------------------------------
(***************************************************************************)
(* What becomes of a request and its answer on their way through the       *)
(* messages: how a name is put into one (strncpy, uint16_t lengths), what  *)
(* goes out (sendto), what the other side finds in its buffer, what its    *)
(* validation makes of that, and which name and port it then acts on.      *)
(*                                                                         *)
(* The sizes are those of the code. A string is a word of which so many    *)
(* characters are taken: [word, length]; two words differ in their first   *)
(* character. A file name has at most 255 characters, because file systems *)
(* do not have longer ones; the name or pattern that a user types has any  *)
(* number. Integers that travel carry the byte swaps done to them.         *)
(*                                                                         *)
(* One client sends a request after the other from one socket. Datagrams   *)
(* may be lost, repeated, delayed and overtaken. A thread closes its socket*)
(* when it returns, and the system may give the port to the next one while *)
(* an answer with it is still under way. What the handlers do to a node    *)
(* otherwise is in Storage, FilesList and Download.                        *)
(***************************************************************************)
EXTENDS Integers, Sequences, FiniteSetsExt

CONSTANTS
  Nodes,
  Words,
  FileLengths,     \* how long the names of files are
  TypedLengths,    \* and what users type
  Ports,           \* TCP ports, in the host's byte order
  Sizes,           \* of files, and of the space that a node announces
  MaxRequests,     \* (bound)
  MaxHandled,      \* how many that arrive, once or again, are handled (bound)
  None

ASSUME ProtocolAssumption ==
  /\ FileLengths \subseteq 1 .. 255
  /\ TypedLengths \subseteq Nat
  /\ MaxRequests \in Nat
  /\ MaxHandled \in Nat

max_simple_data_size  == 65489
max_complex_data_size == max_simple_data_size - 8
simple_message_no_data_size  == 10 + 8
complex_message_no_data_size == 10 + 2 * 8
MaxDatagram == 65507             \* the most that UDP over IPv4 carries
UInt16(x)   == x % 65536

Strings(lengths) == [word : Words, length : lengths]
Empty == [word |-> None, length |-> 0]
Files == Strings(FileLengths)

(* The first k characters.                                                 *)
Prefix(s, k) == IF k <= 0 \/ s.length = 0 THEN Empty
                ELSE [s EXCEPT !.length = IF k < @ THEN k ELSE @]

(* find: the pattern is at the beginning of the name or nowhere.           *)
Contains(name, pattern) ==
  pattern = Empty \/ (pattern.word = name.word /\ pattern.length <= name.length)

(* htobe64, be64toh, htobe16, be16toh: each undoes itself.                 *)
Integer(n)    == [value |-> n, swapped |-> {}]
Swap(w, x)    == [x EXCEPT !.swapped = IF w \in @ THEN @ \ {w} ELSE @ \cup {w}]

VARIABLES
  stored,      \* the files of a node
  requests,    \* kind, name, size, the node asked, whether it went out
  listening,   \* TCP ports that a thread of a node listens at
  answers,     \* datagrams that may reach the client
  opened,      \* history: the sockets that listened, for which request and name
  acted,       \* history: the name and size that a node's main loop received
               \* with a request
  taken,       \* history: the answers the client has taken, with the port
  handled      \* how many requests have been handled, for the bound

vars == <<stored, requests, listening, answers, opened, acted, taken, handled>>

Init ==
  /\ stored \in [Nodes -> SUBSET Files]
  /\ requests = <<>>
  /\ listening = {} /\ answers = {} /\ opened = {} /\ acted = {} /\ taken = {} /\ handled = 0
-----------------------------------------------------------------------------
(***************************************************************************)
(* Messages. A ComplexMessage has a parameter between number and data, and *)
(* both sides tell the layout by the command. The data array has room for  *)
(* one character more than strncpy copies; what is not copied is 0, so that*)
(* is_valid_data holds of every message that one of the two sides builds.  *)
(***************************************************************************)
Complex(command) == command \in {"ADD", "GOOD_DAY", "CONNECT_ME", "CAN_ADD"}

Header(command) ==
  IF Complex(command) THEN complex_message_no_data_size ELSE simple_message_no_data_size

MaxData(command) ==
  IF Complex(command) THEN max_complex_data_size ELSE max_simple_data_size

(* mutant: a string that is too long is cut, not refused                   *)
CutLength(command, length)  ==
  Header(command) + (IF length < MaxData(command) THEN length ELSE MaxData(command))
WireLength(command, length) == UInt16(Header(command) + UInt16(length))

(* The array that the string is in.                                        *)
NoRoomForNul(command) == MaxData(command)         \* mutant: not one more
DataRoom(command)     == MaxData(command) + 1

GoesOut(command, length) == WireLength(command, length) <= MaxDatagram

HostOrder(number) == Integer(number)             \* mutant: htobe64 forgotten
BigEndian(number) == Swap(64, Integer(number))

(* What recvfrom leaves in a buffer that was all 0, for a message with this*)
(* string that was sent with this length.                                  *)
Datagram(command, number, string, length, param) ==
  [command |-> command,
   size |-> WireLength(command, length),
   message_seq |-> BigEndian(number),
   param |-> param,
   data |-> Prefix(Prefix(string, MaxData(command)),
                   WireLength(command, length) - Header(command))]

NoParam == Integer(0)
-----------------------------------------------------------------------------
(***************************************************************************)
(* The client's requests. Names to fetch and upload are those of files,    *)
(* the rest is what the user types.                                        *)
(***************************************************************************)
Command(kind) ==
  CASE kind = "discover" -> "HELLO"
    [] kind = "search"   -> "LIST"
    [] kind = "fetch"    -> "GET"
    [] kind = "upload"   -> "ADD"
    [] kind = "remove"   -> "DEL"

Typed == Strings(TypedLengths \ {0}) \cup (IF 0 \in TypedLengths THEN {Empty} ELSE {})

NamesFor(kind) ==
  CASE kind = "discover"             -> {Empty}
    [] kind \in {"fetch", "upload"} -> Files
    [] OTHER                         -> Typed

(* fetch and upload ask one node, the others the multicast group.          *)
Nodewise(kind) == kind \in {"fetch", "upload"}
NodesFor(kind) == IF Nodewise(kind) THEN Nodes ELSE {None}

(* Only an upload says how long the file is.                               *)
SizeParam(kind, size) == IF kind = "upload" THEN BigEndian(size) ELSE NoParam

Request(kind, name, size, node) ==
  /\ Len(requests) < MaxRequests
  /\ requests' = Append(requests, [kind |-> kind, name |-> name, size |-> size, node |-> node,
                                   out |-> GoesOut(Command(kind), name.length)])
  /\ UNCHANGED <<stored, listening, answers, opened, acted, taken, handled>>

Sent(r) ==
  Datagram(Command(requests[r].kind), r, requests[r].name, requests[r].name.length,
           SizeParam(requests[r].kind, requests[r].size))
-----------------------------------------------------------------------------
(***************************************************************************)
(* The node.                                                               *)
(***************************************************************************)
(* is_valid_string: the 10 bytes of the command end with a NUL.            *)
IsValidCommand(command) == command # "CONNECT_ME"

(* Server::message_validation.                                             *)
MessageValidation(d) ==
  /\ IsValidCommand(d.command)
  /\ d.size >= Header(d.command)
  /\ \/ d.command = "ADD"
     \/ d.command = "HELLO" /\ d.size = simple_message_no_data_size
     \/ d.command = "LIST"
     \/ d.command \in {"GET", "DEL"} /\ d.size # simple_message_no_data_size

Reaches(r, node) ==
  requests[r].out /\ (Nodewise(requests[r].kind) => requests[r].node = node)

Arrives(r, node, command) ==
  /\ Reaches(r, node)
  /\ Sent(r).command = command
  /\ MessageValidation(Sent(r))
  /\ acted' = acted \cup {[request |-> r, node |-> node, name |-> Sent(r).data,
                           size |-> Swap(64, Sent(r).param)]}
  /\ handled < MaxHandled
  /\ handled' = handled + 1

(* A thread is given a pointer into the buffer of the main loop, and reads *)
(* the name there when it runs: by then it may be that of another request, *)
(* or what a message of another layout, or half of one, amounts to.        *)
Garbled == [word : {None}, length : FileLengths] \cup {Empty}

LateNames(node) ==
  {Sent(q).data : q \in {p \in 1 .. Len(requests) : Reaches(p, node)}} \cup Garbled

(* The number of the request comes back; the answer may not go out.        *)
Answer(r, command, string, length, param) ==
  answers' = IF GoesOut(command, length)
             THEN answers \cup {Datagram(command, r, string, length, param)}
             ELSE answers

MulticastAddress == [word |-> None, length |-> 9]

(* The main loop itself answers, with the space that is available.         *)
HandleDiscoverRequest(r, node) ==
  /\ Arrives(r, node, "HELLO")
  /\ \E available \in Sizes :
       Answer(r, "GOOD_DAY", MulticastAddress, MulticastAddress.length, BigEndian(available))
  /\ UNCHANGED <<stored, requests, listening, opened, taken>>

(* Names and the newlines between.                                         *)
Listing(names) ==
  [word |-> None,
   length |-> MapThenSumSet(LAMBDA f : f.length, names) + Cardinality(names) - 1]

(* Names that match go out in any number of messages, none too long; how   *)
(* they are filled, and which name is lost between two, is in FilesList.   *)
HandleFilesListRequest(r, node, pattern) ==
  LET names    == {f \in stored[node] : Contains(f, pattern)}
      messages == {listed \in SUBSET names \ {{}} :
                     Listing(listed).length \in 1 .. max_simple_data_size} IN
  /\ Arrives(r, node, "LIST")
  /\ \E sent \in SUBSET messages :
       answers' = answers \cup
         {Datagram("MY_LIST", r, Listing(listed), Listing(listed).length, NoParam) : listed \in sent}
  /\ UNCHANGED <<stored, requests, listening, opened, taken>>

(* get_port is in the network's byte order.                                *)
GetPort(port)   == Swap(16, Integer(port))
PortParam(port) == Swap(64, Swap(16, GetPort(port)))

(* bind takes a port that is free now, whoever had it before.              *)
Listens(r, node, port, name) ==
  /\ [node |-> node, port |-> port] \notin listening
  /\ listening' = listening \cup {[node |-> node, port |-> port]}
  /\ opened' = opened \cup {[node |-> node, port |-> port, request |-> r, name |-> name]}

(* The main loop looks up its name, the thread announces the one it reads. *)
HandleFileRequest(r, node, name) ==
  /\ Arrives(r, node, "GET")
  /\ Sent(r).data \in stored[node]
  /\ \E port \in Ports :
       /\ Listens(r, node, port, name)
       /\ Answer(r, "CONNECT_ME", name, name.length, PortParam(port))
  /\ UNCHANGED <<stored, requests, taken>>

(* An acceptance is sent with the default length of its data, which is 0.  *)
HandleUploadRequest(r, node, name) ==
  /\ Arrives(r, node, "ADD")
  /\ \/ \E port \in Ports :
          /\ name # Empty
          /\ Listens(r, node, port, name)
          /\ Answer(r, "CAN_ADD", name, 0, PortParam(port))
     \/ /\ Answer(r, "NO_WAY", name, name.length, NoParam)
        /\ UNCHANGED <<listening, opened>>
  /\ UNCHANGED <<stored, requests, taken>>

(* The thread returns, served or not, and closes the socket it listened at.*)
Close(socket) ==
  /\ listening' = listening \ {socket}
  /\ UNCHANGED <<stored, requests, answers, opened, acted, taken, handled>>

HandleRemoveRequest(r, node) ==
  /\ Arrives(r, node, "DEL")
  /\ stored' = [stored EXCEPT ![node] = @ \ {Sent(r).data}]
  /\ UNCHANGED <<requests, listening, answers, opened, taken>>
-----------------------------------------------------------------------------
(***************************************************************************)
(* The client's validation of answers, for its last request.               *)
(***************************************************************************)
Waiting == Len(requests)

Expected(kind) ==
  CASE kind = "discover" -> {"GOOD_DAY"}
    [] kind = "search"   -> {"MY_LIST"}
    [] kind = "fetch"    -> {"CONNECT_ME"}
    [] kind = "upload"   -> {"CAN_ADD", "NO_WAY"}
    [] OTHER             -> {}

(* The callers that compare the data with the name of the request.         *)
ComparesData(command) == command \in {"CONNECT_ME", "NO_WAY"}

AsComplex(a)   == a.size >= complex_message_no_data_size   \* mutant: a refusal read as complex
LongEnough(a)  == a.size >= Header(a.command)

AnyNumber(r, a) == TRUE                      \* mutant: an answer to any request will do
Numbered(r, a)  == Swap(64, a.message_seq) = Integer(r)

IsAnswerTo(r, a) ==
  /\ a.command \in Expected(requests[r].kind)
  /\ LongEnough(a)
  /\ Numbered(r, a)

Accepts(r, a) ==
  /\ IsAnswerTo(r, a)
  /\ ComparesData(a.command) => a.data = requests[r].name

(* One answer ends the wait of a fetch or upload.                          *)
Receive(a) ==
  /\ Waiting > 0
  /\ requests[Waiting].out
  /\ Accepts(Waiting, a)
  /\ Nodewise(requests[Waiting].kind) => \A t \in taken : t.request # Waiting
  /\ taken' = taken \cup {[request |-> Waiting, command |-> a.command,
                           port |-> Swap(64, a.param)]}
  /\ UNCHANGED <<stored, requests, listening, answers, opened, acted, handled>>
-----------------------------------------------------------------------------
Handle(r, node) ==
  \/ HandleDiscoverRequest(r, node)
  \/ \E name \in LateNames(node) :
       \/ HandleFilesListRequest(r, node, name)
       \/ HandleFileRequest(r, node, name)
       \/ HandleUploadRequest(r, node, name)
  \/ HandleRemoveRequest(r, node)

Kinds == {"discover", "search", "fetch", "upload", "remove"}

Next ==
  \/ \E kind \in Kinds : \E name \in NamesFor(kind), size \in Sizes, node \in NodesFor(kind) :
       Request(kind, name, size, node)
  \/ \E r \in 1 .. Len(requests), node \in Nodes : Handle(r, node)
  \/ \E socket \in listening : Close(socket)
  \/ \E a \in answers : Receive(a)

Spec == Init /\ [][Next]_vars
-----------------------------------------------------------------------------
OnTheWire(values) == [value : values, swapped : {{64}}]
String(s) == s = Empty \/ (s.length \in Nat \ {0} /\ s.word \in Words \cup {None})

(***************************************************************************)
(* The variables have their types; the numbers that travel, parameters too,*)
(* are big-endian, and no datagram is larger than UDP carries.             *)
(***************************************************************************)
TypeOK ==
  /\ stored \in [Nodes -> SUBSET Files]
  /\ Len(requests) <= MaxRequests
  /\ \A r \in 1 .. Len(requests) :
       requests[r].name \in NamesFor(requests[r].kind) /\ requests[r].size \in Sizes
  /\ listening \subseteq [node : Nodes, port : Ports]
  /\ \A a \in answers :
       /\ a.size \in 0 .. MaxDatagram
       /\ a.message_seq \in OnTheWire(1 .. MaxRequests)
       /\ Complex(a.command) => a.param \in OnTheWire(Ports \cup Sizes)
       /\ String(a.data)
  /\ \A o \in opened : o.node \in Nodes /\ o.port \in Ports /\ String(o.name)
  /\ \A m \in acted : m.request \in 1 .. Len(requests) /\ m.node \in Nodes /\ String(m.name)
  /\ \A t \in taken : t.request \in 1 .. Len(requests)
  /\ handled \in 0 .. MaxHandled

(***************************************************************************)
(* What a node's main loop receives of a request is the name, or pattern,  *)
(* that the request was made with, unless that has 65536 characters or     *)
(* more, and the size of the file. From there on the length wraps around   *)
(* (uint16_t in udp_socket::send), and the node is handed the beginning of *)
(* the name: `remove` then removes another file. What a thread makes of the*)
(* name is another matter: it may read that of the next request.           *)
(***************************************************************************)
Meant ==
  \A m \in acted :
    /\ requests[m.request].name.length < 65536 => m.name = requests[m.request].name
    /\ requests[m.request].kind = "upload" => m.size = Integer(requests[m.request].size)

(***************************************************************************)
(* The port that the client connects to is one that the node it asked has  *)
(* listened at for this very request, and, for a fetch, to send this very  *)
(* file: answers that come late or twice, to earlier requests or with ports*)
(* that others had before, do not mislead it, nor, in a fetch, a thread    *)
(* that has read the name of another request; get_port, be16toh and htobe64*)
(* on one side and be64toh and htobe16 on the other amount to nothing. By  *)
(* then the port may be closed, or another thread's: nothing tells.        *)
(***************************************************************************)
ConnectPort(t) == Swap(16, t.port)

ConnectsToListener ==
  \A t \in taken : t.command \in {"CONNECT_ME", "CAN_ADD"} =>
    \E o \in opened :
      /\ o.request = t.request
      /\ o.node = requests[t.request].node
      /\ t.command = "CONNECT_ME" => o.name = requests[t.request].name
      /\ ConnectPort(t) = GetPort(o.port)

(***************************************************************************)
(* The two sides agree on the format. A request that went out and whose    *)
(* string was put into the message whole passes the node's validation,     *)
(* unless it is a removal of nothing; an answer to a request passes that of*)
(* the client that made it, up to the name, and the name in it is, uncut,  *)
(* one that the node's handler may have read.                              *)
(***************************************************************************)
Whole(r) == requests[r].name.length <= MaxData(Command(requests[r].kind))

Understood ==
  /\ \A r \in 1 .. Len(requests) :
       /\ requests[r].out
       /\ Whole(r)
       /\ requests[r].kind = "remove" => requests[r].name # Empty
       => MessageValidation(Sent(r))
  /\ \A a \in answers :
       /\ IsAnswerTo(a.message_seq.value, a)
       /\ ComparesData(a.command) => \E node \in Nodes : a.data \in LateNames(node)

(***************************************************************************)
(* A string in a message ends within the message's array, so that the      *)
(* handlers, which read it up to its NUL, read nothing behind it.          *)
(***************************************************************************)
StringsEnd ==
  /\ \A r \in 1 .. Len(requests) :
       requests[r].out => Sent(r).data.length < DataRoom(Sent(r).command)
  /\ \A a \in answers : a.data.length < DataRoom(a.command)
=============================================================================
