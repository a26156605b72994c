------------------------------ MODULE Dispatch ------------------------------
(***************************************************************************)
(* From a client's request to the answer it accepts: the clients' side of  *)
(* fetch and upload up to the answer, the datagrams between, the main loop *)
(* of the server, and the threads it starts.                               *)
(*                                                                         *)
(* The main loop has one message buffer and one source address, which each *)
(* datagram overwrites. A thread gets the request's number, and the address*)
(* except for uploads, as values; an upload's address is a reference, and  *)
(* the name is a pointer into the buffer, from which the thread makes a    *)
(* string when it comes to run. An upload request and the others keep the  *)
(* name at different places of the buffer.                                 *)
(*                                                                         *)
(* A client is one socket: a fetch, or an upload, which may ask several    *)
(* times with the same name and a new number each time.                    *)
(***************************************************************************)
EXTENDS Integers, FiniteSets

CONSTANTS
  Clients,       \* sockets of fetch and upload threads
  Others,        \* sources of all other datagrams
  Filenames,
  Threads,       \* threads the server can have at a time (bound)
  MaxRequests,   \* how many requests are sent in all (bound)
  MaxInFlight,   \* how many answers are on their way at a time (bound)
  None

ASSUME DispatchAssumption ==
  /\ None \notin Clients \cup Others \cup Filenames
  /\ Clients \cap Others = {}
  /\ MaxRequests \in Nat /\ MaxInFlight \in Nat

VARIABLES
  (* clients *)
  stage,                \* new, waiting for an answer, asking again, done
  request,              \* the request a client waits or has waited for
  got,                  \* the answer it has accepted
  sent,                 \* the number of requests sent
  (* the network *)
  to_server,
  to_clients,
  (* the main loop *)
  main,                 \* receive, message, address, dispatch, exited
  incoming,             \* the datagram recvfrom_complex has returned
  message_complex,
  source_address,
  (* threads *)
  thread,               \* idle, starting, dead
  work,                 \* the request the thread was started for
  destination_address,
  filename,
  undisturbed           \* history: threads started with no datagram coming in before
                        \* they had copied everything

client  == <<stage, request, got, sent>>
network == <<to_server, to_clients>>
loop    == <<main, incoming, message_complex, source_address>>
threads == <<thread, work, destination_address, filename, undisturbed>>
vars    == <<client, network, loop, threads>>

Requests ==
  [command : {"ADD", "GET"}, source : Clients, message_seq : 1 .. MaxRequests, data : Filenames]

(* Requests nobody in the model waits for the answer of. DEL stands for all*)
(* that start no thread: removals, discoveries, and what message_validation*)
(* refuses.                                                                *)
OtherDatagrams ==
  [command : {"LIST", "DEL"}, source : Others, message_seq : {0}, data : Filenames]

Answers ==
  [command : {"CAN_ADD", "NO_WAY", "CONNECT_ME"}, to : Clients \cup Others,
   message_seq : 1 .. MaxRequests, data : Filenames,
   from : Requests]     \* history: the request the thread was started for

Init ==
  /\ stage = [c \in Clients |-> "new"]
  /\ request = [c \in Clients |-> None]
  /\ got = [c \in Clients |-> None]
  /\ sent = 0
  /\ to_server = {}
  /\ to_clients = {}
  /\ main = "receive"
  /\ incoming = None
  /\ message_complex = None
  /\ source_address = None
  /\ thread = [t \in Threads |-> "idle"]
  /\ work = [t \in Threads |-> None]
  /\ destination_address = [t \in Threads |-> None]
  /\ filename = [t \in Threads |-> None]
  /\ undisturbed = {}
-----------------------------------------------------------------------------
(***************************************************************************)
(* Clients. The numbers are random; two equal ones are not considered.     *)
(***************************************************************************)
Send(c, command, n) ==
  LET datagram == [command |-> command, source |-> c, message_seq |-> sent + 1, data |-> n] IN
  /\ sent < MaxRequests
  /\ sent' = sent + 1
  /\ request' = [request EXCEPT ![c] = datagram]
  /\ got' = [got EXCEPT ![c] = None]
  /\ stage' = [stage EXCEPT ![c] = "waiting"]
  /\ to_server' = to_server \cup {datagram}
  /\ UNCHANGED <<to_clients, loop, threads>>

Fetch(c, n) ==
  /\ stage[c] = "new"
  /\ Send(c, "GET", n)

(* The next server of the list may be the same one again.                  *)
CanUploadFile(c, n) ==
  /\ \/ stage[c] = "new"
     \/ stage[c] = "again" /\ n = request[c].data
  /\ Send(c, "ADD", n)

SeqIgnored(c, a)  == TRUE              \* mutant: any answer to the socket is taken
SeqExpected(c, a) == a.message_seq = request[c].message_seq

DataIgnored(c, a)  == TRUE             \* mutant: the name in the answer is not looked at
DataExpected(c, a) == a.data = request[c].data

(* message_validation, with the name where the caller passes one.          *)
Accepts(c, a) ==
  /\ SeqExpected(c, a)
  /\ \/ request[c].command = "GET" /\ a.command = "CONNECT_ME" /\ DataExpected(c, a)
     \/ request[c].command = "ADD" /\ a.command = "NO_WAY" /\ DataExpected(c, a)
     \/ request[c].command = "ADD" /\ a.command = "CAN_ADD"

Receive(c, a) ==
  /\ stage[c] = "waiting"
  /\ a.to = c
  /\ Accepts(c, a)
  /\ got' = [got EXCEPT ![c] = a]
  /\ stage' = [stage EXCEPT ![c] = IF a.command = "NO_WAY" THEN "again" ELSE "done"]
  /\ UNCHANGED <<request, sent, network, loop, threads>>

Timeout(c) ==
  /\ stage[c] = "waiting"
  /\ stage' = [stage EXCEPT ![c] = IF request[c].command = "ADD" THEN "again" ELSE "done"]
  /\ UNCHANGED <<request, got, sent, network, loop, threads>>

Lose(a) ==
  /\ a \in to_clients
  /\ to_clients' = to_clients \ {a}
  /\ UNCHANGED <<client, to_server, loop, threads>>
-----------------------------------------------------------------------------
(***************************************************************************)
(* The main loop. recvfrom_complex fills a message of its own; std::tie    *)
(* then assigns the message, byte by byte, and after it the address. A     *)
(* datagram may come any number of times, or never, in any order.          *)
(***************************************************************************)
Recvfrom(d) ==
  /\ main = "receive"
  /\ d \in to_server \cup OtherDatagrams
  /\ incoming' = d
  /\ main' = "message"
  /\ undisturbed' = {t \in undisturbed : destination_address[t] # None /\ filename[t] # None}
  /\ UNCHANGED <<client, network, message_complex, source_address, thread, work,
                 destination_address, filename>>

Content(d) == [command |-> d.command, data |-> d.data]

AssignMessage ==
  /\ main = "message"
  /\ message_complex' = Content(incoming)
  /\ main' = "address"
  /\ UNCHANGED <<client, network, incoming, source_address, threads>>

AssignAddress ==
  /\ main = "address"
  /\ source_address' = incoming.source
  /\ main' = "dispatch"
  /\ UNCHANGED <<client, network, incoming, message_complex, threads>>

NextDatagram ==
  /\ main' = "receive"
  /\ incoming' = None
  /\ UNCHANGED <<message_complex, source_address>>

(* Removals and discoveries are handled here; a fetch of a name that is not*)
(* in storage and an invalid message are skipped.                          *)
NoThread ==
  /\ main = "dispatch"
  /\ incoming.command \in {"DEL", "GET"}
  /\ NextDatagram
  /\ UNCHANGED <<client, network, threads>>

AssignedEarly == main \in {"address", "dispatch"}  \* mutant: started before the address is assigned
Assigned      == main = "dispatch"

(* mutant: std::ref for every request                                      *)
AddressByReference == None
AddressArgument    == IF incoming.command = "ADD" THEN None ELSE source_address

Handler(t) ==
  /\ Assigned
  /\ incoming.command \in {"ADD", "GET", "LIST"}
  /\ thread[t] = "idle"
  /\ thread' = [thread EXCEPT ![t] = "starting"]
  /\ work' = [work EXCEPT ![t] = incoming]
  /\ destination_address' = [destination_address EXCEPT ![t] = AddressArgument]
  /\ filename' = [filename EXCEPT ![t] = None]
  /\ undisturbed' = undisturbed \cup {t}
  /\ NextDatagram
  /\ UNCHANGED <<client, network>>

(* std::thread throws; the exception leaves run() and main() exits.        *)
ThreadCreationFails ==
  /\ main = "dispatch"
  /\ incoming.command \in {"ADD", "GET", "LIST"}
  /\ main' = "exited"
  /\ incoming' = None
  /\ message_complex' = None
  /\ source_address' = None
  /\ thread' = [t \in Threads |-> "dead"]
  /\ work' = [t \in Threads |-> None]
  /\ destination_address' = [t \in Threads |-> None]
  /\ filename' = [t \in Threads |-> None]
  /\ undisturbed' = {}
  /\ UNCHANGED <<client, network>>
-----------------------------------------------------------------------------
(***************************************************************************)
(* Threads: the parameters are initialised in any order.                   *)
(***************************************************************************)
CopyAddress(t) ==
  /\ thread[t] = "starting"
  /\ destination_address[t] = None
  /\ destination_address' = [destination_address EXCEPT ![t] = source_address]
  /\ UNCHANGED <<client, network, loop, thread, work, filename, undisturbed>>

(* While other bytes are assigned to the buffer, or when the name is not   *)
(* where the thread looks for it, the string is anything.                  *)
BeingChanged  == main = "message" /\ message_complex # Content(incoming)
SameLayout(t) == (message_complex.command = "ADD") <=> (work[t].command = "ADD")

Readable(t) ==
  IF BeingChanged \/ ~SameLayout(t) THEN Filenames ELSE {message_complex.data}

CopyFilename(t) ==
  /\ thread[t] = "starting"
  /\ filename[t] = None
  /\ \E n \in Readable(t) : filename' = [filename EXCEPT ![t] = n]
  /\ UNCHANGED <<client, network, loop, thread, work, destination_address, undisturbed>>

NamePresent(t) == thread[t] = "starting" /\ filename[t] # None   \* mutant: the address may be missing
Copied(t) == thread[t] = "starting" /\ destination_address[t] # None /\ filename[t] # None

Replies(t) ==
  CASE work[t].command = "ADD"  -> {"CAN_ADD", "NO_WAY"}
    [] work[t].command = "GET"  -> {"CONNECT_ME"}
    [] work[t].command = "LIST" -> {}

(* The thread answers, or fails to, and returns; what it does in between   *)
(* and afterwards is in module Storage. CAN_ADD carries no name: its data  *)
(* is what the thread goes on to work with.                                *)
Answer(t) ==
  /\ Copied(t)
  /\ \/ UNCHANGED to_clients
     \/ /\ Cardinality(to_clients) < MaxInFlight
        /\ \E reply \in Replies(t) : to_clients' = to_clients \cup
             {[command |-> reply, to |-> destination_address[t],
               message_seq |-> work[t].message_seq, data |-> filename[t], from |-> work[t]]}
  /\ thread' = [thread EXCEPT ![t] = "idle"]
  /\ work' = [work EXCEPT ![t] = None]
  /\ destination_address' = [destination_address EXCEPT ![t] = None]
  /\ filename' = [filename EXCEPT ![t] = None]
  /\ undisturbed' = undisturbed \ {t}
  /\ UNCHANGED <<client, to_server, loop>>
-----------------------------------------------------------------------------
ClientStep(c) ==
  \/ \E n \in Filenames : Fetch(c, n) \/ CanUploadFile(c, n)
  \/ \E a \in to_clients : Receive(c, a)
  \/ Timeout(c)

LoopStep ==
  \/ \E d \in to_server \cup OtherDatagrams : Recvfrom(d)
  \/ AssignMessage
  \/ AssignAddress
  \/ NoThread
  \/ \E t \in Threads : Handler(t)
  \/ ThreadCreationFails

ThreadStep(t) == CopyAddress(t) \/ CopyFilename(t) \/ Answer(t)

Next ==
  \/ \E c \in Clients : ClientStep(c)
  \/ \E a \in to_clients : Lose(a)
  \/ LoopStep
  \/ \E t \in Threads : ThreadStep(t)

Spec == Init /\ [][Next]_vars
-----------------------------------------------------------------------------
Points == {"receive", "message", "address", "dispatch", "exited"}

TypeOK ==
  /\ stage \in [Clients -> {"new", "waiting", "again", "done"}]
  /\ request \in [Clients -> Requests \cup {None}]
  /\ got \in [Clients -> Answers \cup {None}]
  /\ sent \in 0 .. MaxRequests
  /\ to_server \in SUBSET Requests
  /\ to_clients \in SUBSET Answers
  /\ main \in Points
  /\ incoming \in Requests \cup OtherDatagrams \cup {None}
  /\ message_complex \in [command : {"ADD", "GET", "LIST", "DEL"}, data : Filenames] \cup {None}
  /\ source_address \in Clients \cup Others \cup {None}
  /\ thread \in [Threads -> {"idle", "starting", "dead"}]
  /\ work \in [Threads -> Requests \cup OtherDatagrams \cup {None}]
  /\ destination_address \in [Threads -> Clients \cup Others \cup {None}]
  /\ filename \in [Threads -> Filenames \cup {None}]
  /\ undisturbed \in SUBSET Threads

(* A thread whose start no datagram has overtaken works on the request it  *)
(* was started for and answers whoever sent that.                          *)
UndisturbedIsRight ==
  \A t \in Threads :
    Copied(t) /\ t \in undisturbed =>
      /\ filename[t] = work[t].data
      /\ destination_address[t] = work[t].source

(* A fetch or list request is answered to the client that sent it, however *)
(* late its thread runs.                                                   *)
AddressKept ==
  \A t \in Threads :
    Copied(t) /\ work[t].command # "ADD" => destination_address[t] = work[t].source

(* A client takes no answer but to its own last request, although answers  *)
(* go astray, come late and come twice.                                    *)
AnswerIsOwn ==
  \A c \in Clients : got[c] # None => got[c].from = request[c]

(* A client that goes on to fetch gets the file it asked for, and one that *)
(* is refused is refused the file it offered.                              *)
AnswerIsForFile ==
  \A c \in Clients :
    got[c] # None /\ got[c].command # "CAN_ADD" => got[c].data = request[c].data

(* "Files are identified by names" (README.md:18): a client that goes on   *)
(* to upload uploads under the name it offered.                            *)
UploadIsForFile ==
  \A c \in Clients :
    got[c] # None /\ got[c].command = "CAN_ADD" => got[c].data = request[c].data
=============================================================================
