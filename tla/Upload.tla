------------------------------- MODULE Upload -------------------------------
(***************************************************************************)
(* One call of Client::upload: the discovery, the requests to one server   *)
(* after the other, the transfer, and what the user is told; with the      *)
(* threads that these requests start on the servers.                       *)
(*                                                                         *)
(* Requests and answers are datagrams: they may come late, when the client *)
(* has given the request up, or never. A server thread that has accepted a *)
(* request waits for the client only for a while; the client reports what  *)
(* it knows from its own side of the connection. The steps of a server     *)
(* thread on the node's state are module Storage; here its clean-up is one *)
(* step. Blocks are counted: they arrive in order.                         *)
(***************************************************************************)
EXTENDS Integers, Sequences, FiniteSets

CONSTANTS
  Servers,
  Blocks,        \* the size of the file when it is looked up
  None

ASSUME UploadAssumption ==
  /\ IsFiniteSet(Servers)
  /\ None \notin Servers
  /\ Blocks \in Nat

(* The requests of the loop over the servers, numbered in their order.     *)
Requests == 1 .. Cardinality(Servers)

VARIABLES
  (* the servers *)
  room,          \* the server has room for the file
  listed,        \* the name is in its files_in_storage
  thread,        \* none, sent, refused, announced, receive, stored, released
  answer,        \* the answer under way: none, yes, no
  received,      \* blocks the thread of the transfer has read
  (* the client *)
  client,        \* where the upload thread is
  found,         \* for each server in the list: the answer gave room enough
  answered,      \* the servers whose answers have come
  address,       \* inet_ntoa's buffer, which every entry of the list points to
  tried,         \* requests sent
  length,        \* how long the file is when it is read
  sent,
  report,
  (* the connection *)
  connection,    \* none, up, closed (by the client), ended (by the server), broken
  wire,          \* blocks sent and not yet read
  disturbed      \* history: the connection broke, the server failed, or its
                 \* thread had stopped waiting when the client connected

server == <<room, listed, thread, answer, received>>
loop   == <<found, answered, address, tried>>
copy   == <<length, sent>>
tcp    == <<connection, wire, disturbed>>
vars   == <<server, client, loop, copy, report, tcp>>

Init ==
  /\ room \in [Servers -> BOOLEAN]
  /\ listed \in [Servers -> BOOLEAN]
  /\ thread = [n \in Requests |-> "none"]
  /\ answer = [n \in Requests |-> "none"]
  /\ received = 0
  /\ client = "start"
  /\ found = <<>> /\ answered = {} /\ address = None /\ tried = 0
  /\ length = 0 /\ sent = 0
  /\ report = "none"
  /\ connection = "none" /\ wire = 0 /\ disturbed = FALSE
-----------------------------------------------------------------------------
(***************************************************************************)
(* The client: discovery.                                                  *)
(***************************************************************************)
Report(outcome) == client' = "done" /\ report' = outcome

(* A file that is not there is reported; if a socket fails, the list of    *)
(* servers is empty.                                                       *)
Start ==
  /\ client = "start"
  /\ \/ Report("no such file")
     \/ client' \in {"discover", "choose"} /\ UNCHANGED report
  /\ UNCHANGED <<server, loop, copy, tcp>>

DiscoverAnswer(s) ==
  /\ client = "discover"
  /\ s \notin answered
  /\ answered' = answered \cup {s}
  /\ found' = Append(found, room[s])
  /\ address' = s
  /\ UNCHANGED <<server, client, tried, copy, report, tcp>>

DiscoverEnds ==
  /\ client = "discover"
  /\ client' = "choose"
  /\ UNCHANGED <<server, loop, copy, report, tcp>>

AtLeastOneServerHasSpace == found # <<>> /\ found[1]

(* file_size throws if the file is gone, and the client process ends. If   *)
(* no socket can be made, the user is told nothing.                        *)
Choose ==
  /\ client = "choose"
  /\ \/ AtLeastOneServerHasSpace /\ client' = "ask" /\ UNCHANGED report
     \/ AtLeastOneServerHasSpace /\ Report("nothing")
     \/ ~AtLeastOneServerHasSpace /\ Report("too big")
     \/ client' = "dead" /\ UNCHANGED report
  /\ UNCHANGED <<server, loop, copy, tcp>>
-----------------------------------------------------------------------------
(***************************************************************************)
(* The client: can_upload_file for each server of the list.                *)
(***************************************************************************)
CanUploadFile ==
  /\ client = "ask"
  /\ tried < Len(found)
  /\ tried' = tried + 1
  /\ \/ client' = "wait" /\ thread' = [thread EXCEPT ![tried + 1] = "sent"]
     \/ UNCHANGED <<client, thread>>
  /\ UNCHANGED <<room, listed, answer, received, found, answered, address, copy, report, tcp>>

NoServerLeft ==
  /\ client = "ask"
  /\ tried = Len(found)
  /\ Report("too big")
  /\ UNCHANGED <<server, loop, copy, tcp>>

(* An answer to an earlier request is skipped.                             *)
ReceiveAnswer(n) ==
  /\ client = "wait"
  /\ answer[n] # "none"
  /\ answer' = [answer EXCEPT ![n] = "none"]
  /\ client' = IF n # tried THEN "wait" ELSE IF answer[n] = "yes" THEN "connect" ELSE "ask"
  /\ UNCHANGED <<room, listed, thread, received, loop, copy, report, tcp>>

NoAnswer ==
  /\ client = "wait"
  /\ client' = "ask"
  /\ UNCHANGED <<server, loop, copy, report, tcp>>
-----------------------------------------------------------------------------
(***************************************************************************)
(* The client: upload_file_via_tcp.                                        *)
(***************************************************************************)
NextServer    == "ask"     \* mutant: after a failed transfer the next one is asked
AfterTransfer == "done"

(* The socket is closed on every way out; what was sent still arrives.     *)
Return(outcome) ==
  /\ client' = AfterTransfer
  /\ report' = outcome
  /\ connection' = IF connection = "up" THEN "closed" ELSE connection

Connect ==
  /\ client = "connect"
  /\ \/ /\ thread[tried] = "announced"
        /\ connection' = "up"
        /\ client' = "open"
        /\ UNCHANGED report
     \/ Return("failure")
  /\ UNCHANGED <<server, loop, copy, wire, disturbed>>

(* The file may have become shorter or longer since it was looked up.      *)
OpenFile ==
  /\ client = "open"
  /\ \/ /\ client' = "send"
        /\ length' \in {b \in (Blocks - 1) .. (Blocks + 1) : b >= 0}
        /\ UNCHANGED <<report, connection>>
     \/ Return("failure") /\ UNCHANGED length
  /\ UNCHANGED <<server, loop, sent, wire, disturbed>>

(* A write succeeds when the system takes the bytes.                       *)
SendBlock ==
  /\ client = "send"
  /\ sent < length
  /\ sent' = sent + 1
  /\ wire' = IF connection = "up" THEN wire + 1 ELSE wire
  /\ UNCHANGED <<server, client, loop, length, report, connection, disturbed>>

(* A write that fails or is short is reported. The client, unlike the      *)
(* server, leaves SIGPIPE as it is: to write to a connection that the      *)
(* other side has ended may kill the process.                              *)
WriteFails ==
  /\ client = "send"
  /\ \/ Return("failure")
     \/ /\ \/ connection = "broken"
           \/ connection = "ended" /\ sent > Blocks
        /\ client' = "dead"
        /\ UNCHANGED <<report, connection>>
  /\ UNCHANGED <<server, loop, copy, wire, disturbed>>

AnyLength == TRUE          \* mutant: to_upload is not looked at
Complete  == length = Blocks

SendEnds ==
  /\ client = "send"
  /\ sent = length
  /\ Return(IF Complete THEN "uploaded" ELSE "failure")
  /\ UNCHANGED <<server, loop, copy, wire, disturbed>>
-----------------------------------------------------------------------------
(***************************************************************************)
(* The servers.                                                            *)
(***************************************************************************)
(* Uploads and removals of others.                                         *)
RoomChanges(s) ==
  /\ room' = [room EXCEPT ![s] = ~@]
  /\ UNCHANGED <<listed, thread, answer, received, client, loop, copy, report, tcp>>

(* The answer may be lost; if an acceptance cannot be sent at all, the     *)
(* thread gives up at once.                                                *)
HandleUploadRequest(n) ==
  /\ thread[n] = "sent"
  /\ IF room[address] /\ ~listed[address]
     THEN \/ /\ thread' = [thread EXCEPT ![n] = "announced"]
             /\ listed' = [listed EXCEPT ![address] = TRUE]
             /\ answer' = [answer EXCEPT ![n] = "yes"]
          \/ /\ thread' = [thread EXCEPT ![n] = "released"]
             /\ UNCHANGED <<listed, answer>>
     ELSE /\ thread' = [thread EXCEPT ![n] = "refused"]
          /\ answer' = [answer EXCEPT ![n] = "no"]
          /\ UNCHANGED listed
  /\ UNCHANGED <<room, received, client, loop, copy, report, tcp>>

(* The clean-up: the file, its space and its name are given up.            *)
CleanUp(n) ==
  /\ thread' = [thread EXCEPT ![n] = "released"]
  /\ listed' = [listed EXCEPT ![address] = FALSE]
  /\ UNCHANGED <<room, answer, received, client, loop, copy, report>>

Connected(n) == n = tried /\ connection # "none"

(* A client whose connection is in the backlog by then is reset.           *)
WaitsForever(n) == FALSE    \* mutant: select without a timeout
Waits(n)        == TRUE

SelectTimesOut(n) ==
  /\ thread[n] = "announced"
  /\ Waits(n)
  /\ CleanUp(n)
  /\ IF Connected(n)
     THEN connection' = "broken" /\ wire' = 0 /\ disturbed' = TRUE
     ELSE UNCHANGED tcp

Accept(n) ==
  /\ thread[n] = "announced"
  /\ Connected(n)
  /\ thread' = [thread EXCEPT ![n] = "receive"]
  /\ UNCHANGED <<room, listed, answer, received, client, loop, copy, report, tcp>>

(* accept fails, or the file cannot be created.                            *)
ServerFails(n) ==
  /\ thread[n] = "receive"
  /\ received = 0
  /\ CleanUp(n)
  /\ connection' = "broken" /\ wire' = 0 /\ disturbed' = TRUE

ReceiveBlock(n) ==
  /\ thread[n] = "receive"
  /\ received < Blocks
  /\ wire > 0
  /\ received' = received + 1
  /\ wire' = wire - 1
  /\ UNCHANGED <<room, listed, thread, answer, client, loop, copy, report, connection, disturbed>>

(* The thread reads no more than was announced. Closing a socket with      *)
(* unread bytes resets the connection.                                     *)
AllReceived(n) ==
  /\ thread[n] = "receive"
  /\ received = Blocks
  /\ thread' = [thread EXCEPT ![n] = "stored"]
  /\ connection' = IF wire > 0 THEN "broken" ELSE IF connection = "up" THEN "ended" ELSE connection
  /\ UNCHANGED <<room, listed, answer, received, client, loop, copy, report, wire, disturbed>>

(* The end of the connection or an error before all has come.              *)
PartReceived(n) ==
  /\ thread[n] = "receive"
  /\ received < Blocks
  /\ wire = 0
  /\ connection \in {"closed", "broken"}
  /\ CleanUp(n)
  /\ UNCHANGED tcp

ConnectionBreaks ==
  /\ connection \in {"up", "closed"}
  /\ connection' = "broken"
  /\ wire' = 0
  /\ disturbed' = TRUE
  /\ UNCHANGED <<server, client, loop, copy, report>>
-----------------------------------------------------------------------------
ClientStep ==
  \/ \E s \in Servers : DiscoverAnswer(s)
  \/ DiscoverEnds
  \/ Choose
  \/ CanUploadFile
  \/ NoServerLeft
  \/ \E n \in Requests : ReceiveAnswer(n)
  \/ NoAnswer
  \/ Connect
  \/ OpenFile
  \/ SendBlock
  \/ WriteFails
  \/ SendEnds

ServerThread(n) ==
  \/ SelectTimesOut(n)
  \/ Accept(n)
  \/ ServerFails(n)
  \/ ReceiveBlock(n)
  \/ AllReceived(n)
  \/ PartReceived(n)

Next ==
  \/ Start
  \/ ClientStep
  \/ \E s \in Servers : RoomChanges(s)
  \/ \E n \in Requests : HandleUploadRequest(n)
  \/ \E n \in Requests : ServerThread(n)
  \/ ConnectionBreaks

Spec == Init /\ [][Next]_vars

(* Threads are scheduled; datagrams may be lost. That the client sends or  *)
(* closes, which a server thread relies on, is its own code here.          *)
FairSpec == Spec /\ WF_vars(ClientStep) /\ \A n \in Requests : WF_vars(ServerThread(n))
-----------------------------------------------------------------------------
TypeOK ==
  /\ room \in [Servers -> BOOLEAN]
  /\ listed \in [Servers -> BOOLEAN]
  /\ thread \in [Requests -> {"none", "sent", "refused", "announced", "receive", "stored", "released"}]
  /\ answer \in [Requests -> {"none", "yes", "no"}]
  /\ received \in 0 .. Blocks
  /\ client \in {"start", "discover", "choose", "ask", "wait", "connect", "open", "send", "done", "dead"}
  /\ found \in Seq(BOOLEAN)
  /\ answered \in SUBSET Servers
  /\ address \in Servers \cup {None}
  /\ tried \in Nat
  /\ length \in Nat
  /\ sent \in Nat
  /\ report \in {"none", "nothing", "no such file", "too big", "failure", "uploaded"}
  /\ connection \in {"none", "up", "closed", "ended", "broken"}
  /\ wire \in Nat
  /\ disturbed \in BOOLEAN

(* A client that reports "File uploaded" is right, or will be when the     *)
(* server's thread has read what is under way, unless the server failed,   *)
(* the connection broke, or the client came too late. No change of the     *)
(* file, lost or late answer or order of the two sides' steps makes it lie.*)
UploadedArrives ==
  report = "uploaded" /\ ~disturbed =>
    \/ thread[tried] = "stored"
    \/ /\ thread[tried] \in {"announced", "receive"}
       /\ connection = "closed"
       /\ received + wire = Blocks

(* A client that reports "File too big" has not left the file with any     *)
(* server, although servers may have accepted it in answers that came too  *)
(* late, and may still be waiting for it.                                  *)
TooBigStoresNothing ==
  report = "too big" => \A n \in Requests : thread[n] \notin {"receive", "stored"}

(* The upload returns, or its process has died, and no server keeps a name *)
(* and space for a request that is not going to be served: the repository's*)
(* client never leaves a connection open and silent.                       *)
UploadEnds ==
  /\ client # "start" ~> client \in {"done", "dead"}
  /\ \A n \in Requests :
       thread[n] = "announced" ~> thread[n] \in {"stored", "released"}
=============================================================================
