--------------------------- MODULE DispatchProofs ---------------------------
(***************************************************************************)
(* Proofs about Dispatch, for any number of clients, threads and requests. *)
(***************************************************************************)
EXTENDS Dispatch, TLAPS

Datagrams == Requests \cup OtherDatagrams

(* The main loop dispatches what is in its buffers.                        *)
LoopInv ==
  /\ main \in {"message", "address", "dispatch"} => incoming \in Datagrams
  /\ main \in {"address", "dispatch"} => message_complex = Content(incoming)
  /\ main = "dispatch" => source_address = incoming.source

(* A thread that starts has a request that starts threads, and something to*)
(* copy in both buffers.                                                   *)
Started(t) ==
  /\ work[t] \in Datagrams
  /\ work[t].command \in {"ADD", "GET", "LIST"}
  /\ source_address \in Clients \cup Others
  /\ message_complex \in [command : {"ADD", "GET", "LIST", "DEL"}, data : Filenames]
  /\ work[t].command # "ADD" => destination_address[t] = work[t].source

(* What a thread has copied is right, and what it has not copied yet is    *)
(* still in the buffers.                                                   *)
Right(t) ==
  /\ destination_address[t] \in {None, work[t].source}
  /\ filename[t] \in {None, work[t].data}
  /\ destination_address[t] = None \/ filename[t] = None =>
       /\ main = "receive"
       /\ message_complex = Content(work[t])
       /\ source_address = work[t].source

ThreadInv ==
  \A t \in Threads :
    thread[t] = "starting" => Started(t) /\ (t \in undisturbed => Right(t))

(* A number names one request.                                             *)
Numbers ==
  /\ \A d \in to_server : d.message_seq <= sent
  /\ \A d, e \in to_server : d.message_seq = e.message_seq => d = e
  /\ \A c \in Clients : request[c] \in to_server \cup {None}
  /\ \A c \in Clients : stage[c] = "waiting" => request[c] \in to_server
  /\ main \in {"message", "address", "dispatch"} => incoming \in to_server \cup OtherDatagrams
  /\ \A t \in Threads : thread[t] = "starting" => work[t] \in to_server \cup OtherDatagrams
  /\ \A a \in to_clients : a.from \in to_server /\ a.message_seq = a.from.message_seq

IInv ==
  /\ TypeOK
  /\ LoopInv
  /\ ThreadInv
  /\ Numbers
  /\ AnswerIsOwn
  /\ AnswerIsForFile

(* Nothing has been sent, no thread runs.                                  *)
LEMMA InitIInv == Init => IInv
BY DispatchAssumption DEF Init, IInv, TypeOK, Points, LoopInv, ThreadInv, Numbers, AnswerIsOwn, AnswerIsForFile

(* A fresh request has a number of its own.                                *)
LEMMA StepSend ==
  ASSUME IInv, NEW c \in Clients, NEW command \in {"ADD", "GET"}, NEW n \in Filenames,
         Send(c, command, n)
  PROVE  IInv'
<1> DEFINE datagram == [command |-> command, source |-> c, message_seq |-> sent + 1, data |-> n]
<1>1. sent + 1 \in 1 .. MaxRequests /\ sent' = sent + 1 /\ sent \in Nat
  BY DispatchAssumption DEF Send, IInv, TypeOK
<1>2. datagram \in Requests /\ datagram.message_seq = sent + 1
  BY <1>1 DEF Requests
<1>3. /\ request' = [request EXCEPT ![c] = datagram]
      /\ got' = [got EXCEPT ![c] = None]
      /\ stage' = [stage EXCEPT ![c] = "waiting"]
      /\ to_server' = to_server \cup {datagram}
      /\ UNCHANGED <<to_clients, loop, threads>>
  BY DEF Send
<1> HIDE DEF datagram
<1>4. TypeOK'
  BY <1>1, <1>2, <1>3, DispatchAssumption DEF IInv, TypeOK, loop, threads
<1>5. LoopInv'
  BY <1>3 DEF IInv, LoopInv, loop
<1>6. ThreadInv'
  BY <1>3 DEF IInv, ThreadInv, Started, Right, loop, threads
<1>7. Numbers'
  <2>1. \A d \in to_server : d.message_seq \in Nat /\ d.message_seq <= sent
    BY DEF IInv, TypeOK, Numbers, Requests
  <2>2. \A d \in to_server' : d.message_seq <= sent'
    BY <1>1, <1>2, <1>3, <2>1
  <2>3. \A d, e \in to_server' : d.message_seq = e.message_seq => d = e
    BY <1>1, <1>2, <1>3, <2>1 DEF IInv, Numbers
  <2>4. \A x \in Clients : /\ request'[x] \in to_server' \cup {None}
                           /\ stage'[x] = "waiting" => request'[x] \in to_server'
    BY <1>3 DEF IInv, TypeOK, Numbers
  <2> QED
    BY <1>3, <2>2, <2>3, <2>4 DEF IInv, Numbers, loop, threads
<1>8. AnswerIsOwn' /\ AnswerIsForFile'
  BY <1>3 DEF IInv, TypeOK, AnswerIsOwn, AnswerIsForFile
<1> QED
  BY <1>4, <1>5, <1>6, <1>7, <1>8 DEF IInv

(* Numbers tell answers apart: the one accepted is to the last request.    *)
LEMMA StepReceive ==
  ASSUME IInv, NEW c \in Clients, NEW a \in to_clients, Receive(c, a)
  PROVE  IInv'
<1>1. a.from = request[c]
  BY DEF IInv, Numbers, Receive, Accepts, SeqExpected
<1>2. a.command # "CAN_ADD" => a.data = request[c].data
  BY DEF Receive, Accepts, DataExpected
<1>3. /\ got' = [got EXCEPT ![c] = a]
      /\ stage' = [stage EXCEPT ![c] = IF a.command = "NO_WAY" THEN "again" ELSE "done"]
      /\ UNCHANGED <<request, sent, network, loop, threads>>
  BY DEF Receive
<1>4. AnswerIsOwn' /\ AnswerIsForFile'
  BY <1>1, <1>2, <1>3 DEF IInv, TypeOK, AnswerIsOwn, AnswerIsForFile
<1>5. TypeOK'
  BY <1>3 DEF IInv, TypeOK, network, loop, threads
<1>6. Numbers'
  BY <1>3 DEF IInv, TypeOK, Numbers, network, loop, threads
<1>7. LoopInv' /\ ThreadInv'
  BY <1>3 DEF IInv, LoopInv, ThreadInv, Started, Right, loop, threads
<1> QED
  BY <1>4, <1>5, <1>6, <1>7 DEF IInv

(* A client that gives up, and the loss of an answer.                      *)
LEMMA StepWithout ==
  ASSUME IInv, (\E c \in Clients : Timeout(c)) \/ (\E a \in to_clients : Lose(a))
  PROVE  IInv'
<1>1. ASSUME NEW c \in Clients, Timeout(c)
      PROVE  IInv'
  BY <1>1 DEF Timeout, IInv, TypeOK, Points, LoopInv, ThreadInv, Started, Right, Numbers, AnswerIsOwn,
              AnswerIsForFile, network, loop, threads
<1>2. ASSUME NEW a \in to_clients, Lose(a)
      PROVE  IInv'
  BY <1>2 DEF Lose, IInv, TypeOK, Points, LoopInv, ThreadInv, Started, Right, Numbers, AnswerIsOwn,
              AnswerIsForFile, client, loop, threads
<1> QED
  BY <1>1, <1>2

(* A datagram comes in: nobody who is still to copy is undisturbed.        *)
LEMMA StepRecvfrom ==
  ASSUME IInv, NEW d \in to_server \cup OtherDatagrams, Recvfrom(d)
  PROVE  IInv'
<1>1. /\ d \in Datagrams
      /\ incoming' = d
      /\ main' = "message"
      /\ undisturbed' = {t \in undisturbed : destination_address[t] # None /\ filename[t] # None}
      /\ UNCHANGED <<client, network, message_complex, source_address, thread, work,
                     destination_address, filename>>
  BY DEF Recvfrom, IInv, TypeOK, Datagrams
<1>2. TypeOK'
  BY <1>1 DEF IInv, TypeOK, Points, Datagrams, client, network
<1>3. LoopInv'
  BY <1>1 DEF LoopInv
<1>4. ThreadInv'
  BY <1>1 DEF IInv, ThreadInv, Started, Right
<1>5. Numbers' /\ AnswerIsOwn' /\ AnswerIsForFile'
  BY <1>1 DEF Recvfrom, IInv, Numbers, AnswerIsOwn, AnswerIsForFile, client, network
<1> QED
  BY <1>2, <1>3, <1>4, <1>5 DEF IInv

(* The buffer changes; whoever is undisturbed has copied everything.       *)
LEMMA StepAssignMessage ==
  ASSUME IInv, AssignMessage
  PROVE  IInv'
<1>1. /\ main = "message"
      /\ incoming \in Datagrams
      /\ message_complex' = Content(incoming)
      /\ main' = "address"
      /\ UNCHANGED <<client, network, incoming, source_address, threads>>
  BY DEF AssignMessage, IInv, LoopInv
<1>2. Content(incoming) \in [command : {"ADD", "GET", "LIST", "DEL"}, data : Filenames]
  BY <1>1 DEF Datagrams, Requests, OtherDatagrams, Content
<1>3. TypeOK'
  BY <1>1, <1>2 DEF IInv, TypeOK, Points, client, network, threads
<1>4. LoopInv'
  BY <1>1 DEF LoopInv, Content
<1>5. ThreadInv'
  BY <1>1, <1>2 DEF IInv, ThreadInv, Started, Right, threads
<1>6. Numbers' /\ AnswerIsOwn' /\ AnswerIsForFile'
  BY <1>1 DEF IInv, Numbers, AnswerIsOwn, AnswerIsForFile, client, network, threads
<1> QED
  BY <1>3, <1>4, <1>5, <1>6 DEF IInv

(* The second half of the assignment: message and address agree.           *)
LEMMA StepAssignAddress ==
  ASSUME IInv, AssignAddress
  PROVE  IInv'
<1>1. /\ main = "address"
      /\ incoming \in Datagrams
      /\ source_address' = incoming.source
      /\ main' = "dispatch"
      /\ UNCHANGED <<client, network, incoming, message_complex, threads>>
  BY DEF AssignAddress, IInv, LoopInv
<1>2. incoming.source \in Clients \cup Others
  BY <1>1 DEF Datagrams, Requests, OtherDatagrams
<1>3. TypeOK'
  BY <1>1, <1>2 DEF IInv, TypeOK, Points, client, network, threads
<1>4. LoopInv'
  BY <1>1 DEF IInv, LoopInv, Content
<1>5. ThreadInv'
  BY <1>1, <1>2 DEF IInv, ThreadInv, Started, Right, threads
<1>6. Numbers' /\ AnswerIsOwn' /\ AnswerIsForFile'
  BY <1>1 DEF IInv, Numbers, AnswerIsOwn, AnswerIsForFile, client, network, threads
<1> QED
  BY <1>3, <1>4, <1>5, <1>6 DEF IInv

(* Datagrams that are answered in the loop, or dropped, change no thread.  *)
LEMMA StepNoThread ==
  ASSUME IInv, NoThread
  PROVE  IInv'
<1>1. /\ main = "dispatch"
      /\ main' = "receive"
      /\ incoming' = None
      /\ UNCHANGED <<message_complex, source_address>>
      /\ UNCHANGED <<client, network, threads>>
  BY DEF NoThread, NextDatagram
<1>2. TypeOK' /\ LoopInv'
  BY <1>1 DEF IInv, TypeOK, Points, LoopInv, client, network, threads
<1>3. ThreadInv'
  BY <1>1 DEF IInv, ThreadInv, Started, Right, threads
<1>4. Numbers' /\ AnswerIsOwn' /\ AnswerIsForFile'
  BY <1>1 DEF IInv, Numbers, AnswerIsOwn, AnswerIsForFile, client, network, threads
<1> QED
  BY <1>2, <1>3, <1>4 DEF IInv

(* A thread starts on what the main loop has in its buffers.               *)
LEMMA StepHandler ==
  ASSUME IInv, NEW t \in Threads, Handler(t)
  PROVE  IInv'
<1>1. /\ main = "dispatch"
      /\ incoming \in Datagrams
      /\ incoming.command \in {"ADD", "GET", "LIST"}
      /\ message_complex = Content(incoming)
      /\ source_address = incoming.source
  BY DEF Handler, Assigned, IInv, LoopInv
<1>2. /\ thread' = [thread EXCEPT ![t] = "starting"]
      /\ work' = [work EXCEPT ![t] = incoming]
      /\ destination_address' = [destination_address EXCEPT ![t] = AddressArgument]
      /\ filename' = [filename EXCEPT ![t] = None]
      /\ undisturbed' = undisturbed \cup {t}
      /\ main' = "receive"
      /\ incoming' = None
      /\ UNCHANGED <<message_complex, source_address>>
      /\ UNCHANGED <<client, network>>
  BY DEF Handler, NextDatagram
<1>3. /\ incoming.source \in Clients \cup Others
      /\ Content(incoming) \in [command : {"ADD", "GET", "LIST", "DEL"}, data : Filenames]
  BY <1>1 DEF Datagrams, Requests, OtherDatagrams, Content
<1>4. /\ AddressArgument \in {None, incoming.source}
      /\ incoming.command # "ADD" => AddressArgument = incoming.source
  BY <1>1 DEF AddressArgument
<1>5. TypeOK'
  BY <1>1, <1>2, <1>3, <1>4 DEF IInv, TypeOK, Points, Datagrams, client, network
<1>6. LoopInv'
  BY <1>2 DEF LoopInv
<1>7. ThreadInv'
  <2> SUFFICES ASSUME NEW u \in Threads, thread'[u] = "starting"
               PROVE  Started(u)' /\ (u \in undisturbed' => Right(u)')
    BY DEF ThreadInv
  <2>1. CASE u = t
    <3>1. /\ work'[t] = incoming
          /\ destination_address'[t] = AddressArgument
          /\ filename'[t] = None
      BY <1>2 DEF IInv, TypeOK
    <3> QED
      BY <2>1, <3>1, <1>1, <1>2, <1>3, <1>4 DEF Started, Right
  <2>2. CASE u # t
    <3>1. /\ thread[u] = "starting"
          /\ work'[u] = work[u]
          /\ destination_address'[u] = destination_address[u]
          /\ filename'[u] = filename[u]
          /\ u \in undisturbed' => u \in undisturbed
      BY <1>2, <2>2 DEF IInv, TypeOK
    <3>2. Started(u) /\ (u \in undisturbed => Right(u))
      BY <3>1 DEF IInv, ThreadInv
    <3> QED
      BY <3>1, <3>2, <1>1, <1>2 DEF Started, Right
  <2> QED
    BY <2>1, <2>2
<1>8. Numbers'
  BY <1>1, <1>2 DEF IInv, TypeOK, Numbers, Datagrams, client, network
<1>9. AnswerIsOwn' /\ AnswerIsForFile'
  BY <1>2 DEF IInv, AnswerIsOwn, AnswerIsForFile, client
<1> QED
  BY <1>5, <1>6, <1>7, <1>8, <1>9 DEF IInv

(* The node ends.                                                          *)
LEMMA StepThreadCreationFails ==
  ASSUME IInv, ThreadCreationFails
  PROVE  IInv'
BY DEF ThreadCreationFails, IInv, TypeOK, Points, LoopInv, ThreadInv, Numbers, AnswerIsOwn, AnswerIsForFile,
       client, network

(* An upload thread takes the address out of the loop's variable.          *)
LEMMA StepCopyAddress ==
  ASSUME IInv, NEW t \in Threads, CopyAddress(t)
  PROVE  IInv'
<1>1. /\ thread[t] = "starting"
      /\ destination_address[t] = None
      /\ destination_address' = [destination_address EXCEPT ![t] = source_address]
      /\ UNCHANGED <<client, network, loop, thread, work, filename, undisturbed>>
  BY DEF CopyAddress
<1>2. Started(t) /\ (t \in undisturbed => Right(t))
  BY <1>1 DEF IInv, ThreadInv
<1>3. work[t].source \in Clients \cup Others
  BY <1>2 DEF Started, Datagrams, Requests, OtherDatagrams
<1>4. work[t].command = "ADD"
  BY <1>1, <1>2, <1>3, DispatchAssumption DEF Started
<1>5. TypeOK'
  BY <1>1, <1>2 DEF IInv, TypeOK, Started, client, network, loop
<1>6. ThreadInv'
  <2> SUFFICES ASSUME NEW u \in Threads, thread[u] = "starting"
               PROVE  Started(u)' /\ (u \in undisturbed => Right(u)')
    BY <1>1 DEF ThreadInv
  <2>1. CASE u = t
    <3>1. destination_address'[t] = source_address
      BY <1>1 DEF IInv, TypeOK
    <3> QED
      BY <2>1, <3>1, <1>1, <1>2, <1>4 DEF Started, Right, loop
  <2>2. CASE u # t
    <3>1. destination_address'[u] = destination_address[u]
      BY <1>1, <2>2 DEF IInv, TypeOK
    <3>2. Started(u) /\ (u \in undisturbed => Right(u))
      BY DEF IInv, ThreadInv
    <3> QED
      BY <3>1, <3>2, <1>1 DEF Started, Right, loop
  <2> QED
    BY <2>1, <2>2
<1>7. LoopInv' /\ Numbers' /\ AnswerIsOwn' /\ AnswerIsForFile'
  BY <1>1 DEF IInv, LoopInv, Numbers, AnswerIsOwn, AnswerIsForFile, client, network, loop
<1> QED
  BY <1>5, <1>6, <1>7 DEF IInv

(* Undisturbed, a thread reads the name of its own request.                *)
LEMMA StepCopyFilename ==
  ASSUME IInv, NEW t \in Threads, CopyFilename(t)
  PROVE  IInv'
<1>1. PICK n \in Readable(t) : filename' = [filename EXCEPT ![t] = n]
  BY DEF CopyFilename
<1>2. /\ thread[t] = "starting"
      /\ filename[t] = None
      /\ UNCHANGED <<client, network, loop, thread, work, destination_address, undisturbed>>
  BY DEF CopyFilename
<1>3. Started(t) /\ (t \in undisturbed => Right(t))
  BY <1>2 DEF IInv, ThreadInv
<1>4. n \in Filenames
  BY <1>3 DEF Readable, Started
<1>5. t \in undisturbed => n = work[t].data
  <2> SUFFICES ASSUME t \in undisturbed
               PROVE  n = work[t].data
    OBVIOUS
  <2>1. main = "receive" /\ message_complex = Content(work[t])
    BY <1>2, <1>3 DEF Right
  <2>2. ~BeingChanged /\ SameLayout(t)
    BY <2>1 DEF BeingChanged, SameLayout, Content
  <2> QED
    BY <2>1, <2>2 DEF Readable, Content
<1>6. TypeOK'
  BY <1>1, <1>2, <1>4 DEF IInv, TypeOK, client, network, loop
<1>7. ThreadInv'
  <2> SUFFICES ASSUME NEW u \in Threads, thread[u] = "starting"
               PROVE  Started(u)' /\ (u \in undisturbed => Right(u)')
    BY <1>2 DEF ThreadInv
  <2>1. CASE u = t
    <3>1. filename'[t] = n
      BY <1>1 DEF IInv, TypeOK
    <3> QED
      BY <2>1, <3>1, <1>2, <1>3, <1>5 DEF Started, Right, loop
  <2>2. CASE u # t
    <3>1. filename'[u] = filename[u]
      BY <1>1, <2>2 DEF IInv, TypeOK
    <3>2. Started(u) /\ (u \in undisturbed => Right(u))
      BY DEF IInv, ThreadInv
    <3> QED
      BY <3>1, <3>2, <1>2 DEF Started, Right, loop
  <2> QED
    BY <2>1, <2>2
<1>8. LoopInv' /\ Numbers' /\ AnswerIsOwn' /\ AnswerIsForFile'
  BY <1>2 DEF IInv, LoopInv, Numbers, AnswerIsOwn, AnswerIsForFile, client, network, loop
<1> QED
  BY <1>6, <1>7, <1>8 DEF IInv

(* Only an upload or fetch request is answered, and with its own number.   *)
LEMMA StepAnswer ==
  ASSUME IInv, NEW t \in Threads, Answer(t)
  PROVE  IInv'
<1> DEFINE answer(reply) ==
     [command |-> reply, to |-> destination_address[t], message_seq |-> work[t].message_seq,
      data |-> filename[t], from |-> work[t]]
<1>1. /\ thread[t] = "starting"
      /\ destination_address[t] # None
      /\ filename[t] # None
      /\ thread' = [thread EXCEPT ![t] = "idle"]
      /\ work' = [work EXCEPT ![t] = None]
      /\ destination_address' = [destination_address EXCEPT ![t] = None]
      /\ filename' = [filename EXCEPT ![t] = None]
      /\ undisturbed' = undisturbed \ {t}
      /\ UNCHANGED <<client, to_server, loop>>
  BY DEF Answer, Copied
<1>2. Started(t)
  BY <1>1 DEF IInv, ThreadInv
<1>3. to_clients' = to_clients \/ \E reply \in Replies(t) : to_clients' = to_clients \cup {answer(reply)}
  BY DEF Answer
<1>4. ASSUME NEW reply \in Replies(t)
      PROVE  /\ answer(reply) \in Answers
             /\ answer(reply).from \in to_server
             /\ answer(reply).message_seq = answer(reply).from.message_seq
  <2>1. reply \in {"CAN_ADD", "NO_WAY", "CONNECT_ME"} /\ work[t].command \in {"ADD", "GET"}
    BY <1>2, <1>4 DEF Replies, Started
  <2>2. work[t] \in to_server
    BY <2>1, <1>1 DEF IInv, Numbers, OtherDatagrams
  <2>3. work[t] \in Requests /\ work[t].message_seq \in 1 .. MaxRequests
    BY <2>2 DEF IInv, TypeOK, Requests
  <2>4. destination_address[t] \in Clients \cup Others /\ filename[t] \in Filenames
    BY <1>1 DEF IInv, TypeOK
  <2> QED
    BY <2>1, <2>2, <2>3, <2>4 DEF Answers
<1> HIDE DEF answer
<1>5. /\ to_clients' \in SUBSET Answers
      /\ \A a \in to_clients' : a.from \in to_server /\ a.message_seq = a.from.message_seq
  BY <1>3, <1>4 DEF IInv, TypeOK, Numbers
<1>6. TypeOK'
  BY <1>1, <1>5 DEF IInv, TypeOK, client, loop
<1>7. ThreadInv'
  BY <1>1 DEF IInv, TypeOK, ThreadInv, Started, Right, loop
<1>8. Numbers'
  BY <1>1, <1>5 DEF IInv, TypeOK, Numbers, client, loop
<1>9. LoopInv' /\ AnswerIsOwn' /\ AnswerIsForFile'
  BY <1>1 DEF IInv, LoopInv, AnswerIsOwn, AnswerIsForFile, client, loop
<1> QED
  BY <1>6, <1>7, <1>8, <1>9 DEF IInv

(* Every step keeps the invariant.                                         *)
LEMMA StepIInv == IInv /\ [Next]_vars => IInv'
<1> SUFFICES ASSUME IInv, [Next]_vars
             PROVE  IInv'
  OBVIOUS
<1>1. ASSUME NEW c \in Clients, ClientStep(c)
      PROVE  IInv'
  <2>1. ASSUME NEW n \in Filenames, Fetch(c, n) \/ CanUploadFile(c, n)
        PROVE  IInv'
    BY <2>1, StepSend DEF Fetch, CanUploadFile
  <2> QED
    BY <1>1, <2>1, StepReceive, StepWithout DEF ClientStep
<1>2. ASSUME NEW a \in to_clients, Lose(a)
      PROVE  IInv'
  BY <1>2, StepWithout
<1>3. ASSUME LoopStep
      PROVE  IInv'
  BY <1>3, StepRecvfrom, StepAssignMessage, StepAssignAddress, StepNoThread, StepHandler, StepThreadCreationFails
     DEF LoopStep
<1>4. ASSUME NEW t \in Threads, ThreadStep(t)
      PROVE  IInv'
  BY <1>4, StepCopyAddress, StepCopyFilename, StepAnswer DEF ThreadStep
<1>5. ASSUME UNCHANGED vars
      PROVE  IInv'
  BY <1>5 DEF vars, client, network, loop, threads, IInv, TypeOK, LoopInv, ThreadInv, Started, Right, Numbers,
              AnswerIsOwn, AnswerIsForFile
<1> QED
  BY <1>1, <1>2, <1>3, <1>4, <1>5 DEF Next

(* So the invariant holds throughout.                                      *)
LEMMA Invariance == Spec => []IInv
BY InitIInv, StepIInv, PTL DEF Spec

(* Every state is well typed.                                              *)
THEOREM TypeCorrect == Spec => []TypeOK
BY Invariance, PTL DEF IInv

(* A thread that no datagram has overtaken works on the request it was     *)
(* started for: the reference and the pointer it is given are read in time.*)
THEOREM UndisturbedRight == Spec => []UndisturbedIsRight
<1>1. IInv => UndisturbedIsRight
  BY DEF IInv, ThreadInv, Right, Copied, UndisturbedIsRight
<1> QED
  BY <1>1, Invariance, PTL

(* A fetch or list request is answered to its client, however late: its    *)
(* address is passed by value.                                             *)
THEOREM AddressByValue == Spec => []AddressKept
<1>1. IInv => AddressKept
  BY DEF IInv, ThreadInv, Started, Copied, AddressKept
<1> QED
  BY <1>1, Invariance, PTL

(* A client accepts an answer to its last request only: no two requests    *)
(* have the same number.                                                   *)
THEOREM OwnAnswer == Spec => []AnswerIsOwn
BY Invariance, PTL DEF IInv

(* A fetch or a refusal that is accepted is about the file that was named. *)
THEOREM RightFile == Spec => []AnswerIsForFile
BY Invariance, PTL DEF IInv
=============================================================================
