---------------------------- MODULE UploadProofs ----------------------------
(***************************************************************************)
(* Proofs about Upload, for any finite set of servers and any file.        *)
(***************************************************************************)
EXTENDS Upload, FiniteSetTheorems, TLAPS

(* The list of servers has an entry for each answer.                       *)
Discovered == Len(found) = Cardinality(answered) /\ tried <= Len(found)

(* Only the thread whose acceptance was taken gets a connection, and before*)
(* that nothing is sent.                                                   *)
Stages ==
  /\ client \in {"start", "discover", "choose", "ask", "wait", "connect"} => connection = "none"
  /\ client = "dead" => connection # "up"
  /\ client \in {"open", "send"} => connection \in {"up", "ended", "broken"}
  /\ client \in {"wait", "connect"} => tried \in Requests
  /\ client # "done" => report = "none"
  /\ report = "too big" => connection = "none"
  /\ connection = "none" => received = 0 /\ sent = 0 /\ wire = 0 /\ report # "uploaded"
  /\ connection # "none" =>
       tried \in Requests /\ thread[tried] \in {"announced", "receive", "stored", "released"}
  /\ \A n \in Requests : n > tried => thread[n] = "none"
  /\ \A n \in Requests : n # tried \/ connection = "none" => thread[n] \notin {"receive", "stored"}

(* As long as nothing has disturbed the transfer, what was sent has been   *)
(* read or is under way, and the server has ended it only with the whole   *)
(* file.                                                                   *)
Transfer ==
  connection # "none" /\ ~disturbed =>
    /\ connection = "up" => thread[tried] \in {"announced", "receive"}
    /\ connection \in {"up", "closed"} /\ thread[tried] \in {"announced", "receive"} => received + wire = sent
    /\ connection \in {"ended", "broken"} => thread[tried] = "stored"
    /\ connection = "broken" => sent > Blocks

IInv == TypeOK /\ Discovered /\ Stages /\ Transfer /\ UploadedArrives

(* No request, no connection.                                              *)
LEMMA InitIInv == Init => IInv
<1> SUFFICES ASSUME Init
             PROVE  IInv
  OBVIOUS
<1>1. TypeOK
  <2>1. room \in [Servers -> BOOLEAN] /\ listed \in [Servers -> BOOLEAN]
    BY DEF Init
  <2>2. disturbed \in BOOLEAN
    BY DEF Init
  <2> QED
    BY <2>1, <2>2, UploadAssumption DEF Init, TypeOK
<1>2. Discovered
  BY FS_EmptySet DEF Init, Discovered
<1>3. Stages /\ Transfer /\ UploadedArrives
  BY DEF Init, Stages, Transfer, UploadedArrives
<1> QED
  BY <1>1, <1>2, <1>3 DEF IInv

(* The servers are finitely many, so there is a request for every answer.  *)
LEMMA AnswersBounded ==
  ASSUME IInv
  PROVE  Len(found) <= Cardinality(Servers) /\ Cardinality(Servers) \in Nat
<1>1. answered \subseteq Servers /\ IsFiniteSet(Servers)
  BY UploadAssumption DEF IInv, TypeOK
<1>2. Cardinality(answered) <= Cardinality(Servers)
  BY <1>1, FS_Subset
<1>3. Cardinality(Servers) \in Nat
  BY <1>1, FS_CardinalityType
<1> QED
  BY <1>2, <1>3 DEF IInv, Discovered

(* The counters.                                                           *)
LEMMA CounterTypes ==
  ASSUME IInv
  PROVE  /\ sent \in Nat /\ wire \in Nat /\ received \in Nat /\ received <= Blocks /\ Blocks \in Nat
         /\ tried \in Nat /\ Len(found) \in Nat
<1>1. TypeOK
  BY DEF IInv
<1>2. sent \in Nat /\ wire \in Nat /\ tried \in Nat
  BY <1>1 DEF TypeOK
<1>3. received \in 0 .. Blocks
  BY <1>1 DEF TypeOK
<1>4. found \in Seq(BOOLEAN)
  BY <1>1 DEF TypeOK
<1>5. Len(found) \in Nat
  BY <1>4
<1> QED
  BY <1>2, <1>3, <1>5, UploadAssumption

(* What the client does before it connects, apart from sending requests.   *)
LEMMA StepDiscover ==
  ASSUME IInv, NEW s \in Servers, DiscoverAnswer(s)
  PROVE  IInv'
<1>1. /\ s \notin answered
      /\ answered' = answered \cup {s}
      /\ found' = Append(found, room[s])
      /\ address' = s
      /\ UNCHANGED <<server, client, tried, copy, report, tcp>>
  BY DEF DiscoverAnswer
<1>2. found' \in Seq(BOOLEAN) /\ Len(found') = Len(found) + 1
  <2>1. found \in Seq(BOOLEAN) /\ room[s] \in BOOLEAN
    BY DEF IInv, TypeOK
  <2> QED
    BY <1>1, <2>1
<1>3. TypeOK'
  BY <1>1, <1>2 DEF IInv, TypeOK, server, copy, tcp
<1>4. Discovered'
  <2>1. IsFiniteSet(answered)
    BY UploadAssumption, FS_Subset DEF IInv, TypeOK
  <2>2. Cardinality(answered') = Cardinality(answered) + 1 /\ Cardinality(answered) \in Nat
    BY <1>1, <2>1, FS_AddElement, FS_CardinalityType
  <2>3. Len(found) = Cardinality(answered) /\ tried <= Len(found) /\ tried \in Nat
    BY DEF IInv, Discovered, TypeOK
  <2> QED
    BY <1>1, <1>2, <2>2, <2>3 DEF Discovered
<1>5. Stages' /\ Transfer' /\ UploadedArrives'
  BY <1>1 DEF IInv, Stages, Transfer, UploadedArrives, server, copy, tcp
<1> QED
  BY <1>3, <1>4, <1>5 DEF IInv

(* The client's steps before there is a connection.                        *)
LEMMA StepBefore ==
  ASSUME IInv,
         \/ Start \/ DiscoverEnds \/ Choose \/ NoServerLeft \/ NoAnswer
         \/ \E n \in Requests : ReceiveAnswer(n)
  PROVE  IInv'
<1>1. /\ client \in {"start", "discover", "choose", "ask", "wait"}
      /\ \/ client' \in {"discover", "choose", "ask", "dead"} /\ report' = report
         \/ client = "wait" /\ client' \in {"wait", "connect"} /\ report' = report
         \/ client' = "done" /\ report' \in {"no such file", "nothing", "too big"}
      /\ answer' \in [Requests -> {"none", "yes", "no"}]
      /\ UNCHANGED <<room, listed, thread, received, loop, copy, tcp>>
  BY DEF Start, DiscoverEnds, Choose, NoServerLeft, NoAnswer, ReceiveAnswer, Report, server, IInv, TypeOK
<1>2. client' \in {"start", "discover", "choose", "ask", "wait", "connect", "open", "send", "done", "dead"}
  BY <1>1
<1>3. report' \in {"none", "nothing", "no such file", "too big", "failure", "uploaded"}
  BY <1>1 DEF IInv, TypeOK
<1>4. TypeOK'
  BY <1>1, <1>2, <1>3 DEF IInv, TypeOK, loop, copy, tcp
<1>5. connection = "none" /\ report = "none"
  BY <1>1 DEF IInv, Stages
<1>6. Discovered' /\ Transfer'
  BY <1>1, <1>5 DEF IInv, Discovered, Transfer, loop, tcp
<1>7. report' # "uploaded"
  BY <1>1, <1>5
<1>8. Stages'
  BY <1>1, <1>5, <1>7 DEF IInv, Stages, loop, copy, tcp
<1> QED
  BY <1>4, <1>6, <1>7, <1>8 DEF IInv, UploadedArrives

(* Each request has a server in the list, and is sent once.                *)
LEMMA StepCanUploadFile ==
  ASSUME IInv, CanUploadFile
  PROVE  IInv'
<1>1. /\ client = "ask" /\ client' \in {"ask", "wait"}
      /\ tried < Len(found) /\ tried' = tried + 1
      /\ thread' \in {thread, [thread EXCEPT ![tried + 1] = "sent"]}
      /\ UNCHANGED <<room, listed, answer, received, found, answered, address, copy, report, tcp>>
  BY DEF CanUploadFile
<1>2. tried \in Nat /\ Len(found) \in Nat /\ tried + 1 \in Requests
  <2>1. tried \in Nat /\ Len(found) \in Nat
    BY CounterTypes
  <2> QED
    BY <1>1, <2>1, AnswersBounded DEF Requests
<1>3. thread' \in [Requests -> {"none", "sent", "refused", "announced", "receive", "stored", "released"}]
  BY <1>1, <1>2 DEF IInv, TypeOK
<1>4. TypeOK'
  <2>1. tried' \in Nat
    BY <1>1, <1>2
  <2>2. client' \in {"start", "discover", "choose", "ask", "wait", "connect", "open", "send", "done", "dead"}
    BY <1>1
  <2> QED
    BY <1>1, <1>3, <2>1, <2>2 DEF IInv, TypeOK, copy, tcp
<1>5. Discovered'
  BY <1>1, <1>2 DEF IInv, Discovered
<1>6. connection = "none" /\ report = "none"
  BY <1>1 DEF IInv, Stages
<1>7. \A n \in Requests : n > tried' => thread'[n] = "none"
  <2> SUFFICES ASSUME NEW n \in Requests, n > tried'
               PROVE  thread'[n] = "none"
    OBVIOUS
  <2>1. n \in Int
    BY DEF Requests
  <2>2. n > tried /\ n # tried + 1
    BY <1>1, <1>2, <2>1
  <2>3. thread[n] = "none"
    BY <2>2 DEF IInv, Stages
  <2> QED
    BY <1>1, <2>2, <2>3 DEF IInv, TypeOK
<1>8. \A n \in Requests : thread'[n] \notin {"receive", "stored"}
  BY <1>1, <1>6 DEF IInv, TypeOK, Stages
<1>9. Stages'
  BY <1>1, <1>2, <1>6, <1>7, <1>8 DEF IInv, Stages, copy, tcp
<1>10. Transfer' /\ UploadedArrives'
  BY <1>1, <1>6 DEF Transfer, UploadedArrives, tcp
<1> QED
  BY <1>4, <1>5, <1>9, <1>10 DEF IInv

(* The transfer.                                                           *)
LEMMA StepConnect ==
  ASSUME IInv, Connect
  PROVE  IInv'
<1>1. /\ client = "connect"
      /\ \/ thread[tried] = "announced" /\ connection' = "up" /\ client' = "open" /\ report' = report
         \/ client' = "done" /\ report' = "failure" /\ (connection = "none" => connection' = "none")
      /\ UNCHANGED <<server, loop, copy, wire, disturbed>>
  BY DEF Connect, Return, AfterTransfer
<1>2. connection = "none" /\ report = "none" /\ tried \in Requests
  BY <1>1 DEF IInv, Stages
<1>3. TypeOK'
  <2>1. /\ client' \in {"open", "done"} /\ report' \in {"none", "failure"} /\ connection' \in {"up", "none"}
    BY <1>1, <1>2
  <2> QED
    BY <1>1, <2>1 DEF IInv, TypeOK, server, loop, copy
<1>4. received = 0 /\ sent = 0 /\ wire = 0
  BY <1>2 DEF IInv, Stages
<1>5. Discovered' /\ Transfer'
  BY <1>1, <1>2, <1>4 DEF IInv, Discovered, Transfer, server, loop, copy
<1>6. Stages'
  BY <1>1, <1>2, <1>4 DEF IInv, Stages, server, loop, copy
<1>7. report' # "uploaded"
  BY <1>1, <1>2
<1> QED
  BY <1>3, <1>5, <1>6, <1>7 DEF IInv, UploadedArrives

(* The client opens the file, or gives up and closes.                      *)
LEMMA StepOpenFile ==
  ASSUME IInv, OpenFile
  PROVE  IInv'
<1>1. /\ client = "open"
      /\ \/ client' = "send" /\ report' = report /\ connection' = connection
         \/ /\ client' = "done" /\ report' = "failure"
            /\ connection' = IF connection = "up" THEN "closed" ELSE connection
      /\ length' \in Nat
      /\ UNCHANGED <<server, loop, sent, wire, disturbed>>
  <2>1. length \in Nat
    BY DEF IInv, TypeOK
  <2>2. length' \in Nat
    BY <2>1, UploadAssumption DEF OpenFile
  <2> QED
    BY <2>2 DEF OpenFile, Return, AfterTransfer
<1>2. connection \in {"up", "ended", "broken"} /\ report = "none"
  BY <1>1 DEF IInv, Stages
<1>3. TypeOK'
  <2>1. /\ client' \in {"send", "done"} /\ report' \in {"none", "failure"}
        /\ connection' \in {"up", "closed", "ended", "broken"}
    BY <1>1, <1>2
  <2> QED
    BY <1>1, <2>1 DEF IInv, TypeOK, server, loop
<1>4. Discovered'
  BY <1>1 DEF IInv, Discovered, loop
<1>5. Transfer'
  BY <1>1, <1>2 DEF IInv, Transfer, server, loop
<1>6. Stages'
  BY <1>1, <1>2 DEF IInv, Stages, server, loop
<1>7. report' # "uploaded"
  BY <1>1, <1>2
<1> QED
  BY <1>3, <1>4, <1>5, <1>6, <1>7 DEF IInv, UploadedArrives

(* What the client sends is under way while the connection is up.          *)
LEMMA StepSendBlock ==
  ASSUME IInv, SendBlock
  PROVE  IInv'
<1>1. /\ client = "send" /\ sent' = sent + 1
      /\ wire' = IF connection = "up" THEN wire + 1 ELSE wire
      /\ UNCHANGED <<server, client, loop, length, report, connection, disturbed>>
  BY DEF SendBlock
<1>2. connection \in {"up", "ended", "broken"} /\ report = "none"
  BY <1>1 DEF IInv, Stages
<1>3. sent \in Nat /\ wire \in Nat /\ received \in Nat /\ Blocks \in Nat
  BY CounterTypes
<1>4. TypeOK'
  <2>1. sent' \in Nat /\ wire' \in Nat
    BY <1>1, <1>3
  <2> QED
    BY <1>1, <2>1 DEF IInv, TypeOK, server, loop
<1>5. Discovered'
  BY <1>1 DEF IInv, Discovered, loop
<1>6. Transfer'
  BY <1>1, <1>2, <1>3 DEF IInv, Transfer, server, loop
<1>7. Stages'
  BY <1>1, <1>2 DEF IInv, Stages, server, loop
<1> QED
  BY <1>1, <1>2, <1>4, <1>5, <1>6, <1>7 DEF IInv, UploadedArrives

(* A client that has sent as much as it announced reports success.         *)
LEMMA StepSendEnds ==
  ASSUME IInv, WriteFails \/ SendEnds, client' # "dead"
  PROVE  IInv'
<1>1. /\ client = "send" /\ client' = "done"
      /\ \/ report' = "failure"
         \/ report' = "uploaded" /\ sent = Blocks
      /\ connection' = IF connection = "up" THEN "closed" ELSE connection
      /\ UNCHANGED <<server, loop, copy, wire, disturbed>>
  BY DEF WriteFails, SendEnds, Complete, Return, AfterTransfer
<1>2. connection \in {"up", "ended", "broken"} /\ report = "none"
  BY <1>1 DEF IInv, Stages
<1>3. TypeOK'
  <2>1. report' \in {"failure", "uploaded"} /\ connection' \in {"closed", "ended", "broken"}
    BY <1>1, <1>2
  <2> QED
    BY <1>1, <2>1 DEF IInv, TypeOK, server, loop, copy
<1>4. Discovered'
  BY <1>1 DEF IInv, Discovered, loop
<1>5. Transfer'
  BY <1>1, <1>2 DEF IInv, Transfer, server, loop, copy
<1>6. Stages'
  BY <1>1, <1>2 DEF IInv, Stages, server, loop, copy
<1>7. UploadedArrives'
  <2> SUFFICES ASSUME report' = "uploaded", ~disturbed
               PROVE  UploadedArrives'
    BY <1>1 DEF UploadedArrives
  <2>1. sent = Blocks
    BY <1>1
  <2>2. CASE connection = "up"
    <3>1. thread[tried] \in {"announced", "receive"} /\ received + wire = sent /\ connection' = "closed"
      BY <1>1, <2>2 DEF IInv, Transfer
    <3> QED
      BY <1>1, <2>1, <3>1 DEF UploadedArrives, server, loop
  <2>3. CASE connection \in {"ended", "broken"}
    <3>1. thread[tried] = "stored"
      BY <2>3 DEF IInv, Transfer
    <3> QED
      BY <1>1, <3>1 DEF UploadedArrives, server, loop
  <2> QED
    BY <1>2, <2>2, <2>3
<1> QED
  BY <1>3, <1>4, <1>5, <1>6, <1>7 DEF IInv

(* A client that writes to a dead connection may be killed: it reports      *)
(* nothing.                                                                *)
LEMMA StepKilled ==
  ASSUME IInv, WriteFails, client' = "dead"
  PROVE  IInv'
<1>1. /\ client = "send" /\ connection \in {"broken", "ended"}
      /\ UNCHANGED <<server, loop, copy, report, tcp>>
  BY DEF WriteFails, Return, AfterTransfer, tcp
<1>2. TypeOK' /\ Discovered' /\ Transfer' /\ UploadedArrives'
  BY <1>1 DEF IInv, TypeOK, Discovered, Transfer, UploadedArrives, server, loop, copy, tcp
<1>3. Stages'
  BY <1>1 DEF IInv, Stages, server, loop, copy, tcp
<1> QED
  BY <1>2, <1>3 DEF IInv

(* The servers.                                                            *)
LEMMA StepRoomChanges ==
  ASSUME IInv, NEW s \in Servers, RoomChanges(s)
  PROVE  IInv'
<1>1. /\ room' = [room EXCEPT ![s] = ~@]
      /\ UNCHANGED <<listed, thread, answer, received, client, loop, copy, report, tcp>>
  BY DEF RoomChanges
<1>2. room' \in [Servers -> BOOLEAN]
  BY <1>1 DEF IInv, TypeOK
<1>3. TypeOK'
  BY <1>1, <1>2 DEF IInv, TypeOK, loop, copy, tcp
<1>4. Discovered' /\ Stages' /\ Transfer' /\ UploadedArrives'
  BY <1>1 DEF IInv, Discovered, Stages, Transfer, UploadedArrives, loop, copy, tcp
<1> QED
  BY <1>3, <1>4 DEF IInv

(* A thread answers a request that is no longer new.                       *)
LEMMA StepHandleUploadRequest ==
  ASSUME IInv, NEW n \in Requests, HandleUploadRequest(n)
  PROVE  IInv'
<1>1. PICK point \in {"announced", "released", "refused"} :
        /\ thread[n] = "sent"
        /\ thread' = [thread EXCEPT ![n] = point]
        /\ listed' \in {listed, [listed EXCEPT ![address] = TRUE]}
        /\ answer' \in {answer, [answer EXCEPT ![n] = "yes"], [answer EXCEPT ![n] = "no"]}
        /\ UNCHANGED <<room, received, client, loop, copy, report, tcp>>
  BY DEF HandleUploadRequest
<1>2. listed' \in [Servers -> BOOLEAN]
  BY <1>1 DEF IInv, TypeOK
<1>3. answer' \in [Requests -> {"none", "yes", "no"}]
  BY <1>1 DEF IInv, TypeOK
<1>4. thread' \in [Requests -> {"none", "sent", "refused", "announced", "receive", "stored", "released"}]
  BY <1>1 DEF IInv, TypeOK
<1>5. TypeOK'
  BY <1>1, <1>2, <1>3, <1>4 DEF IInv, TypeOK, loop, copy, tcp
<1>6. /\ \A m \in Requests : m # n => thread'[m] = thread[m]
      /\ thread'[n] = point
      /\ ~ (n > tried)
  BY <1>1 DEF IInv, TypeOK, Stages
<1>7. connection # "none" => tried \in Requests /\ tried # n
  BY <1>1 DEF IInv, Stages
<1>8. connection # "none" => thread'[tried] = thread[tried]
  BY <1>6, <1>7
<1>9. report = "uploaded" => connection # "none"
  BY DEF IInv, Stages
<1>10. UNCHANGED <<received, client, found, answered, tried, sent, report, connection, wire, disturbed>>
  BY <1>1 DEF loop, copy, tcp
<1>11. Discovered'
  BY <1>10 DEF IInv, Discovered
<1>12. Transfer' /\ UploadedArrives'
  BY <1>8, <1>9, <1>10 DEF IInv, Transfer, UploadedArrives
<1>13. \A m \in Requests : m > tried => thread'[m] = "none"
  BY <1>6 DEF IInv, Stages
<1>14. \A m \in Requests : m # tried \/ connection = "none" => thread'[m] \notin {"receive", "stored"}
  BY <1>6 DEF IInv, Stages
<1>15. Stages'
  BY <1>8, <1>10, <1>13, <1>14 DEF IInv, Stages
<1> QED
  BY <1>5, <1>11, <1>12, <1>15 DEF IInv

(* What a step of a server thread may do to the other threads.             *)
LEMMA ThreadFrame ==
  ASSUME IInv, NEW n \in Requests, thread[n] \in {"announced", "receive"},
         NEW point \in {"receive", "stored", "released"}, thread' = [thread EXCEPT ![n] = point],
         point # "released" => n = tried /\ connection # "none",
         UNCHANGED <<client, loop, copy, report>>,
         received' \in Nat, connection = "none" => received' = 0 /\ wire' = 0,
         IF connection = "none" THEN connection' = "none"
                                ELSE connection' = connection \/ connection' \in {"ended", "broken"}
  PROVE  Discovered' /\ Stages'
<1>1. /\ \A m \in Requests : m # n => thread'[m] = thread[m]
      /\ thread'[n] = point
      /\ ~ (n > tried)
  BY DEF IInv, TypeOK, Stages
<1>2. UNCHANGED <<client, found, answered, tried, sent, report>>
  BY DEF loop, copy
<1>3. Discovered'
  BY <1>2 DEF IInv, Discovered
<1>4. \A m \in Requests : m > tried => thread'[m] = "none"
  BY <1>1 DEF IInv, Stages
<1>5. \A m \in Requests : m # tried \/ connection = "none" => thread'[m] \notin {"receive", "stored"}
  BY <1>1 DEF IInv, Stages
<1>6. connection # "none" =>
        tried \in Requests /\ thread'[tried] \in {"announced", "receive", "stored", "released"}
  BY <1>1 DEF IInv, Stages
<1>7. connection' = "none" <=> connection = "none"
  OBVIOUS
<1>8. Stages'
  BY <1>2, <1>4, <1>5, <1>6, <1>7 DEF IInv, Stages
<1> QED
  BY <1>3, <1>8

(* A thread that gives up, without or with its client.                     *)
LEMMA StepGivesUp ==
  ASSUME IInv, NEW n \in Requests, SelectTimesOut(n) \/ ServerFails(n) \/ PartReceived(n)
  PROVE  IInv'
<1>1. /\ thread[n] \in {"announced", "receive"}
      /\ thread' = [thread EXCEPT ![n] = "released"]
      /\ listed' = [listed EXCEPT ![address] = FALSE]
      /\ UNCHANGED <<room, answer, received, client, loop, copy, report>>
      /\ \/ connection' = "broken" /\ wire' = 0 /\ disturbed' = TRUE
         \/ UNCHANGED tcp
  BY DEF SelectTimesOut, ServerFails, PartReceived, CleanUp
<1>2. listed' \in [Servers -> BOOLEAN]
  BY <1>1 DEF IInv, TypeOK
<1>3. thread' \in [Requests -> {"none", "sent", "refused", "announced", "receive", "stored", "released"}]
  BY <1>1 DEF IInv, TypeOK
<1>4. /\ connection' \in {"none", "up", "closed", "ended", "broken"}
      /\ wire' \in Nat
      /\ disturbed' \in BOOLEAN
  <2>1. disturbed \in BOOLEAN /\ wire \in Nat
    BY DEF IInv, TypeOK
  <2>2. connection \in {"none", "up", "closed", "ended", "broken"}
    BY DEF IInv, TypeOK
  <2>3. CASE UNCHANGED tcp
    BY <2>1, <2>2, <2>3 DEF tcp
  <2>4. CASE connection' = "broken" /\ wire' = 0 /\ disturbed' = TRUE
    BY <2>4
  <2> QED
    BY <1>1, <2>3, <2>4
<1>5. TypeOK'
  BY <1>1, <1>2, <1>3, <1>4 DEF IInv, TypeOK, loop, copy
<1>6. connection = "none" => UNCHANGED tcp
  BY DEF IInv, Stages, SelectTimesOut, ServerFails, PartReceived, Connected
<1>7. received' \in Nat
  BY <1>1, CounterTypes
<1>8. connection = "none" => received' = 0 /\ wire' = 0
  BY <1>1, <1>6 DEF IInv, Stages, tcp
<1>9. IF connection = "none" THEN connection' = "none"
                             ELSE connection' = connection \/ connection' \in {"ended", "broken"}
  BY <1>1, <1>6 DEF tcp
<1>10. Discovered' /\ Stages'
  BY <1>1, <1>7, <1>8, <1>9, ThreadFrame
<1>11. ~disturbed' /\ connection # "none" /\ n = tried =>
         /\ thread[n] = "receive" /\ received < Blocks /\ wire = 0
         /\ connection \in {"closed", "broken"}
  BY <1>1 DEF SelectTimesOut, ServerFails, PartReceived, Connected, tcp
<1>12. Transfer' /\ UploadedArrives'
  <2> SUFFICES ASSUME ~disturbed', connection # "none"
               PROVE  Transfer' /\ UploadedArrives'
    <3>1. connection = "none" => connection' = "none" /\ report' # "uploaded"
      BY <1>1, <1>6 DEF IInv, Stages, tcp
    <3> QED
      BY <3>1 DEF Transfer, UploadedArrives
  <2>1. UNCHANGED tcp
    BY <1>1
  <2>2. UNCHANGED <<tried, sent, report, received, connection, wire, disturbed>>
    BY <1>1, <2>1 DEF loop, copy, tcp
  <2>3. CASE n # tried
    <3>1. tried \in Requests
      BY DEF IInv, Stages
    <3>2. thread'[tried] = thread[tried]
      BY <1>1, <2>3, <3>1 DEF IInv, TypeOK
    <3> QED
      BY <2>2, <3>2 DEF IInv, Transfer, UploadedArrives
  <2>4. CASE n = tried
    <3>1. thread[tried] = "receive" /\ received < Blocks /\ wire = 0 /\ connection \in {"closed", "broken"}
      BY <1>11, <2>4
    <3>2. connection = "closed"
      BY <2>2, <3>1 DEF IInv, Transfer
    <3>3. thread'[tried] = "released"
      BY <1>1, <2>4 DEF IInv, TypeOK
    <3>4. report # "uploaded"
      <4>1. received + wire # Blocks
        BY <3>1, CounterTypes
      <4> QED
        BY <2>2, <3>1, <4>1 DEF IInv, UploadedArrives
    <3> QED
      BY <2>2, <3>2, <3>3, <3>4 DEF Transfer, UploadedArrives
  <2> QED
    BY <2>3, <2>4
<1> QED
  BY <1>5, <1>10, <1>12 DEF IInv

(* Only the thread that the client has connected to goes on.               *)
LEMMA StepAccept ==
  ASSUME IInv, NEW n \in Requests, Accept(n)
  PROVE  IInv'
<1>1. /\ thread[n] = "announced" /\ n = tried /\ connection # "none"
      /\ thread' = [thread EXCEPT ![n] = "receive"]
      /\ UNCHANGED <<room, listed, answer, received, client, loop, copy, report, tcp>>
  BY DEF Accept, Connected
<1>2. thread' \in [Requests -> {"none", "sent", "refused", "announced", "receive", "stored", "released"}]
  BY <1>1 DEF IInv, TypeOK
<1>3. TypeOK'
  BY <1>1, <1>2 DEF IInv, TypeOK, loop, copy, tcp
<1>4. Discovered' /\ Stages'
  BY <1>1, CounterTypes, ThreadFrame DEF tcp
<1>5. thread'[tried] = "receive"
  BY <1>1 DEF IInv, TypeOK
<1>6. UNCHANGED <<tried, sent, report, received, connection, wire, disturbed>>
  BY <1>1 DEF loop, copy, tcp
<1>7. Transfer' /\ UploadedArrives'
  BY <1>1, <1>5, <1>6 DEF IInv, Transfer, UploadedArrives
<1> QED
  BY <1>3, <1>4, <1>7 DEF IInv

(* A block moves from the connection to the server.                        *)
LEMMA StepReceiveBlock ==
  ASSUME IInv, NEW n \in Requests, ReceiveBlock(n)
  PROVE  IInv'
<1>1. /\ thread[n] = "receive" /\ received < Blocks /\ wire > 0
      /\ received' = received + 1 /\ wire' = wire - 1
      /\ UNCHANGED <<room, listed, thread, answer, client, loop, copy, report, connection, disturbed>>
  BY DEF ReceiveBlock
<1>2. n = tried /\ connection # "none"
  BY <1>1 DEF IInv, Stages
<1>3. received' \in 0 .. Blocks /\ wire' \in Nat /\ received' + wire' = received + wire
  BY <1>1, CounterTypes
<1>4. TypeOK'
  BY <1>1, <1>3 DEF IInv, TypeOK, loop, copy
<1>5. UNCHANGED <<client, found, answered, tried, sent, report, thread, connection, disturbed>>
  BY <1>1 DEF loop, copy
<1>6. Discovered' /\ Stages'
  BY <1>2, <1>5 DEF IInv, Discovered, Stages
<1>7. Transfer'
  BY <1>3, <1>5 DEF IInv, Transfer
<1>8. UploadedArrives'
  BY <1>3, <1>5 DEF IInv, UploadedArrives
<1> QED
  BY <1>4, <1>6, <1>7, <1>8 DEF IInv

(* A thread that has all it was promised ends the connection.              *)
LEMMA StepAllReceived ==
  ASSUME IInv, NEW n \in Requests, AllReceived(n)
  PROVE  IInv'
<1>1. /\ thread[n] = "receive" /\ received = Blocks
      /\ thread' = [thread EXCEPT ![n] = "stored"]
      /\ connection' = IF wire > 0 THEN "broken" ELSE IF connection = "up" THEN "ended" ELSE connection
      /\ UNCHANGED <<room, listed, answer, received, client, loop, copy, report, wire, disturbed>>
  BY DEF AllReceived
<1>2. n = tried /\ connection # "none"
  BY <1>1 DEF IInv, Stages
<1>3. /\ wire > 0 => connection' = "broken"
      /\ ~(wire > 0) /\ connection = "up" => connection' = "ended"
      /\ ~(wire > 0) /\ connection # "up" => connection' = connection
  BY <1>1
<1>4. thread' \in [Requests -> {"none", "sent", "refused", "announced", "receive", "stored", "released"}]
  BY <1>1 DEF IInv, TypeOK
<1>5. connection' \in {"none", "up", "closed", "ended", "broken"}
  BY <1>3 DEF IInv, TypeOK
<1>6. TypeOK'
  BY <1>1, <1>4, <1>5 DEF IInv, TypeOK, loop, copy
<1>7. Discovered' /\ Stages'
  BY <1>1, <1>2, <1>3, CounterTypes, ThreadFrame
<1>8. thread'[tried] = "stored"
  BY <1>1, <1>2 DEF IInv, TypeOK
<1>9. UNCHANGED <<tried, sent, report, received, wire, disturbed>>
  BY <1>1 DEF loop, copy
<1>10. UploadedArrives'
  BY <1>8, <1>9 DEF UploadedArrives
<1>11. Transfer'
  <2> SUFFICES ASSUME ~disturbed
               PROVE  Transfer'
    BY <1>9 DEF Transfer
  <2>1. connection \in {"up", "closed"} /\ received + wire = sent
    <3>1. connection \in {"none", "up", "closed", "ended", "broken"}
      BY DEF IInv, TypeOK
    <3> QED
      BY <3>1, <1>1, <1>2 DEF IInv, Transfer
  <2>2. connection' # "up" /\ (connection' = "broken" => sent > Blocks)
    BY <1>1, <1>3, <2>1, CounterTypes
  <2> QED
    BY <1>8, <1>9, <2>2 DEF Transfer
<1> QED
  BY <1>6, <1>7, <1>10, <1>11 DEF IInv

(* A broken connection counts as disturbed.                                *)
LEMMA StepConnectionBreaks ==
  ASSUME IInv, ConnectionBreaks
  PROVE  IInv'
<1>1. /\ connection \in {"up", "closed"} /\ connection' = "broken" /\ wire' = 0 /\ disturbed' = TRUE
      /\ UNCHANGED <<server, client, loop, copy, report>>
  BY DEF ConnectionBreaks
<1>2. TypeOK'
  BY <1>1 DEF IInv, TypeOK, server, loop, copy
<1>3. UNCHANGED <<client, found, answered, tried, sent, report, thread, received>>
  BY <1>1 DEF server, loop, copy
<1>4. Discovered' /\ Stages'
  BY <1>1, <1>3 DEF IInv, Discovered, Stages
<1>5. Transfer' /\ UploadedArrives'
  BY <1>1 DEF Transfer, UploadedArrives
<1> QED
  BY <1>2, <1>4, <1>5 DEF IInv

(* Every step keeps the invariant.                                         *)
LEMMA StepIInv == IInv /\ [Next]_vars => IInv'
<1> SUFFICES ASSUME IInv, [Next]_vars
             PROVE  IInv'
  OBVIOUS
<1>1. ASSUME UNCHANGED vars
      PROVE  IInv'
  <2>1. TypeOK'
    BY <1>1 DEF vars, server, loop, copy, tcp, IInv, TypeOK
  <2>2. Discovered' /\ Stages' /\ Transfer' /\ UploadedArrives'
    BY <1>1 DEF vars, server, loop, copy, tcp, IInv, Discovered, Stages, Transfer, UploadedArrives
  <2> QED
    BY <2>1, <2>2 DEF IInv
<1>2. ASSUME NEW n \in Requests, ServerThread(n)
      PROVE  IInv'
  BY <1>2, StepGivesUp, StepAccept, StepReceiveBlock, StepAllReceived DEF ServerThread
<1>3. CASE ClientStep
  <2>1. ASSUME WriteFails \/ SendEnds
        PROVE  IInv'
    <3>1. SendEnds => client' # "dead"
      BY DEF SendEnds, Return, AfterTransfer
    <3> QED
      BY <2>1, <3>1, StepSendEnds, StepKilled
  <2> QED
    BY <1>3, <2>1, StepDiscover, StepBefore, StepCanUploadFile, StepConnect, StepOpenFile, StepSendBlock
       DEF ClientStep
<1> QED
  BY <1>1, <1>2, <1>3, StepBefore, StepRoomChanges, StepHandleUploadRequest, StepConnectionBreaks DEF Next

(* A success is one on the server's side, too, unless something failed that*)
(* the client cannot see.                                                  *)
THEOREM SuccessArrives == Spec => []UploadedArrives
<1>1. IInv => UploadedArrives
  BY DEF IInv
<1> QED
  BY <1>1, InitIInv, StepIInv, PTL DEF Spec

(* A client that says the file is too big has left it nowhere.             *)
THEOREM TooBigLeavesNothing == Spec => []TooBigStoresNothing
<1>1. IInv => TooBigStoresNothing
  BY DEF IInv, Stages, TooBigStoresNothing
<1> QED
  BY <1>1, InitIInv, StepIInv, PTL DEF Spec
=============================================================================
