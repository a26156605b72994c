--------------------------- MODULE DownloadProofs ---------------------------
(***************************************************************************)
(* Proofs about Download, for any number of uploads and crashes and any    *)
(* length of the file.                                                     *)
(***************************************************************************)
EXTENDS Download, SequenceTheorems, TLAPS

(* Until the thread has opened the file nothing has been sent; while it    *)
(* sends it has a file and a connection that it has not closed; a client   *)
(* that has succeeded has seen the connection end.                         *)
Stages ==
  /\ server \in {"idle", "select", "open"} =>
       /\ offset = 0 /\ wire = <<>> /\ out = <<>> /\ sent = <<>>
       /\ connection # "closed"
       /\ reported # {"success"}
       /\ intact = None
  /\ server = "idle" => connection = "none"
  /\ server \in {"open", "send"} => connection \in {"open", "broken"}
  /\ server = "send" => source \in Versions
  /\ client # "returned" => reported = {}
  /\ reported = {"success"} => connection \in {"closed", "broken"}

(* The thread has come to the end of the file, and sends no more.          *)
Ended == finished => server = "done"

(* What has been sent is in the client's file or still under way, in its   *)
(* order.                                                                  *)
Moving ==
  /\ Len(out) + Len(wire) = Len(sent)
  /\ \A k \in 1 .. Len(out) : out[k] = sent[k]
  /\ \A k \in 1 .. Len(wire) : wire[k] = sent[Len(out) + k]

(* This is so until the client's disk refuses a block or the connection    *)
(* breaks; a client that succeeded had read everything before.             *)
Delivered == reported = {"success"} => out = sent

Transfer == ~unwritten => (connection # "broken" => Moving) /\ Delivered

(* As long as nobody has written to the file, what has been sent is its    *)
(* beginning, and all of it once the thread has come to the end.           *)
Untouched ==
  intact # None =>
    /\ source \in Versions /\ intact = source
    /\ offset = Len(sent)
    /\ BeginningOf(sent, content[source])

AllSent == intact # None /\ finished => Len(sent) = Len(content[source])

IInv == TypeOK /\ Stages /\ Ended /\ Transfer /\ Untouched /\ AllSent

(* What a stream has written to is a file again.                           *)
LEMMA WrittenType ==
  ASSUME NEW blocks \in Seq(Versions \cup {None}), NEW pos \in Nat, NEW u \in Uploads
  PROVE  Written(blocks, pos, u) \in Seq(Versions \cup {None})
<1> DEFINE n == IF pos > Len(blocks) THEN pos ELSE Len(blocks)
<1>1. n \in Nat
  OBVIOUS
<1>2. Written(blocks, pos, u) \in [1 .. n -> Versions \cup {None}]
  BY DEF Written, Versions
<1> QED
  BY <1>1, <1>2, SeqDef

(* Before the fetch, the file is whole or not there.                       *)
LEMMA InitIInv == Init => IInv
<1> SUFFICES ASSUME Init
             PROVE  IInv
  OBVIOUS
<1>1. [k \in 1 .. Blocks |-> Old] \in Seq(Versions \cup {None})
  <2>1. [k \in 1 .. Blocks |-> Old] \in [1 .. Blocks -> Versions \cup {None}]
    BY DEF Versions
  <2> QED
    BY <2>1, SeqDef, DownloadAssumption
<1>2. content \in [Versions -> Seq(Versions \cup {None})]
  BY <1>1 DEF Init, Versions
<1>3. listed \in BOOLEAN /\ finished \in BOOLEAN /\ unwritten \in BOOLEAN
  BY Zenon DEF Init
<1>4. TypeOK
  BY <1>2, <1>3, DownloadAssumption DEF Init, TypeOK, Versions
<1>5. Stages /\ Untouched /\ AllSent
  BY DEF Init, Stages, Untouched, AllSent
<1>6. Ended
  BY Zenon DEF Init, Ended
<1>7. Moving /\ Delivered
  BY DEF Init, Moving, Delivered
<1>8. Transfer
  BY <1>7, Zenon DEF Transfer
<1> QED
  BY <1>4, <1>5, <1>6, <1>8 DEF IInv

(* What neither sends nor reads, and tells the user nothing, leaves the    *)
(* transfer as it is.                                                      *)
LEMMA TransferStays ==
  ASSUME Transfer, connection' = connection \/ connection' = "broken" \/ connection # "broken",
         UNCHANGED <<wire, out, reported, sent, unwritten>>
  PROVE  Transfer'
<1>1. (Moving => Moving') /\ (Delivered => Delivered')
  BY DEF Moving, Delivered
<1>2. connection' # "broken" => connection # "broken"
  OBVIOUS
<1>3. ~unwritten' => ~unwritten
  BY Zenon
<1> QED
  BY <1>1, <1>2, <1>3, Zenon DEF Transfer

(* Uploads and the removal: whoever writes to the file that is being sent  *)
(* ends its being untouched.                                               *)
LEMMA StepOpenFile ==
  ASSUME IInv, NEW u \in Uploads, OpenFile(u)
  PROVE  IInv'
<1>1. PICK inode \in Versions :
        /\ folder' = inode
        /\ content' = [content EXCEPT ![inode] = <<>>]
        /\ file' = [file EXCEPT ![u] = inode]
        /\ upload' = [upload EXCEPT ![u] = "write"]
        /\ intact' = IF intact = inode THEN None ELSE intact
        /\ UNCHANGED <<listed, written, removal, crashes, thread, connected, fetch, sent, finished, unwritten>>
  BY DEF OpenFile, GoTo, IInv, TypeOK, Versions
<1>2. TypeOK'
  BY <1>1 DEF IInv, TypeOK, thread, connected, fetch
<1>3. Stages'
  BY <1>1 DEF IInv, Stages, thread, connected, fetch
<1>4. intact' # None => intact' = intact /\ intact # inode
  BY <1>1
<1>5. Untouched'
  BY <1>1, <1>4 DEF IInv, TypeOK, Untouched, BeginningOf, thread
<1>6. Ended'
  BY <1>1, Zenon DEF IInv, Ended, thread
<1>7. Transfer'
  BY <1>1, TransferStays DEF IInv, connected, fetch
<1>8. intact' # None => source \in Versions /\ content'[source] = content[source]
  BY <1>1, <1>4 DEF IInv, TypeOK, Untouched
<1>9. AllSent'
  BY <1>1, <1>4, <1>8, Zenon DEF IInv, AllSent, thread
<1> QED
  BY <1>2, <1>3, <1>5, <1>6, <1>7, <1>9 DEF IInv

(* An upload that writes to the file that is sent ends its being untouched.*)
LEMMA StepWriteBlock ==
  ASSUME IInv, NEW u \in Uploads, WriteBlock(u)
  PROVE  IInv'
<1>1. /\ content' = [content EXCEPT ![file[u]] = Written(@, written[u] + 1, u)]
      /\ written' = [written EXCEPT ![u] = @ + 1]
      /\ written[u] < Blocks
      /\ intact' = IF intact = file[u] THEN None ELSE intact
      /\ UNCHANGED <<listed, folder, upload, file, removal, crashes, thread, connected, fetch, sent, finished, unwritten>>
  BY DEF WriteBlock
<1>2. content' \in [Versions -> Seq(Versions \cup {None})]
  <2>1. content \in [Versions -> Seq(Versions \cup {None})] /\ written[u] + 1 \in Nat
    BY DownloadAssumption DEF IInv, TypeOK
  <2>2. file[u] \in Versions => Written(content[file[u]], written[u] + 1, u) \in Seq(Versions \cup {None})
    BY <2>1, WrittenType
  <2> QED
    BY <1>1, <2>1, <2>2
<1>3. written' \in [Uploads -> 0 .. Blocks]
  BY <1>1, DownloadAssumption DEF IInv, TypeOK
<1>4. TypeOK'
  BY <1>1, <1>2, <1>3 DEF IInv, TypeOK, thread, connected, fetch
<1>5. Stages'
  BY <1>1 DEF IInv, Stages, thread, connected, fetch
<1>6. intact' # None => intact' = intact /\ intact # file[u]
  BY <1>1
<1>7. intact' # None => source \in Versions /\ content'[source] = content[source]
  BY <1>1, <1>6 DEF IInv, TypeOK, Untouched
<1>8. Untouched'
  BY <1>1, <1>6, <1>7 DEF IInv, Untouched, BeginningOf, thread
<1>9. Ended'
  BY <1>1, Zenon DEF IInv, Ended, thread
<1>10. Transfer'
  BY <1>1, TransferStays DEF IInv, connected, fetch
<1>11. AllSent'
  BY <1>1, <1>6, <1>7, Zenon DEF IInv, AllSent, thread
<1> QED
  BY <1>4, <1>5, <1>8, <1>9, <1>10, <1>11 DEF IInv

(* What leaves the files, the thread, the connection and the client alone  *)
(* keeps all that is said of them.                                         *)
LEMMA FetchStays ==
  ASSUME IInv, UNCHANGED <<content, thread, connected, fetch, history>>
  PROVE  (Stages /\ Ended /\ Transfer /\ Untouched /\ AllSent)'
<1>1. Stages' /\ Untouched'
  BY DEF IInv, Stages, Untouched, BeginningOf, thread, connected, fetch, history
<1>2. Ended' /\ AllSent'
  BY Zenon DEF IInv, Ended, AllSent, thread, history
<1>3. Transfer'
  BY TransferStays DEF IInv, connected, fetch, history
<1> QED
  BY <1>1, <1>2, <1>3

(* The steps of an upload, of which only opening and writing touch a file. *)
LEMMA StepUpload ==
  ASSUME IInv, NEW u \in Uploads, UploadStep(u)
  PROVE  IInv'
<1>1. CASE AddFileToStorage(u) \/ NobodyConnects(u) \/ EndOfUpload(u) \/ RemoveFile(u) \/ RemoveFileFromStorage(u)
  <2>1. /\ listed' \in BOOLEAN
        /\ folder' \in Versions \cup {None}
        /\ upload' \in [Uploads -> {"idle", "open", "write", "unlink", "erase", "done"}]
        /\ UNCHANGED <<content, file, written, removal, crashes, thread, connected, fetch, history>>
    BY <1>1 DEF AddFileToStorage, NobodyConnects, EndOfUpload, RemoveFile, RemoveFileFromStorage, GoTo, IInv, TypeOK
  <2>2. TypeOK'
    BY <2>1 DEF IInv, TypeOK, thread, connected, fetch, history
  <2> QED
    BY <2>1, <2>2, FetchStays DEF IInv
<1> QED
  BY <1>1, StepOpenFile, StepWriteBlock DEF UploadStep

(* Removing the file does not touch its blocks.                            *)
LEMMA StepRemoval ==
  ASSUME IInv, HandleRemoveRequest \/ RemovalRemoveFile
  PROVE  IInv'
<1>1. /\ listed' \in BOOLEAN
      /\ folder' \in Versions \cup {None}
      /\ removal' \in {"idle", "unlink"}
      /\ UNCHANGED <<content, upload, file, written, crashes, thread, connected, fetch, history>>
  BY DEF HandleRemoveRequest, RemovalRemoveFile, IInv, TypeOK
<1>2. TypeOK'
  BY <1>1 DEF IInv, TypeOK, thread, connected, fetch, history
<1> QED
  BY <1>1, <1>2, FetchStays DEF IInv

(* Before the file is open nothing is sent, and the thread has come to no  *)
(* end of a file.                                                          *)
LEMMA StepBefore ==
  ASSUME IInv, HandleFileRequest \/ SelectFails \/ Accept \/ OpenSourceFails
  PROVE  IInv'
<1>1. /\ server \in {"idle", "select", "open"}
      /\ server' \in {"select", "open", "done"}
      /\ connection' \in {"none", "announced", "refused", "pending", "open", "closed", "broken"}
      /\ server' # "done" => connection' # "closed"
      /\ server' = "open" => connection' = "open"
      /\ connection = "broken" => connection' = "broken"
      /\ connection = "closed" => connection' = "closed"
      /\ UNCHANGED <<node, source, offset, wire, fetch, history>>
  BY DEF HandleFileRequest, SelectFails, Accept, OpenSourceFails, Refused, Return, IInv, TypeOK, Stages
<1>2. TypeOK'
  BY <1>1 DEF IInv, TypeOK, node, fetch, history
<1>3. Stages' /\ Untouched'
  BY <1>1 DEF IInv, Stages, Untouched, BeginningOf, fetch, history
<1>4. AllSent'
  <2>1. intact' = None
    BY <1>1 DEF IInv, Stages, history
  <2> QED
    BY <2>1, Zenon DEF AllSent
<1>5. Ended'
  <2>1. ~finished
    BY <1>1, Zenon DEF IInv, Ended
  <2> QED
    BY <1>1, <2>1, Zenon DEF Ended, history
<1>6. Transfer'
  BY <1>1, TransferStays DEF IInv, fetch, history
<1> QED
  BY <1>2, <1>3, <1>4, <1>5, <1>6 DEF IInv

(* What the client does before it reads; failure comes first if success is *)
(* reported here.                                                          *)
LEMMA StepAsk ==
  ASSUME IInv, Ask \/ ReceivePort \/ Connect \/ CreateOut
  PROVE  IInv'
<1>1. /\ client # "returned"
      /\ connection = "none" => connection' = "none"
      /\ \/ client' \in {"waiting", "connect", "create", "read"} /\ reported' = reported
         \/ client' = "returned" /\ "failure" \in reported' /\ reported' \in SUBSET {"failure", "success"}
      /\ \/ connection' = connection
         \/ connection = "announced" /\ connection' = "pending"
         \/ connection \in {"pending", "open"} /\ connection' = "broken"
      /\ UNCHANGED <<node, thread, wire, out, history>>
  BY DEF Ask, ReceivePort, Connect, CreateOut, Closed, Report, connected, IInv, TypeOK
<1>2. TypeOK'
  <2>1. client' \in {"new", "waiting", "connect", "create", "read", "returned"}
    BY <1>1
  <2>2. connection' \in {"none", "announced", "refused", "pending", "open", "closed", "broken"}
    BY <1>1 DEF IInv, TypeOK
  <2>3. reported' \in SUBSET {"failure", "success"}
    BY <1>1 DEF IInv, TypeOK
  <2> QED
    BY <1>1, <2>1, <2>2, <2>3 DEF IInv, TypeOK, node, thread, history
<1>3. reported' # {"success"}
  BY <1>1 DEF IInv, Stages
<1>4. Stages' /\ Untouched'
  BY <1>1, <1>3 DEF IInv, Stages, Untouched, BeginningOf, node, thread, history
<1>5. Ended' /\ AllSent'
  BY <1>1, Zenon DEF IInv, Ended, AllSent, node, thread, history
<1>6. (Moving => Moving') /\ Delivered' /\ (connection' # "broken" => connection # "broken")
  BY <1>1, <1>3 DEF Moving, Delivered, history
<1>7. Transfer'
  BY <1>1, <1>6, Zenon DEF IInv, Transfer, history
<1> QED
  BY <1>2, <1>4, <1>5, <1>7 DEF IInv

(* The thread opens the file and sends it.                                 *)
LEMMA StepOpenSource ==
  ASSUME IInv, OpenSource
  PROVE  IInv'
<1>1. /\ server = "open" /\ server' = "send"
      /\ source' = folder /\ folder \in Versions
      /\ intact' = folder
      /\ UNCHANGED <<node, offset, connected, fetch, sent, finished, unwritten>>
  BY DEF OpenSource, IInv, TypeOK
<1>2. TypeOK'
  BY <1>1 DEF IInv, TypeOK, node, connected, fetch
<1>3. Stages'
  BY <1>1 DEF IInv, Stages, connected, fetch
<1>4. Untouched'
  <2>1. offset = 0 /\ sent = <<>>
    BY <1>1 DEF IInv, Stages
  <2>2. content[folder] \in Seq(Versions \cup {None})
    BY <1>1 DEF IInv, TypeOK
  <2>3. BeginningOf(<<>>, content[folder])
    BY <2>2 DEF BeginningOf
  <2> QED
    BY <1>1, <2>1, <2>3 DEF Untouched, BeginningOf, node
<1>5. ~finished /\ ~finished'
  BY <1>1, Zenon DEF IInv, Ended
<1>6. Ended' /\ AllSent'
  BY <1>5, Zenon DEF Ended, AllSent
<1>7. Transfer'
  BY <1>1, TransferStays DEF IInv, connected, fetch
<1> QED
  BY <1>2, <1>3, <1>4, <1>6, <1>7 DEF IInv

(* A block moves from the file to the connection.                          *)
LEMMA StepSendBlock ==
  ASSUME IInv, SendBlock
  PROVE  IInv'
<1>1. /\ server = "send" /\ connection = "open"
      /\ offset < Len(content[source])
      /\ wire' = Append(wire, content[source][offset + 1])
      /\ offset' = offset + 1
      /\ sent' = Append(sent, content[source][offset + 1])
      /\ UNCHANGED <<node, server, source, connection, fetch, intact, finished, unwritten>>
  BY DEF SendBlock
<1>2. source \in Versions /\ content[source] \in Seq(Versions \cup {None}) /\ offset \in Nat
  BY <1>1 DEF IInv, TypeOK, Stages
<1>3. PICK block \in Versions \cup {None} : block = content[source][offset + 1]
  <2>1. offset + 1 \in 1 .. Len(content[source])
    BY <1>1, <1>2
  <2> QED
    BY <1>2, <2>1
<1>4. /\ wire' \in Seq(Versions \cup {None})
      /\ Len(wire') = Len(wire) + 1
      /\ \A k \in 1 .. Len(wire) : wire'[k] = wire[k]
      /\ wire'[Len(wire) + 1] = block
  <2>1. wire \in Seq(Versions \cup {None}) /\ wire' = Append(wire, block)
    BY <1>1, <1>3 DEF IInv, TypeOK
  <2> QED
    BY <2>1, AppendProperties
<1>5. /\ sent' \in Seq(Versions \cup {None})
      /\ Len(sent') = Len(sent) + 1
      /\ \A k \in 1 .. Len(sent) : sent'[k] = sent[k]
      /\ sent'[Len(sent) + 1] = block
  <2>1. sent \in Seq(Versions \cup {None}) /\ sent' = Append(sent, block)
    BY <1>1, <1>3 DEF IInv, TypeOK
  <2> QED
    BY <2>1, AppendProperties
<1>6. TypeOK'
  BY <1>1, <1>2, <1>4, <1>5 DEF IInv, TypeOK, node, fetch
<1>7. Stages'
  BY <1>1 DEF IInv, Stages, fetch
<1>8. ~finished /\ ~finished'
  BY <1>1, Zenon DEF IInv, Ended
<1>9. Ended' /\ AllSent'
  BY <1>8, Zenon DEF Ended, AllSent
<1>10. Untouched'
  <2> SUFFICES ASSUME intact # None
               PROVE  Untouched'
    BY <1>1 DEF Untouched
  <2>1. /\ intact = source /\ offset = Len(sent)
        /\ BeginningOf(sent, content[source])
    BY DEF IInv, Untouched
  <2>2. BeginningOf(sent', content[source])
    <3>1. Len(sent') <= Len(content[source])
      BY <1>1, <1>2, <1>5, <2>1
    <3>2. ASSUME NEW k \in 1 .. Len(sent')
          PROVE  sent'[k] = content[source][k]
      <4>1. k \in 1 .. Len(sent) \/ k = offset + 1
        BY <1>2, <1>5, <2>1
      <4> QED
        BY <4>1, <1>3, <1>5, <2>1 DEF BeginningOf
    <3> QED
      BY <3>1, <3>2 DEF BeginningOf
  <2> QED
    BY <1>1, <1>2, <1>5, <2>1, <2>2 DEF Untouched, BeginningOf, node
<1>11. Moving => Moving'
  <2> SUFFICES ASSUME Moving
               PROVE  Moving'
    OBVIOUS
  <2>1. out' = out /\ Len(out) \in Nat /\ Len(wire) \in Nat /\ Len(sent) \in Nat
    BY <1>1 DEF fetch, IInv, TypeOK
  <2>2. Len(out') + Len(wire') = Len(sent')
    BY <2>1, <1>4, <1>5 DEF Moving
  <2>3. ASSUME NEW k \in 1 .. Len(out)
        PROVE  out'[k] = sent'[k]
    <3>1. k \in 1 .. Len(sent)
      BY <2>1 DEF Moving
    <3> QED
      BY <3>1, <2>1, <1>5 DEF Moving
  <2>4. ASSUME NEW k \in 1 .. Len(wire')
        PROVE  wire'[k] = sent'[Len(out) + k]
    <3>1. CASE k \in 1 .. Len(wire)
      <4>1. Len(out) + k \in 1 .. Len(sent)
        BY <3>1, <2>1 DEF Moving
      <4> QED
        BY <3>1, <4>1, <1>4, <1>5 DEF Moving
    <3>2. CASE k = Len(wire) + 1
      <4>1. Len(out) + k = Len(sent) + 1
        BY <3>2, <2>1 DEF Moving
      <4> QED
        BY <3>2, <4>1, <1>4, <1>5
    <3> QED
      BY <3>1, <3>2, <2>1, <1>4
  <2> QED
    BY <2>1, <2>2, <2>3, <2>4 DEF Moving
<1>12. reported' # {"success"}
  BY <1>1 DEF IInv, Stages, fetch
<1>13. Transfer'
  <2>1. Delivered' /\ connection # "broken" /\ connection' = connection
    BY <1>1, <1>12 DEF Delivered
  <2> QED
    BY <1>1, <1>11, <2>1, Zenon DEF IInv, Transfer
<1> QED
  BY <1>6, <1>7, <1>9, <1>10, <1>13 DEF IInv

(* A thread that ends has sent the whole file if it comes to its end; what *)
(* it has sent stays under way wherever it ends.                           *)
LEMMA StepSendEnds ==
  ASSUME IInv, WriteFails \/ EndOfFile \/ ReadFails
  PROVE  IInv'
<1>1. /\ server = "send" /\ server' = "done"
      /\ connection' \in {connection, "closed"}
      /\ connection = "broken" => connection' = "broken"
      /\ UNCHANGED <<node, source, offset, wire, fetch, sent, intact, unwritten>>
  BY DEF WriteFails, EndOfFile, ReadFails, Return, history
<1>2. connection \in {"open", "broken"}
  BY <1>1 DEF IInv, Stages
<1>3. finished' \in BOOLEAN
  <2>1. finished \in BOOLEAN
    BY DEF IInv, TypeOK
  <2> QED
    BY <2>1, Zenon DEF WriteFails, EndOfFile, ReadFails, history
<1>4. TypeOK'
  BY <1>1, <1>3 DEF IInv, TypeOK, node, fetch
<1>5. Stages' /\ Untouched'
  BY <1>1, <1>2 DEF IInv, Stages, Untouched, BeginningOf, node, fetch
<1>6. Ended'
  BY <1>1, Zenon DEF Ended
<1>7. Transfer'
  BY <1>1, <1>2, TransferStays DEF IInv, fetch
<1>8. AllSent'
  <2>1. CASE EndOfFile
    <3> SUFFICES ASSUME intact' # None
                 PROVE  Len(sent') = Len(content'[source'])
      BY Zenon DEF AllSent
    <3>1. intact # None /\ sent' = sent /\ source' = source /\ content' = content
      BY <1>1 DEF node
    <3>2. /\ source \in Versions /\ offset = Len(sent)
          /\ Len(sent) <= Len(content[source])
      BY <3>1 DEF IInv, Untouched, BeginningOf
    <3>3. Len(content[source]) \in Nat /\ Len(sent) \in Nat /\ offset >= Len(content[source])
      BY <2>1, <3>2 DEF IInv, TypeOK, EndOfFile, AtEnd
    <3> QED
      BY <3>1, <3>2, <3>3
  <2>2. CASE WriteFails \/ ReadFails
    <3>1. finished' = finished
      BY <2>2, Zenon DEF WriteFails, ReadFails, history
    <3> QED
      BY <1>1, <3>1, Zenon DEF IInv, AllSent, node
  <2> QED
    BY <2>1, <2>2
<1> QED
  BY <1>4, <1>5, <1>6, <1>7, <1>8 DEF IInv

(* The client reads what has been sent, and writes it to its file.         *)
LEMMA StepReadBlock ==
  ASSUME IInv, ReadBlock
  PROVE  IInv'
<1>1. /\ client = "read" /\ wire # <<>> /\ wire' = Tail(wire)
      /\ \/ out' = Append(out, Head(wire)) /\ unwritten' = unwritten
         \/ out' = out /\ unwritten' = TRUE
      /\ UNCHANGED <<node, thread, connection, client, reported, sent, intact, finished>>
  BY Zenon DEF ReadBlock
<1>2. wire \in Seq(Versions \cup {None}) /\ out \in Seq(Versions \cup {None}) /\ unwritten \in BOOLEAN
  BY DEF IInv, TypeOK
<1>3. /\ Head(wire) \in Versions \cup {None} /\ Head(wire) = wire[1] /\ Len(wire) \in Nat \ {0}
      /\ wire' \in Seq(Versions \cup {None})
      /\ Len(wire') = Len(wire) - 1
      /\ \A k \in 1 .. Len(wire') : wire'[k] = wire[k + 1]
  BY <1>1, <1>2
<1>4. out' \in Seq(Versions \cup {None})
  <2>1. Append(out, Head(wire)) \in Seq(Versions \cup {None})
    BY <1>2, <1>3
  <2> QED
    BY <1>1, <1>2, <2>1
<1>5. unwritten' \in BOOLEAN
  BY <1>1, <1>2, Zenon
<1>6. TypeOK'
  BY <1>1, <1>3, <1>4, <1>5 DEF IInv, TypeOK, node, thread
<1>7. /\ server \notin {"idle", "select", "open"}
      /\ reported # {"success"}
  BY <1>1, <1>3 DEF IInv, Stages
<1>8. Stages' /\ Untouched'
  BY <1>1, <1>7 DEF IInv, Stages, Untouched, BeginningOf, node, thread
<1>9. Ended' /\ AllSent'
  BY <1>1, Zenon DEF IInv, Ended, AllSent, node, thread
<1>10. ASSUME Moving, out' = Append(out, Head(wire))
       PROVE  Moving'
  <2>1. /\ Len(out') = Len(out) + 1
        /\ \A k \in 1 .. Len(out) : out'[k] = out[k]
        /\ out'[Len(out) + 1] = wire[1]
    BY <1>10, <1>2, <1>3, AppendProperties
  <2>2. Len(out) \in Nat /\ Len(wire) \in Nat
    BY <1>2
  <2>3. Len(out') + Len(wire') = Len(sent)
    <3>1. Len(out) + Len(wire) = Len(sent)
      BY <1>10 DEF Moving
    <3>2. Len(out') = Len(out) + 1 /\ Len(wire') = Len(wire) - 1
      BY <2>1, <1>3
    <3> QED
      BY <3>1, <3>2, <2>2
  <2>4. ASSUME NEW k \in 1 .. Len(out')
        PROVE  out'[k] = sent[k]
    <3>1. k \in 1 .. Len(out) \/ k = Len(out) + 1
      BY <2>1, <2>2
    <3>2. wire[1] = sent[Len(out) + 1]
      BY <1>10, <1>3 DEF Moving
    <3> QED
      BY <1>10, <2>1, <3>1, <3>2 DEF Moving
  <2>5. ASSUME NEW k \in 1 .. Len(wire')
        PROVE  wire'[k] = sent[Len(out') + k]
    <3>1. k + 1 \in 1 .. Len(wire) /\ Len(out') + k = Len(out) + (k + 1)
      BY <1>3, <2>1, <2>2
    <3> QED
      BY <1>10, <1>3, <3>1 DEF Moving
  <2> QED
    BY <1>1, <2>3, <2>4, <2>5 DEF Moving
<1>11. Delivered'
  BY <1>1, <1>7 DEF Delivered
<1>12. Transfer'
  <2>1. connection' = connection
    BY <1>1
  <2>2. CASE out' = Append(out, Head(wire)) /\ unwritten' = unwritten
    <3>1. ~unwritten' => ~unwritten
      BY <2>2, Zenon
    <3> QED
      BY <1>10, <1>11, <2>1, <2>2, <3>1, Zenon DEF IInv, Transfer
  <2>3. CASE unwritten' = TRUE
    BY <2>3, Zenon DEF Transfer
  <2> QED
    BY <1>1, <2>2, <2>3, Zenon
<1> QED
  BY <1>6, <1>8, <1>9, <1>12 DEF IInv

(* The end of a connection that was closed, and not broken, comes after    *)
(* everything.                                                             *)
LEMMA StepReadEnds ==
  ASSUME IInv, ReadEnd \/ ReadError
  PROVE  IInv'
<1>1. /\ client = "read" /\ client' = "returned"
      /\ \/ reported' = {"success"} /\ connection = "closed" /\ wire = <<>>
         \/ reported' = {"failure"} /\ reported' # {"success"}
      /\ UNCHANGED <<node, thread, connected, out, history>>
  BY DEF ReadEnd, TheEnd, ReadError, Report, IInv, Stages
<1>2. TypeOK'
  BY <1>1 DEF IInv, TypeOK, node, thread, connected, history
<1>3. Stages' /\ Untouched'
  BY <1>1 DEF IInv, Stages, Untouched, BeginningOf, node, thread, connected, history
<1>4. Ended' /\ AllSent'
  BY <1>1, Zenon DEF IInv, Ended, AllSent, node, thread, history
<1>5. Moving => Moving'
  BY <1>1 DEF Moving, connected, history
<1>6. connection' = connection /\ unwritten' = unwritten
  BY <1>1 DEF connected, history
<1>7. CASE reported' # {"success"}
  <2>1. Delivered'
    BY <1>7 DEF Delivered
  <2>2. Transfer'
    BY <1>5, <1>6, <2>1, Zenon DEF IInv, Transfer
  <2> QED
    BY <1>2, <1>3, <1>4, <2>2 DEF IInv
<1>8. CASE connection = "closed" /\ wire = <<>>
  <2>1. Moving => out = sent
    <3> SUFFICES ASSUME Moving
                 PROVE  out = sent
      OBVIOUS
    <3>1. out \in Seq(Versions \cup {None}) /\ sent \in Seq(Versions \cup {None}) /\ Len(wire) = 0
      BY <1>8 DEF IInv, TypeOK
    <3>2. Len(out) = Len(sent) /\ \A k \in 1 .. Len(out) : out[k] = sent[k]
      BY <3>1 DEF Moving
    <3> QED
      BY <3>1, <3>2, SeqEqual
  <2>2. Moving => Delivered'
    BY <1>1, <2>1 DEF Delivered, history
  <2>3. connection # "broken"
    BY <1>8
  <2>4. Transfer'
    BY <1>5, <1>6, <2>2, <2>3, Zenon DEF IInv, Transfer
  <2> QED
    BY <1>2, <1>3, <1>4, <2>4 DEF IInv
<1> QED
  BY <1>1, <1>7, <1>8

(* What is under way is lost, and the client will see an error.            *)
LEMMA StepConnectionBreaks ==
  ASSUME IInv, ConnectionBreaks
  PROVE  IInv'
<1>1. /\ connection \in {"pending", "open", "closed"}
      /\ connection' = "broken" /\ wire' = <<>>
      /\ UNCHANGED <<node, thread, fetch, history>>
  BY DEF ConnectionBreaks
<1>2. TypeOK'
  BY <1>1 DEF IInv, TypeOK, node, thread, fetch, history
<1>3. Stages' /\ Untouched'
  BY <1>1 DEF IInv, Stages, Untouched, BeginningOf, node, thread, fetch, history
<1>4. Ended' /\ AllSent'
  BY <1>1, Zenon DEF IInv, Ended, AllSent, node, thread, history
<1>5. Delivered => Delivered'
  BY <1>1 DEF Delivered, fetch, history
<1>6. Transfer'
  BY <1>1, <1>5, Zenon DEF IInv, Transfer, history
<1> QED
  BY <1>2, <1>3, <1>4, <1>6 DEF IInv

(* A crash ends the thread wherever it is, and closes its connection.      *)
LEMMA StepCrash ==
  ASSUME IInv, Crash
  PROVE  IInv'
<1>1. /\ listed' \in BOOLEAN
      /\ upload' \in [Uploads -> {"idle", "done"}]
      /\ removal' = "idle"
      /\ crashes' \in 0 .. MaxCrashes
      /\ server' = IF server = "idle" THEN "idle" ELSE "done"
      /\ connection' \in {"none", "announced", "refused", "pending", "open", "closed", "broken"}
      /\ server = "idle" => connection' = "none"
      /\ connection \in {"closed", "broken"} => connection' = connection
      /\ UNCHANGED <<folder, content, file, written, source, offset, wire, fetch, history>>
  <2>1. crashes' \in 0 .. MaxCrashes
    BY DownloadAssumption DEF Crash, IInv, TypeOK
  <2>2. upload' \in [Uploads -> {"idle", "done"}]
    BY DEF Crash
  <2>3. listed' \in BOOLEAN
    BY DEF Crash
  <2>4. connection' \in {"none", "announced", "refused", "pending", "open", "closed", "broken"}
    BY DEF Crash, Refused, IInv, TypeOK
  <2>5. server = "idle" => connection' = "none"
    BY DEF Crash, IInv, Stages
  <2>6. connection \in {"closed", "broken"} => connection' = connection
    BY DEF Crash
  <2> QED
    BY <2>1, <2>2, <2>3, <2>4, <2>5, <2>6 DEF Crash
<1>2. TypeOK'
  BY <1>1 DEF IInv, TypeOK, fetch, history
<1>3. Stages' /\ Untouched'
  BY <1>1 DEF IInv, Stages, Untouched, BeginningOf, fetch, history
<1>4. server = "done" => server' = "done"
  BY <1>1
<1>5. Ended' /\ AllSent'
  BY <1>1, <1>4, Zenon DEF IInv, Ended, AllSent, history
<1>6. Transfer'
  BY <1>1, TransferStays DEF IInv, fetch, history
<1> QED
  BY <1>2, <1>3, <1>5, <1>6 DEF IInv

(* Every step keeps the invariant.                                         *)
LEMMA StepIInv == IInv /\ [Next]_vars => IInv'
<1> SUFFICES ASSUME IInv, [Next]_vars
             PROVE  IInv'
  OBVIOUS
<1>1. ASSUME UNCHANGED vars
      PROVE  IInv'
  <2>1. TypeOK'
    BY <1>1 DEF vars, node, thread, connected, fetch, history, IInv, TypeOK
  <2>2. UNCHANGED <<content, thread, connected, fetch, history>>
    BY <1>1 DEF vars, node
  <2> QED
    BY <2>1, <2>2, FetchStays DEF IInv
<1> QED
  BY <1>1, StepUpload, StepRemoval, StepBefore, StepAsk, StepOpenSource, StepSendBlock, StepSendEnds,
     StepReadBlock, StepReadEnds, StepConnectionBreaks, StepCrash
     DEF Next, ThreadStep, FetchStep

(* A fetch that reports success has what the thread has sent, wherever the *)
(* thread, the node or the connection has ended, for any number of uploads *)
(* and crashes and any length of the file.                                 *)
THEOREM SuccessSent == Spec => []SuccessIsSent
<1>1. IInv => SuccessIsSent
  <2> SUFFICES ASSUME IInv, reported = {"success"}
               PROVE  /\ ~unwritten => out = sent
                      /\ intact # None => BeginningOf(sent, content[intact])
                      /\ intact # None /\ finished => Len(sent) = Len(content[intact])
    BY Zenon DEF SuccessIsSent
  <2>1. Delivered => out = sent
    BY DEF Delivered
  <2>2. ~unwritten => out = sent
    BY <2>1, Zenon DEF IInv, Transfer
  <2>3. intact # None => intact = source /\ BeginningOf(sent, content[intact])
    BY DEF IInv, Untouched
  <2>4. intact # None /\ finished => Len(sent) = Len(content[intact])
    BY <2>3, Zenon DEF IInv, AllSent
  <2> QED
    BY <2>2, <2>3, <2>4, Zenon
<1> QED
  BY <1>1, InitIInv, StepIInv, PTL DEF Spec
=============================================================================
