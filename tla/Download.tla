------------------------------ MODULE Download ------------------------------
(***************************************************************************)
(* One fetch of one file, from the request to what the client reports,     *)
(* while the node goes on to upload, remove and forget files of that name. *)
(*                                                                         *)
(* The main loop looks the name up and starts a thread; the thread opens   *)
(* the file when the client has connected. In between, and while it reads, *)
(* uploads and a removal of the name change the folder and the file itself:*)
(* nothing orders them. What the client is sent has neither a length nor an*)
(* end mark but the end of the connection.                                 *)
(*                                                                         *)
(* A file is a sequence of blocks, each marked with the upload it is from. *)
(* Uploads and the removal are as in module Storage, without the accounts  *)
(* and with a disk that takes what is written.                             *)
(***************************************************************************)
EXTENDS Integers, Sequences

CONSTANTS
  Uploads,       \* upload requests for the name
  Old,           \* the upload a file that is there at the start is from
  Blocks,        \* how many blocks a whole file has
  MaxCrashes,    \* (bound)
  None

Versions == Uploads \cup {Old}

ASSUME DownloadAssumption ==
  /\ Old \notin Uploads
  /\ None \notin Versions
  /\ Blocks \in Nat
  /\ MaxCrashes \in Nat

VARIABLES
  (* the node: the name, the folder and the files, which outlive their name*)
  listed,        \* the name is in files_in_storage
  folder,        \* the file of that name, or None
  content,       \* the blocks of a file; a file is called after its creator
  upload,        \* where an upload is
  file,          \* the file its stream writes to
  written,       \* how many blocks it has written
  removal,       \* handle_remove_request: idle, or about to remove the file
  crashes,
  (* the thread that serves the fetch *)
  server,        \* idle, select, open, send, done
  source,        \* the file it reads
  offset,
  (* the connection *)
  connection,    \* none, announced, refused, pending, open, closed, broken
  wire,          \* blocks sent and not yet read
  (* the client *)
  client,        \* new, waiting, connect, create, read, returned
  out,           \* the blocks in its file
  reported,      \* what it has told the user
  (* history *)
  sent,          \* the blocks the thread has read and sent
  intact,        \* the file it sends, while nobody has written to it since it
                 \* was opened, else None
  finished,      \* the thread has come to the end of the file
  unwritten      \* the client's disk has not taken a block

node       == <<listed, folder, content, upload, file, written, removal, crashes>>
thread     == <<server, source, offset>>
connected  == <<connection, wire>>
fetch      == <<client, out, reported>>
history    == <<sent, intact, finished, unwritten>>
vars       == <<node, thread, connected, fetch, history>>

Init ==
  /\ folder \in {Old, None}
  /\ listed = (folder # None)
  /\ content = [v \in Versions |-> IF v = Old THEN [k \in 1 .. Blocks |-> Old] ELSE <<>>]
  /\ upload = [u \in Uploads |-> "idle"]
  /\ file = [u \in Uploads |-> None]
  /\ written = [u \in Uploads |-> 0]
  /\ removal = "idle"
  /\ crashes = 0
  /\ server = "idle" /\ source = None /\ offset = 0
  /\ connection = "none" /\ wire = <<>>
  /\ client = "new" /\ out = <<>> /\ reported = {}
  /\ sent = <<>> /\ intact = None /\ finished = FALSE /\ unwritten = FALSE
-----------------------------------------------------------------------------
(***************************************************************************)
(* Uploads and removal.                                                    *)
(***************************************************************************)
GoTo(u, point) == upload' = [upload EXCEPT ![u] = point]

AddFileToStorage(u) ==
  /\ upload[u] = "idle"
  /\ ~listed
  /\ listed' = TRUE
  /\ GoTo(u, "open")
  /\ UNCHANGED <<folder, content, file, written, removal, crashes, thread, connected, fetch, history>>

(* The acceptance cannot be sent, or no client connects.                   *)
NobodyConnects(u) ==
  /\ upload[u] = "open"
  /\ \E point \in {"unlink", "erase"} : GoTo(u, point)
  /\ UNCHANGED <<listed, folder, content, file, written, removal, crashes, thread, connected, fetch, history>>

(* The stream creates the file, or empties the one that has the name.      *)
OpenFile(u) ==
  LET inode == IF folder = None THEN u ELSE folder IN
  /\ upload[u] = "open"
  /\ folder' = inode
  /\ content' = [content EXCEPT ![inode] = <<>>]
  /\ file' = [file EXCEPT ![u] = inode]
  /\ GoTo(u, "write")
  /\ intact' = IF intact = inode THEN None ELSE intact
  /\ UNCHANGED <<listed, written, removal, crashes, thread, connected, fetch, sent, finished, unwritten>>

(* A stream writes at its own position, whatever others do to the file.    *)
Written(blocks, pos, u) ==
  [k \in 1 .. (IF pos > Len(blocks) THEN pos ELSE Len(blocks)) |->
     IF k = pos THEN u ELSE IF k <= Len(blocks) THEN blocks[k] ELSE None]

WriteBlock(u) ==
  /\ upload[u] = "write"
  /\ written[u] < Blocks
  /\ written' = [written EXCEPT ![u] = @ + 1]
  /\ content' = [content EXCEPT ![file[u]] = Written(@, written[u] + 1, u)]
  /\ intact' = IF intact = file[u] THEN None ELSE intact
  /\ UNCHANGED <<listed, folder, upload, file, removal, crashes, thread, connected, fetch, sent, finished, unwritten>>

(* An upload whose accept has failed fails, whatever it has read.          *)
EndOfUpload(u) ==
  /\ upload[u] = "write"
  /\ \/ written[u] = Blocks /\ GoTo(u, "done")
     \/ GoTo(u, "unlink")
  /\ UNCHANGED <<listed, folder, content, file, written, removal, crashes, thread, connected, fetch, history>>

RemoveFile(u) ==
  /\ upload[u] = "unlink"
  /\ folder' = None
  /\ GoTo(u, "erase")
  /\ UNCHANGED <<listed, content, file, written, removal, crashes, thread, connected, fetch, history>>

RemoveFileFromStorage(u) ==
  /\ upload[u] = "erase"
  /\ listed' = FALSE
  /\ GoTo(u, "done")
  /\ UNCHANGED <<folder, content, file, written, removal, crashes, thread, connected, fetch, history>>

HandleRemoveRequest ==
  /\ removal = "idle"
  /\ listed
  /\ listed' = FALSE
  /\ removal' = "unlink"
  /\ UNCHANGED <<folder, content, upload, file, written, crashes, thread, connected, fetch, history>>

(* The file is removed, or there is none and file_size throws.             *)
RemovalRemoveFile ==
  /\ removal = "unlink"
  /\ folder' = None
  /\ removal' = "idle"
  /\ UNCHANGED <<listed, content, upload, file, written, crashes, thread, connected, fetch, history>>
-----------------------------------------------------------------------------
(***************************************************************************)
(* The thread: handle_file_request and send_file_via_tcp.                  *)
(***************************************************************************)
(* The main loop has looked the name up; it is not in a removal. The thread*)
(* makes a socket and sends its port; if either fails, it returns.         *)
HandleFileRequest ==
  /\ client # "new"
  /\ server = "idle"
  /\ listed
  /\ removal = "idle"
  /\ \/ server' = "select" /\ connection' = "announced"
     \/ server' = "done" /\ UNCHANGED connection
  /\ UNCHANGED <<node, source, offset, wire, fetch, history>>

(* A socket that is closed refuses a client, or resets one that has not    *)
(* been accepted.                                                          *)
Refused == IF connection = "announced" THEN "refused" ELSE "broken"

WaitsForever   == connection = "pending"           \* mutant: select without a timeout
SelectTimesOut == TRUE

(* No client comes in time, or select or accept fails.                     *)
SelectFails ==
  /\ server = "select"
  /\ SelectTimesOut
  /\ server' = "done"
  /\ connection' = Refused
  /\ UNCHANGED <<node, source, offset, wire, fetch, history>>

Accept ==
  /\ server = "select"
  /\ connection = "pending"
  /\ server' = "open"
  /\ connection' = "open"
  /\ UNCHANGED <<node, source, offset, wire, fetch, history>>

(* A thread that returns closes its connection: what it has sent arrives,  *)
(* and then the end.                                                       *)
Return ==
  /\ server' = "done"
  /\ connection' = IF connection = "open" THEN "closed" ELSE connection

(* Only here the thread sees whether there still is a file of that name.   *)
OpenSource ==
  /\ server = "open"
  /\ folder # None
  /\ server' = "send"
  /\ source' = folder
  /\ intact' = folder
  /\ UNCHANGED <<node, offset, connected, fetch, sent, finished, unwritten>>

(* There is none, or it cannot be opened.                                  *)
OpenSourceFails ==
  /\ server = "open"
  /\ Return
  /\ UNCHANGED <<node, source, offset, wire, fetch, history>>

SendBlock ==
  /\ server = "send"
  /\ connection = "open"
  /\ offset < Len(content[source])
  /\ wire' = Append(wire, content[source][offset + 1])
  /\ offset' = offset + 1
  /\ sent' = Append(sent, content[source][offset + 1])
  /\ UNCHANGED <<node, server, source, connection, fetch, intact, finished, unwritten>>

(* A write that fails or is short makes the thread return; its connection  *)
(* may be broken, or may still be open and is then closed like any other.  *)
WriteFails ==
  /\ server = "send"
  /\ Return
  /\ UNCHANGED <<node, source, offset, wire, fetch, history>>

AtEnd == offset >= Len(content[source])

EndOfFile ==
  /\ server = "send"
  /\ AtEnd
  /\ Return
  /\ finished' = TRUE
  /\ UNCHANGED <<node, source, offset, wire, fetch, sent, intact, unwritten>>

(* A disk error ends the loop like the end of the file.                    *)
ReadFails ==
  /\ server = "send"
  /\ Return
  /\ UNCHANGED <<node, source, offset, wire, fetch, history>>
-----------------------------------------------------------------------------
(***************************************************************************)
(* The client: fetch, receive_fetch_file_response, fetch_file_via_tcp.     *)
(***************************************************************************)
Report(outcomes) ==
  /\ client' = "returned"
  /\ reported' = reported \cup outcomes

Ask ==
  /\ client = "new"
  /\ \/ client' = "waiting" /\ UNCHANGED reported
     \/ Report({"failure"})
  /\ UNCHANGED <<node, thread, connected, out, history>>

(* The port has come, or not come in time.                                 *)
ReceivePort ==
  /\ client = "waiting"
  /\ \/ connection # "none" /\ client' = "connect" /\ UNCHANGED reported
     \/ Report({"failure"})
  /\ UNCHANGED <<node, thread, connected, out, history>>

Connect ==
  /\ client = "connect"
  /\ \/ /\ connection = "announced"
        /\ connection' = "pending"
        /\ client' = "create"
        /\ UNCHANGED reported
     \/ /\ Report({"failure"})
        /\ UNCHANGED connection
  /\ UNCHANGED <<node, thread, wire, out, history>>

Closed == IF connection \in {"pending", "open"} THEN "broken" ELSE connection

(* If the file cannot be created, the client reports the failure and goes  *)
(* on to report success.                                                   *)
CreateOut ==
  /\ client = "create"
  /\ \/ client' = "read" /\ UNCHANGED <<reported, connection>>
     \/ Report({"failure", "success"}) /\ connection' = Closed
  /\ UNCHANGED <<node, thread, wire, out, history>>

(* Nobody looks whether the write to the disk succeeds.                    *)
ReadBlock ==
  /\ client = "read"
  /\ wire # <<>>
  /\ wire' = Tail(wire)
  /\ \/ out' = Append(out, Head(wire)) /\ UNCHANGED unwritten
     \/ out' = out /\ unwritten' = TRUE
  /\ UNCHANGED <<node, thread, connection, client, reported, sent, intact, finished>>

AnyEnd  == connection \in {"closed", "broken"}     \* mutant: read's -1 is taken for the end
TheEnd  == connection = "closed"

ReadEnd ==
  /\ client = "read"
  /\ wire = <<>>
  /\ TheEnd
  /\ Report({"success"})
  /\ UNCHANGED <<node, thread, connected, out, history>>

ReadError ==
  /\ client = "read"
  /\ connection = "broken"
  /\ Report({"failure"})
  /\ UNCHANGED <<node, thread, connected, out, history>>
-----------------------------------------------------------------------------
(***************************************************************************)
(* The network and the process.                                            *)
(***************************************************************************)
ConnectionBreaks ==
  /\ connection \in {"pending", "open", "closed"}
  /\ connection' = "broken"
  /\ wire' = <<>>
  /\ UNCHANGED <<node, thread, fetch, history>>

(* The threads end; the system closes their connections as a return does.  *)
(* The next start lists what is in the folder.                             *)
Crash ==
  /\ crashes < MaxCrashes
  /\ crashes' = crashes + 1
  /\ listed' = (folder # None)
  /\ upload' = [u \in Uploads |-> IF upload[u] = "idle" THEN "idle" ELSE "done"]
  /\ removal' = "idle"
  /\ server' = IF server = "idle" THEN "idle" ELSE "done"
  /\ connection' = CASE connection = "open" -> "closed"
                     [] connection \in {"announced", "pending"} -> Refused
                     [] OTHER -> connection
  /\ UNCHANGED <<folder, content, file, written, source, offset, wire, fetch, history>>
-----------------------------------------------------------------------------
UploadStep(u) ==
  \/ AddFileToStorage(u)
  \/ NobodyConnects(u)
  \/ OpenFile(u)
  \/ WriteBlock(u)
  \/ EndOfUpload(u)
  \/ RemoveFile(u)
  \/ RemoveFileFromStorage(u)

ThreadStep ==
  \/ SelectFails
  \/ Accept
  \/ OpenSource
  \/ OpenSourceFails
  \/ SendBlock
  \/ WriteFails
  \/ EndOfFile
  \/ ReadFails

FetchStep ==
  \/ ReceivePort
  \/ Connect
  \/ CreateOut
  \/ ReadBlock
  \/ ReadEnd
  \/ ReadError

Next ==
  \/ \E u \in Uploads : UploadStep(u)
  \/ HandleRemoveRequest
  \/ RemovalRemoveFile
  \/ HandleFileRequest
  \/ ThreadStep
  \/ Ask
  \/ FetchStep
  \/ ConnectionBreaks
  \/ Crash

Spec == Init /\ [][Next]_vars

(* The threads of both processes are scheduled. The thread and the client  *)
(* each wait for the other only.                                           *)
FairSpec == Spec /\ WF_vars(ThreadStep) /\ WF_vars(FetchStep)
-----------------------------------------------------------------------------
TypeOK ==
  /\ listed \in BOOLEAN
  /\ folder \in Versions \cup {None}
  /\ content \in [Versions -> Seq(Versions \cup {None})]
  /\ upload \in [Uploads -> {"idle", "open", "write", "unlink", "erase", "done"}]
  /\ file \in [Uploads -> Versions \cup {None}]
  /\ written \in [Uploads -> 0 .. Blocks]
  /\ removal \in {"idle", "unlink"}
  /\ crashes \in 0 .. MaxCrashes
  /\ server \in {"idle", "select", "open", "send", "done"}
  /\ source \in Versions \cup {None}
  /\ offset \in Nat
  /\ connection \in {"none", "announced", "refused", "pending", "open", "closed", "broken"}
  /\ wire \in Seq(Versions \cup {None})
  /\ client \in {"new", "waiting", "connect", "create", "read", "returned"}
  /\ out \in Seq(Versions \cup {None})
  /\ reported \in SUBSET {"failure", "success"}
  /\ sent \in Seq(Versions \cup {None})
  /\ intact \in Versions \cup {None}
  /\ finished \in BOOLEAN
  /\ unwritten \in BOOLEAN

BeginningOf(blocks, whole) ==
  Len(blocks) <= Len(whole) /\ \A k \in 1 .. Len(blocks) : blocks[k] = whole[k]

(* A client that reports nothing but success, and whose disk has taken     *)
(* every block, has exactly what the thread has sent, in its order,        *)
(* wherever the connection or the thread has ended; and this is the        *)
(* beginning of one file, if nobody has written to that since it was       *)
(* opened, and all of it if the thread came to its end. A removal, or a new*)
(* file of the same name, does not matter. A thread that ends early (it    *)
(* dies, cannot open or read its file, or a write is short) looks to the   *)
(* client like one that has sent everything: that is all a success means.  *)
SuccessIsSent ==
  reported = {"success"} =>
    /\ ~unwritten => out = sent
    /\ intact # None => BeginningOf(sent, content[intact])
    /\ intact # None /\ finished => Len(sent) = Len(content[intact])

(* A fetch comes to an end on both sides, whatever is lost, removed or     *)
(* broken on the way: the user is told something, and the thread returns.  *)
FetchEnds ==
  /\ client # "new" ~> reported # {}
  /\ server # "idle" ~> server = "done"
=============================================================================
