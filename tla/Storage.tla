------------------------------ MODULE Storage ------------------------------
(***************************************************************************)
(* The storage of one server node: the directory it keeps files in, what   *)
(* its process remembers of that directory (files_in_storage, used_space)  *)
(* and the threads that change the two: one detached worker per upload     *)
(* request and the main thread, which handles removals itself.             *)
(*                                                                         *)
(* A worker is at one of these points of handle_upload_request and         *)
(* upload_file_via_tcp (pc):                                               *)
(*   idle      its request has not arrived                                 *)
(*   reserve   about to call check_and_reserve_space                       *)
(*   insert    about to call add_file_to_storage                           *)
(*   giveback  name already in storage, about to free its reservation      *)
(*   refuse    about to answer NO_WAY                                      *)
(*   offer     about to open a TCP port and answer CAN_ADD                 *)
(*   select    waiting for the client on that port                         *)
(*   open      client accepted, about to open the file                     *)
(*   read      copying from the connection to the file                     *)
(*   unlink, release, erase   the three steps of a failed upload's cleanup *)
(*   stored, refused, failed  returned                                     *)
(*   lost      the process died under it                                   *)
(*                                                                         *)
(* The network is a choice of outcomes: any socket call may fail, a client *)
(* may never connect, may send any part of its file and may vanish.        *)
(***************************************************************************)
EXTENDS Integers, FiniteSets, Units

CONSTANTS
  Filenames,            \* the filenames requests can carry
  InvalidNames,         \* those that are empty or contain a '/'
  Workers,              \* upload threads, one for each request (bound)
  Sizes,                \* the file sizes requests can announce
  max_available_space,  \* MAX_SPACE
  Word,                 \* 2^64: used_space is a uint64_t
  MaxCrashes,           \* how often the process may die (bound)
  IOErrors,             \* may the disk fail?
  None

ASSUME StorageAssumption ==
  /\ IsFiniteSet(Filenames) /\ IsFiniteSet(Workers)
  /\ Filenames \cap Workers = {}
  /\ None \notin Filenames \cup Workers
  /\ InvalidNames \subseteq Filenames
  /\ Word \in Nat \ {0}
  /\ Sizes \subseteq 0 .. (Word - 1)
  /\ max_available_space \in 0 .. (Word - 1)
  /\ MaxCrashes \in Nat
  /\ IOErrors \in BOOLEAN

VARIABLES
  (* memory of the server process *)
  used_space,        \* std::atomic<uint64_t>
  files_in_storage,  \* std::set<std::string>
  unscanned,         \* directory entries generate_files_in_storage has still to visit
  (* the upload workers *)
  pc,
  filename,
  file_size,
  to_upload,
  file,              \* the inode the worker's ofstream writes to
  failed,
  (* the main thread inside handle_remove_request *)
  removal,
  (* the shared folder *)
  folder,            \* which inode a filename is linked to
  length,            \* bytes of an inode that have reached the disk
  (* history, for the properties *)
  crashes,
  ioError            \* some write or remove call of the disk has failed

memory  == <<used_space, files_in_storage, unscanned>>
worker  == <<pc, filename, file_size, to_upload, file, failed>>
disk    == <<folder, length>>
history == <<crashes, ioError>>
vars    == <<memory, worker, removal, disk, history>>

(***************************************************************************)
(* An inode is named after what created it: the worker that opened a new   *)
(* file, or, for a file that was there from the start, its filename.       *)
(***************************************************************************)
Inodes    == Workers \cup Filenames
Linked(n) == folder[n] # None
Finals    == {"stored", "refused", "failed", "lost"}
Points    == {"idle", "reserve", "insert", "giveback", "refuse", "offer", "select",
              "open", "read", "unlink", "release", "erase"} \cup Finals
NoRemoval == [at |-> "idle", filename |-> None, bytes |-> 0]

(* uint64_t arithmetic *)
Wrap(x) == x % Word

GoTo(t, p) == pc' = [pc EXCEPT ![t] = p]
At(t, p)   == pc[t] = p

(* A worker returns without a file: its parameters and locals are gone.    *)
Return(t, p) ==
  /\ GoTo(t, p)
  /\ filename' = [filename EXCEPT ![t] = None]
  /\ file_size' = [file_size EXCEPT ![t] = 0]
  /\ to_upload' = [to_upload EXCEPT ![t] = 0]
  /\ file' = [file EXCEPT ![t] = None]
  /\ failed' = [failed EXCEPT ![t] = FALSE]

TypeOK ==
  /\ used_space \in 0 .. (Word - 1)
  /\ files_in_storage \in SUBSET Filenames
  /\ unscanned \in SUBSET Filenames
  /\ pc \in [Workers -> Points]
  /\ filename \in [Workers -> Filenames \cup {None}]
  /\ file_size \in [Workers -> 0 .. (Word - 1)]
  /\ to_upload \in [Workers -> 0 .. (Word - 1)]
  /\ file \in [Workers -> Inodes \cup {None}]
  /\ failed \in [Workers -> BOOLEAN]
  /\ removal \in [at : {"idle", "stat", "free", "unlink"},
                  filename : Filenames \cup {None},
                  bytes : 0 .. (Word - 1)]
  /\ folder \in [Filenames -> Inodes \cup {None}]
  /\ length \in [Inodes -> 0 .. (Word - 1)]
  /\ crashes \in 0 .. MaxCrashes
  /\ ioError \in BOOLEAN

(* Any set of files of the sizes of the model is in the folder beforehand. *)
Init ==
  /\ \E present \in SUBSET (Filenames \ InvalidNames) :
       /\ folder = [n \in Filenames |-> IF n \in present THEN n ELSE None]
       /\ unscanned = present
       /\ length \in [Inodes -> Sizes \cup {0}]
       /\ \A i \in Inodes \ present : length[i] = 0
  /\ used_space = 0
  /\ files_in_storage = {}
  /\ pc = [t \in Workers |-> "idle"]
  /\ filename = [t \in Workers |-> None]
  /\ file_size = [t \in Workers |-> 0]
  /\ to_upload = [t \in Workers |-> 0]
  /\ file = [t \in Workers |-> None]
  /\ failed = [t \in Workers |-> FALSE]
  /\ removal = NoRemoval
  /\ crashes = 0
  /\ ioError = FALSE
-----------------------------------------------------------------------------
(***************************************************************************)
(* Start: generate_files_in_storage visits the directory entry by entry,   *)
(* in the order the directory has; run() begins when it is through.        *)
(***************************************************************************)
NotCounted(n)  == 0                    \* mutant: lists the file, charges nothing
ScannedSize(n) == length[folder[n]]

GenerateFilesInStorage(n) ==
  /\ n \in unscanned
  /\ unscanned' = unscanned \ {n}
  /\ files_in_storage' = files_in_storage \cup {n}
  /\ used_space' = Wrap(used_space + ScannedSize(n))
  /\ UNCHANGED <<worker, removal, disk, history>>

Running == unscanned = {}
-----------------------------------------------------------------------------
(***************************************************************************)
(* Upload.                                                                 *)
(***************************************************************************)
(* The worker of a request starts with the request's filename and size.    *)
HandleUploadRequest(t, n, s) ==
  /\ Running
  /\ At(t, "idle")
  /\ filename' = [filename EXCEPT ![t] = n]
  /\ file_size' = [file_size EXCEPT ![t] = s]
  /\ GoTo(t, IF n \in InvalidNames THEN "refuse" ELSE "reserve")
  /\ UNCHANGED <<memory, to_upload, file, failed, removal, disk, history>>

FitsBefore(size) == used_space <= max_available_space   \* mutant: the size is forgotten

Fits(size) ==
  /\ size <= max_available_space
  /\ used_space <= max_available_space - size

CheckAndReserveSpace(t) ==
  /\ At(t, "reserve")
  /\ \/ /\ Fits(file_size[t])
        /\ used_space' = Wrap(used_space + file_size[t])
        /\ GoTo(t, "insert")
     \/ /\ ~Fits(file_size[t])
        /\ GoTo(t, "refuse")
        /\ UNCHANGED used_space
  /\ UNCHANGED <<files_in_storage, unscanned, filename, file_size, to_upload,
                 file, failed, removal, disk, history>>

AlwaysInserted(t) == TRUE              \* mutant: insert().second is not looked at
Inserted(t)       == filename[t] \notin files_in_storage

(* mutant: a duplicate takes the cleanup of a failed upload                *)
AfterInsertCleanUp(t) == IF Inserted(t) THEN "offer" ELSE "unlink"
AfterInsert(t)        == IF Inserted(t) THEN "offer" ELSE "giveback"

AddFileToStorage(t) ==
  /\ At(t, "insert")
  /\ files_in_storage' = files_in_storage \cup {filename[t]}
  /\ GoTo(t, AfterInsert(t))
  /\ UNCHANGED <<used_space, unscanned, filename, file_size, to_upload,
                 file, failed, removal, disk, history>>

Received(t)     == file_size[t] - to_upload[t]
OnlyReceived(t) == Received(t)         \* mutant: gives back what has arrived
Reservation(t)  == file_size[t]

(* free_space of a refused duplicate and of a failed upload.               *)
FreeSpace(t) ==
  /\ pc[t] \in {"giveback", "release"}
  /\ used_space' = Wrap(used_space - Reservation(t))
  /\ GoTo(t, IF At(t, "giveback") THEN "refuse" ELSE "erase")
  /\ UNCHANGED <<files_in_storage, unscanned, filename, file_size, to_upload,
                 file, failed, removal, disk, history>>

(* NO_WAY: try_send_message swallows a failure to send.                    *)
SendRefusal(t) ==
  /\ At(t, "refuse")
  /\ Return(t, "refused")
  /\ UNCHANGED <<memory, removal, disk, history>>

(* socket, bind, listen and CAN_ADD: if one fails, free_space and          *)
(* remove_file_from_storage, and the client hears nothing.                 *)
SendAcceptance(t) ==
  /\ At(t, "offer")
  /\ \/ GoTo(t, "select")
     \/ GoTo(t, "release")
  /\ UNCHANGED <<memory, filename, file_size, to_upload, file, failed,
                 removal, disk, history>>

(* select: a failure or the timeout fails the upload. accept: a failure    *)
(* fails it as well, but the code goes on to open the file and to read from*)
(* an uninitialised socket, whose outcomes are those of Read and EndOfRead.*)
SelectAndAccept(t) ==
  /\ At(t, "select")
  /\ to_upload' = [to_upload EXCEPT ![t] = file_size[t]]
  /\ \/ failed' = [failed EXCEPT ![t] = TRUE] /\ GoTo(t, "unlink")
     \/ failed' = failed /\ GoTo(t, "open")
     \/ failed' = [failed EXCEPT ![t] = TRUE] /\ GoTo(t, "open")
  /\ UNCHANGED <<memory, filename, file_size, file, removal, disk, history>>

(* ofstream: creates the file, or truncates the one that has the name.     *)
OpenFile(t) ==
  LET n     == filename[t]
      inode == IF Linked(n) THEN folder[n] ELSE t
  IN
  /\ At(t, "open")
  /\ \/ /\ folder' = [folder EXCEPT ![n] = inode]
        /\ length' = [length EXCEPT ![inode] = 0]
        /\ file' = [file EXCEPT ![t] = inode]
        /\ GoTo(t, "read")
        /\ UNCHANGED failed
     \/ /\ failed' = [failed EXCEPT ![t] = TRUE]
        /\ GoTo(t, "unlink")
        /\ UNCHANGED <<disk, file>>
  /\ UNCHANGED <<memory, filename, file_size, to_upload, removal, history>>

WholeBuffer(t) == to_upload[t] + 1     \* mutant: no std::min
ReadAtMost(t)  == to_upload[t]

IgnoresMissing(t) == failed[t]         \* mutant: to_upload is not looked at
UploadFailed(t)   == failed[t] \/ to_upload[t] # 0

(* read returns some bytes and write passes them to the stream, which may  *)
(* keep them in its buffer.                                                *)
Read(t) ==
  /\ At(t, "read")
  /\ \E read_len \in 1 .. ReadAtMost(t) :
       LET inode == file[t]
           end   == Received(t) + read_len
       IN  /\ to_upload' = [to_upload EXCEPT ![t] = @ - read_len]
           /\ \E flushed \in {length[inode]} \cup (length[inode] .. end) :
                length' = [length EXCEPT ![inode] = flushed]
  /\ UNCHANGED <<memory, pc, filename, file_size, file, failed, removal,
                 folder, history>>

(* read returns 0: all has come (a read of 0 bytes), or the client closed, *)
(* or read fails. The stream is closed and its buffer written; nobody looks*)
(* whether that worked.                                                    *)
EndOfRead(t) ==
  LET inode == file[t]
      whole == IF length[inode] < Received(t) THEN Received(t) ELSE length[inode]
  IN
  /\ At(t, "read")
  /\ \/ length' = [length EXCEPT ![inode] = whole] /\ UNCHANGED ioError
     \/ /\ IOErrors
        /\ \E short \in length[inode] .. (whole - 1) :
             length' = [length EXCEPT ![inode] = short]
        /\ ioError' = TRUE
  /\ GoTo(t, IF UploadFailed(t) THEN "unlink" ELSE "stored")
  /\ UNCHANGED <<memory, filename, file_size, to_upload, file, failed, removal,
                 folder, crashes>>

(* The cleanup of a failed upload: fs::remove, free_space (above), and     *)
(* remove_file_from_storage.                                               *)
RemoveFile(t) ==
  /\ At(t, "unlink")
  /\ folder' = [folder EXCEPT ![filename[t]] = None]
  /\ GoTo(t, "release")
  /\ UNCHANGED <<memory, filename, file_size, to_upload, file, failed, removal,
                 length, history>>

NotErased(n) == files_in_storage       \* mutant: the name stays listed
Erased(n)    == files_in_storage \ {n}

RemoveFileFromStorage(t) ==
  /\ At(t, "erase")
  /\ files_in_storage' = Erased(filename[t])
  /\ Return(t, "failed")
  /\ UNCHANGED <<used_space, unscanned, removal, disk, history>>
-----------------------------------------------------------------------------
(***************************************************************************)
(* Removal, in the main thread. A name that is not in storage is skipped.  *)
(***************************************************************************)
HandleRemoveRequest(n) ==
  /\ Running
  /\ removal.at = "idle"
  /\ n \in files_in_storage
  /\ files_in_storage' = Erased(n)
  /\ removal' = [at |-> "stat", filename |-> n, bytes |-> 0]
  /\ UNCHANGED <<used_space, unscanned, worker, disk, history>>

(* fs::file_size throws if there is no file, or if the disk fails: then    *)
(* nothing is freed and nothing removed.                                   *)
RemovalFileSize ==
  LET n == removal.filename IN
  /\ removal.at = "stat"
  /\ \/ /\ Linked(n)
        /\ removal' = [removal EXCEPT !.at = "free", !.bytes = length[folder[n]]]
        /\ UNCHANGED ioError
     \/ /\ ~Linked(n) \/ IOErrors
        /\ removal' = NoRemoval
        /\ ioError' = (ioError \/ Linked(n))
  /\ UNCHANGED <<memory, worker, disk, crashes>>

RemovalFreeSpace ==
  /\ removal.at = "free"
  /\ used_space' = Wrap(used_space - removal.bytes)
  /\ removal' = [removal EXCEPT !.at = "unlink"]
  /\ UNCHANGED <<files_in_storage, unscanned, worker, disk, history>>

RemovalRemoveFile ==
  /\ removal.at = "unlink"
  /\ \/ /\ folder' = [folder EXCEPT ![removal.filename] = None]
        /\ UNCHANGED ioError
     \/ /\ IOErrors
        /\ ioError' = TRUE
        /\ UNCHANGED folder
  /\ removal' = NoRemoval
  /\ UNCHANGED <<memory, worker, length, crashes>>
-----------------------------------------------------------------------------
(***************************************************************************)
(* The process dies (killed, or an exception that leaves a detached thread *)
(* or run()) and is started again on the same folder. What the streams had *)
(* not written is lost.                                                    *)
(***************************************************************************)
Crash ==
  /\ crashes < MaxCrashes
  /\ crashes' = crashes + 1
  /\ used_space' = 0
  /\ files_in_storage' = {}
  /\ unscanned' = {n \in Filenames : Linked(n)}
  /\ pc' = [t \in Workers |-> IF pc[t] \in Finals \cup {"idle"} THEN pc[t] ELSE "lost"]
  /\ to_upload' = [t \in Workers |-> 0]
  /\ file' = [t \in Workers |-> None]
  /\ failed' = [t \in Workers |-> FALSE]
  /\ removal' = NoRemoval
  /\ UNCHANGED <<filename, file_size, disk, ioError>>
-----------------------------------------------------------------------------
(* Steps a worker takes by itself, and steps that follow its client.       *)
WorkerStep(t) ==
  \/ CheckAndReserveSpace(t)
  \/ AddFileToStorage(t)
  \/ FreeSpace(t)
  \/ SendRefusal(t)
  \/ SendAcceptance(t)
  \/ SelectAndAccept(t)
  \/ OpenFile(t)
  \/ RemoveFile(t)
  \/ RemoveFileFromStorage(t)

ClientStep(t) == Read(t) \/ EndOfRead(t)

RemovalStep == RemovalFileSize \/ RemovalFreeSpace \/ RemovalRemoveFile

Request ==
  \/ \E t \in Workers, n \in Filenames, s \in Sizes : HandleUploadRequest(t, n, s)
  \/ \E n \in Filenames : HandleRemoveRequest(n)

Next ==
  \/ \E n \in Filenames : GenerateFilesInStorage(n)
  \/ Request
  \/ \E t \in Workers : WorkerStep(t) \/ ClientStep(t)
  \/ RemovalStep
  \/ Crash

Spec == Init /\ [][Next]_vars
-----------------------------------------------------------------------------
(***************************************************************************)
(* The discipline under which the node keeps its books. The code does not  *)
(* enforce it; OfferedFits, below, fails without it.                       *)
(***************************************************************************)
(* The worker has entered its name into files_in_storage and not left.     *)
Owns(t) == pc[t] \in {"offer", "select", "open", "read", "unlink", "release", "erase"}

(* The worker's reservation is part of used_space.                         *)
Reserves(t) ==
  pc[t] \in {"insert", "giveback", "offer", "select", "open", "read", "unlink", "release"}

InUpload(n) == \E t \in Workers : Owns(t) /\ filename[t] = n

(* Users do not remove a name while an upload of it runs, and the other way*)
(* round.                                                                  *)
Settled == removal.at # "idle" => ~InUpload(removal.filename)

(* No folder holds 2^64 bytes.                                             *)
FolderFits == \A n \in unscanned : used_space + ScannedSize(n) < Word

Discipline == Settled /\ FolderFits

OrderlyInit == Init /\ Discipline

OrderlySpec == OrderlyInit /\ [][Next /\ Discipline']_vars
-----------------------------------------------------------------------------
(***************************************************************************)
(* Properties.                                                             *)
(***************************************************************************)

(* At most one worker at a time is between entering a name and leaving it: *)
(* what add_file_to_storage is tested for in handle_upload_request.        *)
ExclusiveUpload ==
  \A t, u \in Workers : Owns(t) /\ Owns(u) /\ filename[t] = filename[u] => t = u

(* The set the process answers from and the folder agree. A name that is   *)
(* listed has a file or a worker that is still busy with it; a file in the *)
(* folder is listed, on its way out, or not yet visited after a start.     *)
(* Each of the code's two-step changes (erase the name, then remove the    *)
(* file; add the name, then create the file) opens a gap between the two.  *)
MemoryMatchesFolder ==
  \A n \in Filenames :
    /\ n \in files_in_storage => Linked(n) \/ InUpload(n)
    /\ Linked(n) /\ ~ioError =>
         \/ n \in files_in_storage \cup unscanned
         \/ removal.at # "idle" /\ removal.filename = n

(* The names whose files' bytes used_space has to contain: the listed ones *)
(* no worker is busy with, and the one being removed until it is given back*)
Charged ==
  {n \in files_in_storage : ~InUpload(n)}
    \cup (IF removal.at \in {"stat", "free"} THEN {removal.filename} ELSE {})

Held(i) == \E n \in Charged : folder[n] = i

Charge(i) ==
  IF i \in Workers /\ Reserves(i) THEN file_size[i] ELSE IF Held(i) THEN length[i] ELSE 0

Booked == Total([i \in Inodes |-> Charge(i)], Word)

(* used_space is the reservations in flight plus the sizes of the files    *)
(* offered, to the byte, at every point of every interleaving; after a disk*)
(* error it may be more but is never less (free_space: "Use it correctly!")*)
Ledger ==
  /\ Booked <= used_space
  /\ ~ioError => used_space = Booked

(* The node promises no byte it does not have: as long as a reservation is *)
(* held, reservations and files together fit in max_available_space. Only  *)
(* what the folder held at the start can exceed it, and then nothing is    *)
(* accepted.                                                               *)
WithinCapacity ==
  (\E t \in Workers : Reserves(t)) => Booked <= max_available_space

(* An upload that ended well left a file of exactly the announced size.    *)
UploadedWhole ==
  \A t \in Workers :
    \A n \in Filenames :
      ~ioError /\ At(t, "stored") /\ folder[n] = t =>
        /\ filename[t] = n
        /\ length[t] = file_size[t]

(* The file of a name that is listed and that no worker is busy with.      *)
Offered(n) == Linked(n) /\ n \in files_in_storage /\ ~InUpload(n)

KeptAsIs(n) ==
  /\ folder'[n] = folder[n]
  /\ length'[folder[n]] = length[folder[n]]

LeftAlone(n) == n \in files_in_storage' => ~InUpload(n)'

(* A file that is offered stays what it is, and no upload becomes the owner*)
(* of its name, until a removal takes the name out of files_in_storage,    *)
(* however many uploads of that name are refused or fail meanwhile.        *)
OfferedStays ==
  [][\A n \in Filenames : Offered(n) => KeptAsIs(n) /\ LeftAlone(n)]_vars

(* The node implements FileStore, until its disk fails a write or a        *)
(* removal. A name is pending while its worker holds the name and the      *)
(* reservation, and doomed while a removal has taken the name and not yet  *)
(* the file.                                                               *)
Pending(t) == Owns(t) /\ Reserves(t)

CatalogEntry(n) ==
  IF \E t \in Workers : Pending(t) /\ filename[t] = n
    THEN [status |-> "pending",
          bytes |-> file_size[CHOOSE t \in Workers : Pending(t) /\ filename[t] = n]]
  ELSE IF ~Linked(n) THEN [status |-> "absent", bytes |-> 0]
  ELSE [status |-> IF removal.at # "idle" /\ removal.filename = n
                   THEN "doomed" ELSE "stored",
        bytes |-> length[folder[n]]]

Catalog == INSTANCE FileStore WITH
             catalog  <- [n \in Filenames |-> CatalogEntry(n)],
             restarts <- crashes,
             faulty   <- ioError,
             MaxBytes <- Word,
             MaxSpace <- max_available_space

ImplementsFileStore == Catalog!Spec

(* "Each server node provides some constant storage space" (README.md:13): *)
(* when all uploads and removals are done, and one of the uploads stored   *)
(* its file, the files offered fit in that space.                          *)
AtRest == removal.at = "idle" /\ \A t \in Workers : pc[t] \in Finals \cup {"idle"}

OfferedFits ==
  AtRest /\ (\E t \in Workers : At(t, "stored")) =>
    Total([n \in Filenames |-> IF n \in files_in_storage /\ Linked(n) THEN length[folder[n]] ELSE 0],
          Word) <= max_available_space
=============================================================================
