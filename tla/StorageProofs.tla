--------------------------- MODULE StorageProofs ---------------------------
(***************************************************************************)
(* Proofs about Storage, for any number of workers and names, any sizes,   *)
(* any word and any number of crashes: the type invariant of the program,  *)
(* and, under the discipline, that names, files and lengths fit together,  *)
(* that the books balance, and that the node implements FileStore.         *)
(***************************************************************************)
EXTENDS Storage, FiniteSetTheorems, TLAPS

-----------------------------------------------------------------------------
(***************************************************************************)
(* Totals: how a sum of module Units changes with the amounts.             *)
(***************************************************************************)
(* One owner's column of v units has v elements.                           *)
LEMMA ColumnSize ==
  ASSUME NEW i, NEW v \in Nat
  PROVE  IsFiniteSet({i} \X (1 .. v)) /\ Cardinality({i} \X (1 .. v)) = v
<1>1. IsFiniteSet({i}) /\ Cardinality({i}) = 1
  BY FS_Singleton
<1>2. IsFiniteSet(1 .. v) /\ Cardinality(1 .. v) = v
  BY FS_Interval
<1>3. /\ IsFiniteSet({i} \X (1 .. v))
      /\ Cardinality({i} \X (1 .. v)) = Cardinality({i}) * Cardinality(1 .. v)
  BY <1>1, <1>2, FS_Product
<1> QED
  BY <1>1, <1>2, <1>3

(* A total of bounded amounts of finitely many owners is a number.         *)
LEMMA UnitsFinite ==
  ASSUME NEW S, IsFiniteSet(S), NEW top \in Nat, NEW f \in [S -> 0 .. top]
  PROVE  IsFiniteSet(Units(f, top)) /\ Total(f, top) \in Nat
<1>1. IsFiniteSet(1 .. top)
  BY FS_Interval
<1>2. IsFiniteSet(S \X (1 .. top))
  BY <1>1, FS_Product
<1>3. Units(f, top) \in SUBSET (S \X (1 .. top))
  BY DEF Units
<1>4. IsFiniteSet(Units(f, top))
  BY <1>2, <1>3, FS_Subset
<1> QED
  BY <1>4, FS_CardinalityType DEF Total

(* The units of all the owners but i.                                      *)
Others(S, f, top, i) == {u \in S \X (1 .. top) : u[1] # i /\ u[2] <= f[u[1]]}

(* A total is the amount of one owner and the units of the others.         *)
LEMMA TotalSplit ==
  ASSUME NEW S, IsFiniteSet(S), NEW top \in Nat, NEW f \in [S -> 0 .. top], NEW i \in S
  PROVE  /\ Cardinality(Others(S, f, top, i)) \in Nat
         /\ Total(f, top) = Cardinality(Others(S, f, top, i)) + f[i]
<1> DEFINE others == Others(S, f, top, i)
           column == {i} \X (1 .. f[i])
<1>1. f[i] \in Nat /\ f[i] <= top
  OBVIOUS
<1>2. IsFiniteSet(column) /\ Cardinality(column) = f[i]
  BY <1>1, ColumnSize
<1>3. IsFiniteSet(others)
  <2>1. others \in SUBSET Units(f, top)
    BY DEF Units, Others
  <2> QED
    BY <2>1, UnitsFinite, FS_Subset
<1>4. Units(f, top) = others \cup column
  <2>1. ASSUME NEW u \in S \X (1 .. top)
        PROVE  u \in Units(f, top) <=> u \in others \cup column
    BY <1>1 DEF Units, Others
  <2>2. Units(f, top) \subseteq S \X (1 .. top)
    BY DEF Units
  <2>3. others \cup column \subseteq S \X (1 .. top)
    BY <1>1 DEF Others
  <2> QED
    BY <2>1, <2>2, <2>3
<1>5. others \cap column = {}
  BY DEF Others
<1> HIDE DEF others, column
<1>6. Cardinality(others \cup column) = Cardinality(others) + Cardinality(column) - Cardinality(others \cap column)
  BY <1>2, <1>3, FS_Union
<1>7. Cardinality(others) \in Nat
  BY <1>3, FS_CardinalityType
<1>8. Cardinality(others \cap column) = 0
  BY <1>5, FS_EmptySet
<1>9. Total(f, top) = Cardinality(others \cup column)
  BY <1>4 DEF Total
<1>10. Total(f, top) = Cardinality(others) + f[i]
  BY <1>1, <1>2, <1>6, <1>7, <1>8, <1>9
<1> QED
  BY <1>7, <1>10 DEF others

(* When one owner's amount changes, the total changes by the difference.   *)
THEOREM TotalChange ==
  ASSUME NEW S, IsFiniteSet(S), NEW top \in Nat,
         NEW f \in [S -> 0 .. top], NEW g \in [S -> 0 .. top],
         NEW i \in S, \A j \in S : j # i => g[j] = f[j]
  PROVE  Total(g, top) = Total(f, top) - f[i] + g[i]
<1>1. Others(S, f, top, i) = Others(S, g, top, i)
  <2>1. \A u \in S \X (1 .. top) : u[1] \in S
    OBVIOUS
  <2> QED
    BY <2>1 DEF Others
<1>2. /\ Cardinality(Others(S, f, top, i)) \in Nat
      /\ Total(f, top) = Cardinality(Others(S, f, top, i)) + f[i]
  BY TotalSplit
<1>3. Total(g, top) = Cardinality(Others(S, g, top, i)) + g[i]
  BY TotalSplit
<1>4. f[i] \in Int /\ g[i] \in Int
  OBVIOUS
<1> QED
  BY <1>1, <1>2, <1>3, <1>4

(* No owner has more than the total.                                       *)
THEOREM AmountBelowTotal ==
  ASSUME NEW S, IsFiniteSet(S), NEW top \in Nat, NEW f \in [S -> 0 .. top], NEW i \in S
  PROVE  f[i] <= Total(f, top)
<1>1. /\ Cardinality(Others(S, f, top, i)) \in Nat
      /\ Total(f, top) = Cardinality(Others(S, f, top, i)) + f[i]
  BY TotalSplit
<1>2. f[i] \in Nat
  OBVIOUS
<1> QED
  BY <1>1, <1>2

(* If nobody has anything the total is 0.                                  *)
THEOREM TotalOfNothing ==
  ASSUME NEW S, NEW top \in Nat
  PROVE  Total([i \in S |-> 0], top) = 0
<1>1. Units([i \in S |-> 0], top) = {}
  BY DEF Units
<1> QED
  BY <1>1, FS_EmptySet DEF Total
-----------------------------------------------------------------------------
(***************************************************************************)
(* Types, and how names, files and lengths fit together.                   *)
(***************************************************************************)
Active == Points \ (Finals \cup {"idle"})

(* The parameters and locals that are in use have values, and nothing runs *)
(* while the folder is being scanned.                                      *)
Shape ==
  /\ \A t \in Workers : pc[t] \in Active => filename[t] \in Filenames
  /\ \A t \in Workers : At(t, "read") => file[t] \in Inodes
  /\ removal.at # "idle" => removal.filename \in Filenames
  /\ \A n \in unscanned : Linked(n)
  /\ unscanned # {} =>
       /\ \A t \in Workers : pc[t] \notin Active
       /\ removal.at = "idle"

Types == TypeOK /\ Shape

(* uint64_t arithmetic stays in the range of a uint64_t.                   *)
LEMMA WrapType ==
  ASSUME NEW x \in Int
  PROVE  Wrap(x) \in 0 .. (Word - 1)
BY StorageAssumption DEF Wrap

(* The state in which main calls init has the right types.                 *)
LEMMA InitTypes == Init => Types
<1> SUFFICES ASSUME Init PROVE Types
  OBVIOUS
<1> USE StorageAssumption DEF Init
<1>1. folder \in [Filenames -> Inodes \cup {None}] /\ unscanned \in SUBSET Filenames
  BY DEF Inodes
<1>2. length \in [Inodes -> 0 .. (Word - 1)]
  <2>1. length \in [Inodes -> Sizes \cup {0}]
    OBVIOUS
  <2>2. Sizes \cup {0} \subseteq 0 .. (Word - 1)
    OBVIOUS
  <2> QED BY <2>1, <2>2
<1>3. ioError \in BOOLEAN /\ failed \in [Workers -> BOOLEAN]
  OBVIOUS
<1>4. \A n \in unscanned : Linked(n)
  BY DEF Linked
<1> QED
  BY <1>1, <1>2, <1>3, <1>4 DEF Types, TypeOK, Shape, Points, Finals, Active, NoRemoval, At

(* The two parts of Types, for the steps that need only one of them.       *)
LEMMA Typed == ASSUME Types PROVE TypeOK /\ Shape
BY DEF Types

(* fs::file_size leaves the removal where it is or ends it.                *)
LEMMA RemovalOutcome ==
  ASSUME TypeOK, RemovalFileSize
  PROVE  \/ removal' = NoRemoval /\ removal'.at = "idle" /\ (~Linked(removal.filename) \/ ioError')
         \/ /\ removal'.at = "free" /\ removal'.filename = removal.filename
            /\ removal.at # "idle"
<1> USE DEF RemovalFileSize, TypeOK
<1>1. CASE removal' = [removal EXCEPT !.at = "free", !.bytes = length[folder[removal.filename]]]
  BY <1>1
<1>2. CASE removal' = NoRemoval /\ (~Linked(removal.filename) \/ ioError')
  BY <1>2 DEF NoRemoval
<1>3. ~Linked(removal.filename) \/ Linked(removal.filename)
  OBVIOUS
<1> QED BY <1>1, <1>2, <1>3

(* No step of the program, whoever takes it, leaves the types: in          *)
(* particular used_space and a worker's to_upload stay uint64_t values,    *)
(* and a name, once a handler has it, is a filename.                       *)
LEMMA StepTypes == Types /\ [Next]_vars => Types'
<1> SUFFICES ASSUME Types, [Next]_vars PROVE Types'
  OBVIOUS
<1> USE StorageAssumption DEF Types, TypeOK, Shape, At, Linked
<1>1. ASSUME NEW n \in Filenames, GenerateFilesInStorage(n) PROVE Types'
  <2>1. folder[n] \in Inodes BY <1>1 DEF GenerateFilesInStorage
  <2>2. used_space' \in 0 .. (Word - 1)
    BY <1>1, <2>1, WrapType DEF GenerateFilesInStorage, ScannedSize
  <2> QED BY <1>1, <2>2 DEF GenerateFilesInStorage, worker, disk, history
<1> USE DEF memory, worker, disk, history, GoTo, Points, Active, Finals
<1>2. ASSUME NEW t \in Workers, NEW n \in Filenames, NEW s \in Sizes, HandleUploadRequest(t, n, s)
      PROVE Types'
  BY <1>2 DEF HandleUploadRequest, Running
<1>3. ASSUME NEW t \in Workers, CheckAndReserveSpace(t) PROVE Types'
  <2>1. used_space' \in 0 .. (Word - 1)
    BY <1>3, WrapType DEF CheckAndReserveSpace
  <2> QED BY <1>3, <2>1 DEF CheckAndReserveSpace
<1>4. ASSUME NEW t \in Workers, AddFileToStorage(t) PROVE Types'
  BY <1>4 DEF AddFileToStorage, AfterInsert
<1>5. ASSUME NEW t \in Workers, FreeSpace(t) PROVE Types'
  <2>1. used_space' \in 0 .. (Word - 1)
    BY <1>5, WrapType DEF FreeSpace, Reservation
  <2> QED BY <1>5, <2>1 DEF FreeSpace
<1>6. ASSUME NEW t \in Workers, SendRefusal(t) PROVE Types'
  BY <1>6 DEF SendRefusal, Return
<1>7. ASSUME NEW t \in Workers, SendAcceptance(t) PROVE Types'
  BY <1>7 DEF SendAcceptance
<1>8. ASSUME NEW t \in Workers, SelectAndAccept(t) PROVE Types'
  BY <1>8 DEF SelectAndAccept
<1>9. ASSUME NEW t \in Workers, OpenFile(t) PROVE Types'
  <2> DEFINE n == filename[t]
             inode == IF Linked(n) THEN folder[n] ELSE t
  <2>1. n \in Filenames /\ unscanned = {} BY <1>9 DEF OpenFile
  <2>2. inode \in Inodes BY <2>1 DEF Inodes
  <2>3. CASE /\ folder' = [folder EXCEPT ![n] = inode]
             /\ length' = [length EXCEPT ![inode] = 0]
             /\ file' = [file EXCEPT ![t] = inode]
             /\ GoTo(t, "read")
             /\ UNCHANGED failed
    BY <1>9, <2>1, <2>2, <2>3 DEF OpenFile
  <2>4. CASE /\ failed' = [failed EXCEPT ![t] = TRUE]
             /\ GoTo(t, "unlink")
             /\ UNCHANGED <<disk, file>>
    <3>1. failed' \in [Workers -> BOOLEAN] BY <2>4
    <3> QED BY <1>9, <2>1, <2>4, <3>1 DEF OpenFile
  <2> QED BY <1>9, <2>3, <2>4 DEF OpenFile
<1>10. ASSUME NEW t \in Workers, Read(t) PROVE Types'
  <2>1. PICK read_len \in 1 .. to_upload[t] :
            /\ to_upload' = [to_upload EXCEPT ![t] = @ - read_len]
            /\ \E flushed \in {length[file[t]]} \cup (length[file[t]] .. (Received(t) + read_len)) :
                 length' = [length EXCEPT ![file[t]] = flushed]
    BY <1>10 DEF Read, ReadAtMost
  <2>2. file[t] \in Inodes BY <1>10 DEF Read
  <2>3. length[file[t]] \in 0 .. (Word - 1) BY <2>2
  <2>4. Received(t) + read_len \in Int /\ Received(t) + read_len < Word
    BY DEF Received
  <2>5. length' \in [Inodes -> 0 .. (Word - 1)] BY <2>1, <2>2, <2>3, <2>4
  <2>6. to_upload' \in [Workers -> 0 .. (Word - 1)] BY <2>1
  <2> QED BY <1>10, <2>5, <2>6 DEF Read
<1>11. ASSUME NEW t \in Workers, EndOfRead(t) PROVE Types'
  <2>1. ioError' \in BOOLEAN BY <1>11 DEF EndOfRead
  <2>2. length' \in [Inodes -> 0 .. (Word - 1)]
    <3>1. Received(t) < Word /\ Received(t) \in Int BY DEF Received
    <3>2. file[t] \in Inodes BY <1>11 DEF EndOfRead
    <3>3. length[file[t]] \in 0 .. (Word - 1) BY <3>2
    <3> QED BY <1>11, <3>1, <3>2, <3>3 DEF EndOfRead
  <2>3. pc' \in [Workers -> Points] /\ unscanned = {} BY <1>11 DEF EndOfRead
  <2> QED BY <1>11, <2>1, <2>2, <2>3 DEF EndOfRead
<1>12. ASSUME NEW t \in Workers, RemoveFile(t) PROVE Types'
  BY <1>12 DEF RemoveFile
<1>13. ASSUME NEW t \in Workers, RemoveFileFromStorage(t) PROVE Types'
  BY <1>13 DEF RemoveFileFromStorage, Return, Erased
<1>14. ASSUME NEW n \in Filenames, HandleRemoveRequest(n) PROVE Types'
  BY <1>14 DEF HandleRemoveRequest, Running, Erased
<1>15. ASSUME RemovalFileSize PROVE Types'
  <2>1. ioError' \in BOOLEAN BY <1>15 DEF RemovalFileSize
  <2>2. removal' \in [at : {"idle", "stat", "free", "unlink"},
                      filename : Filenames \cup {None}, bytes : 0 .. (Word - 1)]
    <3>1. CASE removal' = NoRemoval BY <3>1 DEF NoRemoval
    <3>2. CASE Linked(removal.filename) /\ removal' = [removal EXCEPT !.at = "free", !.bytes = length[folder[removal.filename]]]
      <4>1. length[folder[removal.filename]] \in 0 .. (Word - 1) BY <1>15, <3>2 DEF RemovalFileSize
      <4> QED BY <3>2, <4>1
    <3> QED BY <1>15, <3>1, <3>2 DEF RemovalFileSize
  <2>3. removal'.at = "idle" \/ removal'.filename = removal.filename
    <3>1. \/ removal' = NoRemoval
          \/ removal' = [removal EXCEPT !.at = "free", !.bytes = length[folder[removal.filename]]]
      BY <1>15 DEF RemovalFileSize
    <3>2. CASE removal' = NoRemoval BY <3>2 DEF NoRemoval
    <3>3. CASE removal' = [removal EXCEPT !.at = "free", !.bytes = length[folder[removal.filename]]]
      BY <3>3
    <3> QED BY <3>1, <3>2, <3>3
  <2> QED BY <1>15, <2>1, <2>2, <2>3 DEF RemovalFileSize
<1>16. ASSUME RemovalFreeSpace PROVE Types'
  <2>1. used_space' \in 0 .. (Word - 1)
    BY <1>16, WrapType DEF RemovalFreeSpace
  <2> QED BY <1>16, <2>1 DEF RemovalFreeSpace
<1>17. ASSUME RemovalRemoveFile PROVE Types'
  <2>1. ioError' \in BOOLEAN BY <1>17 DEF RemovalRemoveFile
  <2>2. folder' \in [Filenames -> Inodes \cup {None}] BY <1>17 DEF RemovalRemoveFile
  <2>3. unscanned = {} BY <1>17 DEF RemovalRemoveFile
  <2> QED BY <1>17, <2>1, <2>2, <2>3 DEF RemovalRemoveFile, NoRemoval
<1>18. ASSUME Crash PROVE Types'
  BY <1>18 DEF Crash, NoRemoval
<1>19. ASSUME UNCHANGED vars PROVE Types'
  BY <1>19 DEF vars
<1> QED
  BY <1>1, <1>2, <1>3, <1>4, <1>5, <1>6, <1>7, <1>8, <1>9, <1>10, <1>11, <1>12, <1>13,
     <1>14, <1>15, <1>16, <1>17, <1>18, <1>19
     DEF Next, Request, WorkerStep, ClientStep, RemovalStep
-----------------------------------------------------------------------------
(* The name of a file says whose it is, and a name under upload is listed. *)
Names ==
  /\ \A t \in Workers : Owns(t) => filename[t] \in files_in_storage
  /\ removal.at # "idle" => removal.filename \notin files_in_storage
  /\ \A n \in Filenames : \A t \in Workers :
       folder[n] = t => filename[t] = n /\ pc[t] \in {"read", "unlink", "stored", "lost"}
  /\ \A n, m \in Filenames : folder[n] = m => n = m

(* A worker that reads writes to the file of its name. Unless the disk has *)
(* failed, that file is its own, and it had none before it opened it and   *)
(* has none after it has removed it.                                       *)
Files ==
  \A t \in Workers :
    /\ At(t, "read") => file[t] # None /\ folder[filename[t]] = file[t]
    /\ ~ioError =>
         /\ pc[t] \in {"offer", "select", "open", "release", "erase"} => ~Linked(filename[t])
         /\ At(t, "read") => file[t] = t
         /\ At(t, "unlink") => folder[filename[t]] \in {None, t}

(* What a worker has received bounds what its file holds.                  *)
Lengths ==
  \A t \in Workers :
    /\ pc[t] \in {"open", "read"} => to_upload[t] <= file_size[t]
    /\ At(t, "read") /\ ~ioError => length[t] <= Received(t)

IInv ==
  /\ Types
  /\ Discipline
  /\ Names
  /\ Files
  /\ Lengths
  /\ ExclusiveUpload
  /\ MemoryMatchesFolder
  /\ UploadedWhole

(* The invariant is inductive: one step of the proof for each action, and  *)
(* under it one for each conjunct.                                         *)
LEMMA StepIInv == IInv /\ [Next /\ Discipline']_vars => IInv'
<1> SUFFICES ASSUME IInv, [Next /\ Discipline']_vars PROVE IInv'
  OBVIOUS
<1>0. Types' /\ Discipline'
  <2>1. Types' BY StepTypes DEF IInv
  <2>2. Discipline' BY DEF IInv, Discipline, Settled, FolderFits, InUpload, Owns, ScannedSize, vars, memory, worker, disk, history
  <2> QED BY <2>1, <2>2
<1> USE StorageAssumption, <1>0 DEF IInv
<1>1. ASSUME NEW n \in Filenames, GenerateFilesInStorage(n) PROVE IInv'
  <2>1. Names'
    BY <1>1 DEF GenerateFilesInStorage, Names, Owns, Types, Shape, worker, disk
  <2>2. Files'
    BY <1>1 DEF GenerateFilesInStorage, Files, At, Linked, worker, disk, history
  <2>3. Lengths'
    BY <1>1 DEF GenerateFilesInStorage, Lengths, Types, Shape, At, worker, Active, Points, Finals
  <2>4. ExclusiveUpload'
    BY <1>1 DEF GenerateFilesInStorage, ExclusiveUpload, Owns, worker
  <2>5. MemoryMatchesFolder'
    BY <1>1 DEF GenerateFilesInStorage, MemoryMatchesFolder, Owns, InUpload, Types, Shape, Linked, disk, history, Active, Points, Finals
  <2>6. UploadedWhole'
    BY <1>1 DEF GenerateFilesInStorage, UploadedWhole, At, worker, disk, history
  <2> QED BY <2>1, <2>2, <2>3, <2>4, <2>5, <2>6
<1>2. ASSUME NEW t \in Workers, NEW n \in Filenames, NEW s \in Sizes, HandleUploadRequest(t, n, s) PROVE IInv'
  <2>1. Names'
    BY <1>2 DEF HandleUploadRequest, Names, Owns, At, GoTo, memory, disk
  <2>2. Files'
    BY <1>2 DEF HandleUploadRequest, Files, At, Linked, GoTo, disk, history
  <2>3. Lengths'
    BY <1>2 DEF HandleUploadRequest, Lengths, Received, At, GoTo, disk, history
  <2>4. ExclusiveUpload'
    BY <1>2 DEF HandleUploadRequest, ExclusiveUpload, Owns, At, GoTo
  <2>5. MemoryMatchesFolder'
    BY <1>2 DEF HandleUploadRequest, MemoryMatchesFolder, Owns, InUpload, At, Linked, GoTo, memory, disk, history
  <2>6. UploadedWhole'
    BY <1>2 DEF HandleUploadRequest, UploadedWhole, At, GoTo, disk, history
  <2> QED BY <2>1, <2>2, <2>3, <2>4, <2>5, <2>6
<1>3. ASSUME NEW t \in Workers, CheckAndReserveSpace(t) PROVE IInv'
  <2>1. Names'
    BY <1>3 DEF CheckAndReserveSpace, Names, Owns, Types, TypeOK, At, GoTo, disk
  <2>2. Files'
    BY <1>3 DEF CheckAndReserveSpace, Files, Types, TypeOK, At, Linked, GoTo, disk, history
  <2>3. Lengths'
    BY <1>3 DEF CheckAndReserveSpace, Lengths, Received, Types, TypeOK, At, GoTo, disk, history
  <2>4. ExclusiveUpload'
    BY <1>3 DEF CheckAndReserveSpace, ExclusiveUpload, Owns, Types, TypeOK, GoTo
  <2>5. MemoryMatchesFolder'
    BY <1>3 DEF CheckAndReserveSpace, MemoryMatchesFolder, Owns, InUpload, Types, TypeOK, At, Linked, GoTo, disk, history
  <2>6. UploadedWhole'
    BY <1>3 DEF CheckAndReserveSpace, UploadedWhole, Types, TypeOK, At, GoTo, disk, history
  <2> QED BY <2>1, <2>2, <2>3, <2>4, <2>5, <2>6
<1>4. ASSUME NEW t \in Workers, AddFileToStorage(t) PROVE IInv'
  <2>1. Names'
    BY <1>4 DEF AddFileToStorage, AfterInsert, Inserted, Names, Owns, Discipline, Settled, InUpload, Types, TypeOK, At, GoTo, disk
  <2>2. Files'
    BY <1>4 DEF AddFileToStorage, AfterInsert, Inserted, Files, Owns, Discipline, Settled, InUpload, MemoryMatchesFolder, Types, Shape, At, Linked, GoTo, disk, history, Active, Points, Finals
  <2>3. Lengths'
    BY <1>4 DEF AddFileToStorage, AfterInsert, Lengths, Received, At, GoTo, disk, history
  <2>4. ExclusiveUpload'
    BY <1>4 DEF AddFileToStorage, AfterInsert, Inserted, Names, ExclusiveUpload, Owns, GoTo
  <2>5. MemoryMatchesFolder'
    BY <1>4 DEF AddFileToStorage, AfterInsert, Inserted, MemoryMatchesFolder, Owns, InUpload, Types, TypeOK, At, Linked, GoTo, disk, history
  <2>6. UploadedWhole'
    BY <1>4 DEF AddFileToStorage, AfterInsert, UploadedWhole, At, GoTo, disk, history
  <2> QED BY <2>1, <2>2, <2>3, <2>4, <2>5, <2>6
<1>5. ASSUME NEW t \in Workers, FreeSpace(t) PROVE IInv'
  <2>1. Names'
    BY <1>5 DEF FreeSpace, Names, Owns, At, GoTo, disk
  <2>2. Files'
    BY <1>5 DEF FreeSpace, Files, At, Linked, GoTo, disk, history
  <2>3. Lengths'
    BY <1>5 DEF FreeSpace, Lengths, Received, At, GoTo, disk, history
  <2>4. ExclusiveUpload'
    BY <1>5 DEF FreeSpace, ExclusiveUpload, Owns, At, GoTo
  <2>5. MemoryMatchesFolder'
    BY <1>5 DEF FreeSpace, MemoryMatchesFolder, Owns, InUpload, At, Linked, GoTo, disk, history
  <2>6. UploadedWhole'
    BY <1>5 DEF FreeSpace, UploadedWhole, At, GoTo, disk, history
  <2> QED BY <2>1, <2>2, <2>3, <2>4, <2>5, <2>6
<1>6. ASSUME NEW t \in Workers, SendRefusal(t) PROVE IInv'
  <2>1. Names'
    BY <1>6 DEF SendRefusal, Return, Names, Owns, At, GoTo, memory, disk
  <2>2. Files'
    BY <1>6 DEF SendRefusal, Return, Files, At, Linked, GoTo, disk, history
  <2>3. Lengths'
    BY <1>6 DEF SendRefusal, Return, Lengths, Received, At, GoTo, disk, history
  <2>4. ExclusiveUpload'
    BY <1>6 DEF SendRefusal, Return, ExclusiveUpload, Owns, At, GoTo
  <2>5. MemoryMatchesFolder'
    BY <1>6 DEF SendRefusal, Return, MemoryMatchesFolder, Owns, InUpload, At, Linked, GoTo, memory, disk, history
  <2>6. UploadedWhole'
    BY <1>6 DEF SendRefusal, Return, UploadedWhole, At, GoTo, disk, history
  <2> QED BY <2>1, <2>2, <2>3, <2>4, <2>5, <2>6
<1>7. ASSUME NEW t \in Workers, SendAcceptance(t) PROVE IInv'
  <2>1. Names'
    BY <1>7 DEF SendAcceptance, Names, Owns, Types, TypeOK, At, GoTo, memory, disk
  <2>2. Files'
    BY <1>7 DEF SendAcceptance, Files, Types, TypeOK, At, Linked, GoTo, disk, history
  <2>3. Lengths'
    BY <1>7 DEF SendAcceptance, Lengths, Received, Types, TypeOK, At, GoTo, disk, history
  <2>4. ExclusiveUpload'
    BY <1>7 DEF SendAcceptance, ExclusiveUpload, Owns, Types, TypeOK, At, GoTo
  <2>5. MemoryMatchesFolder'
    BY <1>7 DEF SendAcceptance, MemoryMatchesFolder, Owns, InUpload, Types, TypeOK, Linked, GoTo, memory, disk, history
  <2>6. UploadedWhole'
    BY <1>7 DEF SendAcceptance, UploadedWhole, Types, TypeOK, At, GoTo, disk, history
  <2> QED BY <2>1, <2>2, <2>3, <2>4, <2>5, <2>6
<1>8. ASSUME NEW t \in Workers, SelectAndAccept(t) PROVE IInv'
  <2>1. Names'
    BY <1>8 DEF SelectAndAccept, Names, Owns, Types, TypeOK, At, GoTo, memory, disk
  <2>2. Files'
    BY <1>8 DEF SelectAndAccept, Files, Types, TypeOK, At, Linked, GoTo, disk, history
  <2>3. Lengths'
    BY <1>8 DEF SelectAndAccept, Lengths, Received, Types, TypeOK, At, GoTo, disk, history
  <2>4. ExclusiveUpload'
    BY <1>8 DEF SelectAndAccept, ExclusiveUpload, Owns, Types, TypeOK, At, GoTo
  <2>5. MemoryMatchesFolder'
    BY <1>8 DEF SelectAndAccept, MemoryMatchesFolder, Owns, InUpload, Types, TypeOK, Linked, GoTo, memory, disk, history
  <2>6. UploadedWhole'
    BY <1>8 DEF SelectAndAccept, UploadedWhole, Types, TypeOK, At, GoTo, disk, history
  <2> QED BY <2>1, <2>2, <2>3, <2>4, <2>5, <2>6
<1>9. ASSUME NEW t \in Workers, OpenFile(t) PROVE IInv'
  <2>1. Names'
    BY <1>9 DEF OpenFile, Names, Owns, Types, TypeOK, At, GoTo, memory, disk
  <2>2. Files'
    BY <1>9 DEF OpenFile, Names, Files, Owns, ExclusiveUpload, Types, TypeOK, At, Linked, GoTo, disk, history
  <2>3. Lengths'
    BY <1>9 DEF OpenFile, Files, Lengths, Received, Types, TypeOK, At, GoTo, disk, history
  <2>4. ExclusiveUpload'
    BY <1>9 DEF OpenFile, ExclusiveUpload, Owns, Types, TypeOK, At, GoTo
  <2>5. MemoryMatchesFolder'
    BY <1>9 DEF OpenFile, Names, MemoryMatchesFolder, Owns, InUpload, Types, TypeOK, At, Linked, GoTo, memory, disk, history
  <2>6. UploadedWhole'
    BY <1>9 DEF OpenFile, Files, UploadedWhole, Types, TypeOK, At, GoTo, disk, history
  <2> QED BY <2>1, <2>2, <2>3, <2>4, <2>5, <2>6
<1>10. ASSUME NEW t \in Workers, Read(t) PROVE IInv'
  <2>1. Names'
    BY <1>10 DEF Read, Names, Owns, memory
  <2>2. Files'
    BY <1>10 DEF Read, Files, At, Linked, history
  <2>3. Lengths'
    BY <1>10 DEF Read, Received, Files, Lengths, Types, TypeOK, At, history
  <2>4. ExclusiveUpload'
    BY <1>10 DEF Read, ExclusiveUpload, Owns
  <2>5. MemoryMatchesFolder'
    BY <1>10 DEF Read, MemoryMatchesFolder, Owns, InUpload, Linked, memory, history
  <2>6. UploadedWhole'
    BY <1>10 DEF Read, Files, UploadedWhole, At, history
  <2> QED BY <2>1, <2>2, <2>3, <2>4, <2>5, <2>6
<1>11. ASSUME NEW t \in Workers, EndOfRead(t) PROVE IInv'
  <2>1. Names'
    BY <1>11 DEF EndOfRead, Names, Owns, At, GoTo, memory
  <2>2. Files'
    BY <1>11 DEF EndOfRead, Files, At, Linked, GoTo
  <2>3. Lengths'
    BY <1>11 DEF EndOfRead, Received, Files, Lengths, Types, TypeOK, At, GoTo
  <2>4. ExclusiveUpload'
    BY <1>11 DEF EndOfRead, ExclusiveUpload, Owns, At, GoTo
  <2>5. MemoryMatchesFolder'
    BY <1>11 DEF EndOfRead, Files, MemoryMatchesFolder, Owns, InUpload, Linked, GoTo, memory
  <2>6. UploadedWhole'
    BY <1>11 DEF EndOfRead, UploadFailed, Received, Names, Files, Lengths, UploadedWhole, Types, TypeOK, At, GoTo
  <2> QED BY <2>1, <2>2, <2>3, <2>4, <2>5, <2>6
<1>12. ASSUME NEW t \in Workers, RemoveFile(t) PROVE IInv'
  <2>1. Names'
    BY <1>12 DEF RemoveFile, Names, Owns, Types, TypeOK, At, GoTo, memory
  <2>2. Files'
    BY <1>12 DEF RemoveFile, Files, Owns, ExclusiveUpload, Types, TypeOK, At, Linked, GoTo, history
  <2>3. Lengths'
    BY <1>12 DEF RemoveFile, Lengths, Received, At, GoTo, history
  <2>4. ExclusiveUpload'
    BY <1>12 DEF RemoveFile, ExclusiveUpload, Owns, At, GoTo
  <2>5. MemoryMatchesFolder'
    BY <1>12 DEF RemoveFile, MemoryMatchesFolder, Owns, InUpload, At, Linked, GoTo, memory, history
  <2>6. UploadedWhole'
    BY <1>12 DEF RemoveFile, UploadedWhole, At, GoTo, history
  <2> QED BY <2>1, <2>2, <2>3, <2>4, <2>5, <2>6
<1>13. ASSUME NEW t \in Workers, RemoveFileFromStorage(t) PROVE IInv'
  <2>1. Names'
    <3>1. \A u \in Workers : Owns(u)' => u # t /\ Owns(u) /\ filename'[u] = filename[u]
      BY <1>13 DEF RemoveFileFromStorage, Return, GoTo, Owns, Types, TypeOK, At
    <3>2. \A u \in Workers : Owns(u)' => filename'[u] \in files_in_storage'
      BY <1>13, <3>1 DEF RemoveFileFromStorage, Erased, Names, ExclusiveUpload, Owns, At
    <3>3. \A n \in Filenames : folder[n] # t
      BY <1>13 DEF RemoveFileFromStorage, Names, At
    <3>4. \A n \in Filenames : \A u \in Workers :
             folder'[n] = u => filename'[u] = n /\ pc'[u] \in {"read", "unlink", "stored", "lost"}
      BY <1>13, <3>3 DEF RemoveFileFromStorage, Return, GoTo, Names, disk, Types, TypeOK
    <3> QED
      BY <1>13, <3>2, <3>4 DEF RemoveFileFromStorage, Return, Erased, Names, disk
  <2>2. Files'
    BY <1>13 DEF RemoveFileFromStorage, Return, Files, Types, TypeOK, At, Linked, GoTo, disk, history
  <2>3. Lengths'
    BY <1>13 DEF RemoveFileFromStorage, Return, Lengths, Received, At, GoTo, disk, history
  <2>4. ExclusiveUpload'
    BY <1>13 DEF RemoveFileFromStorage, Return, ExclusiveUpload, Owns, Types, TypeOK, GoTo
  <2>5. MemoryMatchesFolder'
    BY <1>13 DEF RemoveFileFromStorage, Return, Erased, Files, MemoryMatchesFolder, Owns, InUpload, At, Linked, GoTo, disk, history
  <2>6. UploadedWhole'
    BY <1>13 DEF RemoveFileFromStorage, Return, UploadedWhole, At, GoTo, disk, history
  <2> QED BY <2>1, <2>2, <2>3, <2>4, <2>5, <2>6
<1>14. ASSUME NEW n \in Filenames, HandleRemoveRequest(n) PROVE IInv'
  <2>1. Names'
    BY <1>14 DEF HandleRemoveRequest, Erased, Names, Owns, Discipline, Settled, InUpload, worker, disk
  <2>2. Files'
    BY <1>14 DEF HandleRemoveRequest, Files, At, Linked, worker, disk, history
  <2>3. Lengths'
    BY <1>14 DEF HandleRemoveRequest, Lengths, Received, At, worker, disk, history
  <2>4. ExclusiveUpload'
    BY <1>14 DEF HandleRemoveRequest, ExclusiveUpload, Owns, worker
  <2>5. MemoryMatchesFolder'
    BY <1>14 DEF HandleRemoveRequest, Erased, MemoryMatchesFolder, Owns, InUpload, Linked, worker, disk, history
  <2>6. UploadedWhole'
    BY <1>14 DEF HandleRemoveRequest, UploadedWhole, At, worker, disk, history
  <2> QED BY <2>1, <2>2, <2>3, <2>4, <2>5, <2>6
<1>15. ASSUME RemovalFileSize PROVE IInv'
  <2>1. Names'
    <3>1. removal'.at # "idle" => removal'.filename = removal.filename /\ removal.at # "idle"
      BY <1>15, Typed, RemovalOutcome
    <3> QED BY <1>15, <3>1 DEF RemovalFileSize, Names, memory, worker, disk, Owns
  <2>2. Files'
    BY <1>15 DEF RemovalFileSize, Files, Types, TypeOK, At, Linked, worker, disk
  <2>3. Lengths'
    BY <1>15 DEF RemovalFileSize, Lengths, Received, Types, TypeOK, At, worker, disk
  <2>4. ExclusiveUpload'
    BY <1>15 DEF RemovalFileSize, ExclusiveUpload, Owns, worker
  <2>5. MemoryMatchesFolder'
    <3>1. \/ ~Linked(removal.filename) \/ ioError'
          \/ removal'.at # "idle" /\ removal'.filename = removal.filename
      BY <1>15, Typed, RemovalOutcome
    <3>2. ioError => ioError'
      BY <1>15 DEF RemovalFileSize
    <3> QED
      BY <1>15, <3>1, <3>2 DEF RemovalFileSize, MemoryMatchesFolder, memory, worker, disk, Owns, InUpload, Linked
  <2>6. UploadedWhole'
    BY <1>15 DEF RemovalFileSize, UploadedWhole, Types, TypeOK, At, worker, disk
  <2> QED BY <2>1, <2>2, <2>3, <2>4, <2>5, <2>6
<1>16. ASSUME RemovalFreeSpace PROVE IInv'
  <2>1. Names'
    BY <1>16 DEF RemovalFreeSpace, Names, Owns, worker, disk
  <2>2. Files'
    BY <1>16 DEF RemovalFreeSpace, Files, At, Linked, worker, disk, history
  <2>3. Lengths'
    BY <1>16 DEF RemovalFreeSpace, Lengths, Received, At, worker, disk, history
  <2>4. ExclusiveUpload'
    BY <1>16 DEF RemovalFreeSpace, ExclusiveUpload, Owns, worker
  <2>5. MemoryMatchesFolder'
    BY <1>16 DEF RemovalFreeSpace, MemoryMatchesFolder, Owns, InUpload, Linked, worker, disk, history
  <2>6. UploadedWhole'
    BY <1>16 DEF RemovalFreeSpace, UploadedWhole, At, worker, disk, history
  <2> QED BY <2>1, <2>2, <2>3, <2>4, <2>5, <2>6
<1>17. ASSUME RemovalRemoveFile PROVE IInv'
  <2>1. Names'
    BY <1>17 DEF RemovalRemoveFile, Names, Owns, Types, TypeOK, memory, worker, NoRemoval
  <2>2. Files'
    BY <1>17 DEF RemovalRemoveFile, Names, Files, Owns, Types, TypeOK, At, Linked, worker
  <2>3. Lengths'
    BY <1>17 DEF RemovalRemoveFile, Lengths, Received, At, worker
  <2>4. ExclusiveUpload'
    BY <1>17 DEF RemovalRemoveFile, ExclusiveUpload, Owns, worker
  <2>5. MemoryMatchesFolder'
    BY <1>17 DEF RemovalRemoveFile, Names, MemoryMatchesFolder, Owns, InUpload, Types, TypeOK, Linked, memory, worker
  <2>6. UploadedWhole'
    BY <1>17 DEF RemovalRemoveFile, UploadedWhole, Types, TypeOK, At, worker
  <2> QED BY <2>1, <2>2, <2>3, <2>4, <2>5, <2>6
<1>18. ASSUME Crash PROVE IInv'
  <2>1. Names'
    BY <1>18 DEF Crash, Names, Owns, disk, Finals
  <2>2. Files'
    BY <1>18 DEF Crash, Files, At, Finals
  <2>3. Lengths'
    BY <1>18 DEF Crash, Lengths, At, Finals
  <2>4. ExclusiveUpload'
    BY <1>18 DEF Crash, ExclusiveUpload, Owns
  <2>5. MemoryMatchesFolder'
    BY <1>18 DEF Crash, MemoryMatchesFolder, Linked, disk
  <2>6. UploadedWhole'
    BY <1>18 DEF Crash, UploadedWhole, At, disk
  <2> QED BY <2>1, <2>2, <2>3, <2>4, <2>5, <2>6
<1>19. ASSUME UNCHANGED vars PROVE IInv'
  BY <1>19 DEF vars, memory, worker, disk, history, Names, Files, Lengths, ExclusiveUpload, MemoryMatchesFolder, UploadedWhole, Owns, InUpload, Linked, At, Received
<1> QED
  BY <1>1, <1>2, <1>3, <1>4, <1>5, <1>6, <1>7, <1>8, <1>9, <1>10, <1>11, <1>12, <1>13,
     <1>14, <1>15, <1>16, <1>17, <1>18, <1>19
     DEF Next, Request, WorkerStep, ClientStep, RemovalStep

(* The invariant holds before the folder is scanned.                       *)
LEMMA InitIInv == OrderlyInit => IInv
<1> SUFFICES ASSUME Init, Discipline PROVE IInv
  BY DEF OrderlyInit
<1> USE StorageAssumption DEF Init, At, Owns
<1>1. Names
  BY DEF Names, NoRemoval
<1>2. Files
  BY DEF Files
<1>3. Lengths
  BY DEF Lengths
<1>4. ExclusiveUpload
  BY DEF ExclusiveUpload
<1>5. MemoryMatchesFolder
  BY DEF MemoryMatchesFolder, Linked
<1>6. UploadedWhole
  BY DEF UploadedWhole
<1> QED
  BY <1>1, <1>2, <1>3, <1>4, <1>5, <1>6, InitTypes DEF IInv

(* What a step does to the files: nothing, or something to the file of a   *)
(* name that is under upload or being removed.                             *)
LEMMA StepOffered ==
  ASSUME IInv, [Next /\ Discipline']_vars, NEW n \in Filenames, Offered(n)
  PROVE  KeptAsIs(n)
<1> USE DEF IInv, Offered, KeptAsIs, Linked
<1>1. CASE UNCHANGED disk
  BY <1>1 DEF disk
<1>2. ASSUME NEW t \in Workers, OpenFile(t) PROVE KeptAsIs(n)
  <2>1. n # filename[t]
    BY <1>2 DEF OpenFile, InUpload, Owns, At
  <2>2. folder[n] # t
    BY <1>2 DEF OpenFile, Names, At
  <2>3. Linked(filename[t]) => folder[n] # folder[filename[t]]
    BY <1>2, <2>1, StorageAssumption DEF OpenFile, Names, Types, TypeOK, Shape, Inodes, At, Active, Points, Finals
  <2> QED
    BY <1>2, <2>1, <2>2, <2>3 DEF OpenFile, Types, TypeOK, disk
<1>3. ASSUME NEW t \in Workers, Read(t) \/ EndOfRead(t) PROVE KeptAsIs(n)
  <2>1. n # filename[t]
    BY <1>3 DEF Read, EndOfRead, InUpload, Owns, At
  <2>2. folder[n] # file[t]
    BY <1>3, <2>1, StorageAssumption DEF Read, EndOfRead, Names, Files, Types, TypeOK, Shape, Inodes, At, Active, Points, Finals
  <2> QED
    BY <1>3, <2>2 DEF Read, EndOfRead, Types, TypeOK
<1>4. ASSUME NEW t \in Workers, RemoveFile(t) PROVE KeptAsIs(n)
  BY <1>4 DEF RemoveFile, InUpload, Owns, At, Types, TypeOK
<1>5. ASSUME RemovalRemoveFile PROVE KeptAsIs(n)
  BY <1>5 DEF RemovalRemoveFile, Names, Types, TypeOK
<1>6. CASE UNCHANGED vars
  BY <1>6 DEF vars, disk
<1> QED
  BY <1>1, <1>2, <1>3, <1>4, <1>5, <1>6
     DEF Next, Request, WorkerStep, ClientStep, RemovalStep, GenerateFilesInStorage, HandleUploadRequest,
         CheckAndReserveSpace, AddFileToStorage, FreeSpace, SendRefusal, SendAcceptance, SelectAndAccept,
         RemoveFileFromStorage, HandleRemoveRequest, RemovalFileSize, RemovalFreeSpace, Crash

(* Who becomes the owner of a name has found it missing in the set.        *)
LEMMA StepLeftAlone ==
  ASSUME IInv, [Next /\ Discipline']_vars, NEW n \in Filenames, Offered(n)
  PROVE  LeftAlone(n)
<1> SUFFICES ASSUME n \in files_in_storage', NEW t \in Workers, Owns(t)', filename'[t] = n
             PROVE  FALSE
  BY DEF LeftAlone, InUpload
<1>1. ~(Owns(t) /\ filename[t] = n) /\ n \in files_in_storage
  BY DEF Offered, InUpload
<1> USE DEF IInv, Types, TypeOK, Owns, At, GoTo
<1>2. ASSUME NEW u \in Workers, AddFileToStorage(u)
      PROVE  FALSE
  BY <1>1, <1>2 DEF AddFileToStorage, AfterInsert, Inserted
<1>3. ASSUME NEW u \in Workers,
             CheckAndReserveSpace(u) \/ \E m \in Filenames, s \in Sizes : HandleUploadRequest(u, m, s)
      PROVE  FALSE
  BY <1>1, <1>3 DEF HandleUploadRequest, CheckAndReserveSpace
<1>4. ASSUME NEW u \in Workers,
             FreeSpace(u) \/ SendRefusal(u) \/ SendAcceptance(u) \/ RemoveFile(u) \/ RemoveFileFromStorage(u)
      PROVE  FALSE
  BY <1>1, <1>4 DEF FreeSpace, SendRefusal, SendAcceptance, RemoveFile, RemoveFileFromStorage, Return
<1>5. ASSUME NEW u \in Workers, SelectAndAccept(u) \/ OpenFile(u) \/ Read(u) \/ EndOfRead(u)
      PROVE  FALSE
  BY <1>1, <1>5 DEF SelectAndAccept, OpenFile, Read, EndOfRead
<1>6. ASSUME UNCHANGED worker
      PROVE  FALSE
  BY <1>1, <1>6 DEF worker
<1>7. CASE Crash
  BY <1>7 DEF Crash
<1> QED
  BY <1>2, <1>3, <1>4, <1>5, <1>6, <1>7
     DEF Next, Request, WorkerStep, ClientStep, RemovalStep, GenerateFilesInStorage, HandleRemoveRequest,
         RemovalFileSize, RemovalFreeSpace, RemovalRemoveFile, vars, worker
-----------------------------------------------------------------------------
(* Every variable of the node keeps its type in every behaviour of the     *)
(* program, orderly or not.                                                *)
THEOREM TypeCorrect == Spec => []TypeOK
<1>1. Types => TypeOK
  BY DEF Types
<1> QED
  BY <1>1, InitTypes, StepTypes, PTL DEF Spec

(* Names, files and lengths fit together at every point of every orderly   *)
(* behaviour: what the other theorems of this module follow from.          *)
THEOREM InductiveInvariant == OrderlySpec => []IInv
BY InitIInv, StepIInv, PTL DEF OrderlySpec

(* However many uploads of one name run at once, add_file_to_storage lets  *)
(* one of them go on to the file.                                          *)
THEOREM UploadsExclusive == OrderlySpec => []ExclusiveUpload
<1>1. IInv => ExclusiveUpload
  BY DEF IInv
<1> QED
  BY <1>1, InductiveInvariant, PTL

(* files_in_storage and the shared folder agree, except in the gaps that a *)
(* running upload or removal accounts for.                                 *)
THEOREM MemoryAgrees == OrderlySpec => []MemoryMatchesFolder
<1>1. IInv => MemoryMatchesFolder
  BY DEF IInv
<1> QED
  BY <1>1, InductiveInvariant, PTL

(* A file that handle_upload_request ended well on is exactly as long as   *)
(* the request announced, unless the disk failed.                          *)
THEOREM UploadsWhole == OrderlySpec => []UploadedWhole
<1>1. IInv => UploadedWhole
  BY DEF IInv
<1> QED
  BY <1>1, InductiveInvariant, PTL

(* A file that is offered is changed by nothing but a removal of its name: *)
(* not by uploads of the same name, which are refused, nor by their        *)
(* cleanup; none becomes the owner of the name.                            *)
THEOREM OfferedFilesStay == OrderlySpec => OfferedStays
<1>1. IInv /\ [Next /\ Discipline']_vars => [\A n \in Filenames : Offered(n) => KeptAsIs(n) /\ LeftAlone(n)]_vars
  BY StepOffered, StepLeftAlone
<1> QED
  BY <1>1, InductiveInvariant, PTL DEF OrderlySpec, OfferedStays
-----------------------------------------------------------------------------
(***************************************************************************)
(* The node's books: used_space is what is reserved and what is charged,   *)
(* and what is reserved fits.                                              *)
(***************************************************************************)
(* What else the books need: a name is scanned once, the size a removal is *)
(* about to free is the size of its file, and no file under upload holds   *)
(* more than its worker has received.                                      *)
Books ==
  /\ unscanned \cap files_in_storage = {}
  /\ removal.at = "free" =>
       /\ Linked(removal.filename)
       /\ removal.bytes = length[folder[removal.filename]]
  /\ \A t \in Workers : At(t, "read") => length[file[t]] <= Received(t)

LedgerInv ==
  /\ IInv
  /\ Books
  /\ Ledger
  /\ WithinCapacity
-----------------------------------------------------------------------------
(* A value in the range of a uint64_t is not wrapped.                      *)
LEMMA WrapSmall ==
  ASSUME NEW x \in 0 .. (Word - 1)
  PROVE  Wrap(x) = x
BY StorageAssumption DEF Wrap

(* No two names have the same file.                                        *)
LEMMA FilesApart ==
  ASSUME IInv, NEW n \in Filenames, NEW m \in Filenames, Linked(n), folder[n] = folder[m]
  PROVE  n = m
BY StorageAssumption DEF IInv, Types, TypeOK, Names, Linked, Inodes

(* Nor has another name the file of a worker's name, or one of its own.    *)
LEMMA WorkerApart ==
  ASSUME IInv, NEW t \in Workers, NEW n \in Filenames, n # filename[t], Linked(n)
  PROVE  /\ folder[n] # t
         /\ pc[t] \in Active => folder[n] # folder[filename[t]]
         /\ At(t, "read") => folder[n] # file[t]
<1>1. folder[n] # t
  BY DEF IInv, Names
<1>2. ASSUME pc[t] \in Active PROVE folder[n] # folder[filename[t]]
  BY <1>2, FilesApart DEF IInv, Types, Shape, Linked
<1> QED
  BY <1>1, <1>2 DEF IInv, Files, At, Active, Points, Finals

(* Two workers that read write to different files, and not to the file of a*)
(* name that is being removed.                                             *)
LEMMA ReadersApart ==
  ASSUME IInv, NEW t \in Workers, Owns(t)
  PROVE  /\ \A u \in Workers : At(u, "read") /\ u # t =>
                file[u] # t /\ (Linked(filename[t]) => file[u] # folder[filename[t]])
         /\ removal.at # "idle" /\ Linked(removal.filename) =>
                /\ removal.filename # filename[t]
                /\ folder[removal.filename] # t
                /\ folder[removal.filename] # folder[filename[t]]
<1>1. pc[t] \in Active
  BY DEF Owns, Active, Points, Finals
<1>2. ASSUME NEW u \in Workers, At(u, "read"), u # t
      PROVE  file[u] # t /\ (Linked(filename[t]) => file[u] # folder[filename[t]])
  <2>1. filename[u] # filename[t] /\ filename[u] \in Filenames
    BY <1>2 DEF IInv, ExclusiveUpload, Owns, At, Types, Shape, Active, Points, Finals
  <2>2. folder[filename[u]] = file[u] /\ Linked(filename[u])
    BY <1>2 DEF IInv, Files, Linked
  <2> QED
    BY <1>1, <2>1, <2>2, WorkerApart
<1>3. ASSUME removal.at # "idle", Linked(removal.filename)
      PROVE  /\ removal.filename # filename[t]
             /\ folder[removal.filename] # t
             /\ folder[removal.filename] # folder[filename[t]]
  <2>1. removal.filename # filename[t]
    BY <1>3 DEF IInv, Discipline, Settled, InUpload
  <2>2. removal.filename \in Filenames
    BY <1>3 DEF IInv, Types, Shape
  <2> QED
    BY <1>1, <1>3, <2>1, <2>2, WorkerApart
<1> QED
  BY <1>2, <1>3

(* The file of a worker with a reservation is not charged as well.         *)
LEMMA ReservedNotHeld ==
  ASSUME IInv, NEW t \in Workers, Reserves(t)
  PROVE  ~Held(t)
<1> SUFFICES ASSUME NEW n \in Charged, folder[n] = t PROVE FALSE
  BY DEF Held
<1>1. n \in Filenames
  BY DEF Charged, IInv, Types, TypeOK, Shape
<1>2. filename[t] = n /\ Owns(t)
  BY <1>1 DEF IInv, Names, Reserves, Owns
<1>3. InUpload(n)
  BY <1>2 DEF InUpload
<1> QED
  BY <1>3 DEF Charged, IInv, Discipline, Settled

(* What an inode is charged with is less than 2^64.                        *)
LEMMA ChargeType ==
  ASSUME TypeOK
  PROVE  [i \in Inodes |-> Charge(i)] \in [Inodes -> 0 .. Word]
<1> SUFFICES ASSUME NEW i \in Inodes PROVE Charge(i) \in 0 .. Word
  OBVIOUS
<1> QED
  BY StorageAssumption DEF TypeOK, Charge

(* There are finitely many inodes to sum over.                             *)
LEMMA InodesFinite == IsFiniteSet(Inodes)
BY StorageAssumption, FS_Union DEF Inodes

(* The sum of all charges is a number, and no charge exceeds it.           *)
LEMMA BookedType ==
  ASSUME TypeOK
  PROVE  Booked \in Nat /\ \A i \in Inodes : Charge(i) \in Nat /\ Charge(i) <= Booked
<1>1. Word \in Nat
  BY StorageAssumption
<1>2. Booked \in Nat
  BY <1>1, ChargeType, InodesFinite, UnitsFinite DEF Booked
<1>3. ASSUME NEW i \in Inodes PROVE Charge(i) \in Nat /\ Charge(i) <= Booked
  <2> DEFINE f == [j \in Inodes |-> Charge(j)]
  <2>1. f \in [Inodes -> 0 .. Word] /\ f[i] = Charge(i)
    BY ChargeType
  <2>2. Booked = Total(f, Word)
    BY DEF Booked
  <2> HIDE DEF f
  <2>3. f[i] <= Total(f, Word)
    BY <1>1, <2>1, InodesFinite, AmountBelowTotal
  <2> QED
    BY <2>1, <2>2, <2>3
<1> QED
  BY <1>2, <1>3

(* The total follows the one charge that changes.                          *)
LEMMA OneCharge ==
  ASSUME TypeOK, TypeOK', NEW i \in Inodes,
         \A j \in Inodes : j # i => Charge(j)' = Charge(j)
  PROVE  Booked' = Booked - Charge(i) + Charge(i)'
<1> DEFINE f == [j \in Inodes |-> Charge(j)]
           g == [j \in Inodes |-> Charge(j)']
<1>1. f \in [Inodes -> 0 .. Word] /\ f[i] = Charge(i)
  BY ChargeType
<1>2. g \in [Inodes -> 0 .. Word] /\ g[i] = Charge(i)'
  <2>1. ASSUME NEW j \in Inodes PROVE Charge(j)' \in 0 .. Word
    BY StorageAssumption DEF TypeOK, Charge
  <2> QED
    BY <2>1
<1>3. \A j \in Inodes : j # i => g[j] = f[j]
  OBVIOUS
<1>4. Booked = Total(f, Word) /\ Booked' = Total(g, Word)
  BY DEF Booked
<1>5. Word \in Nat
  BY StorageAssumption
<1> HIDE DEF f, g
<1>6. Total(g, Word) = Total(f, Word) - f[i] + g[i]
  BY <1>1, <1>2, <1>3, <1>5, InodesFinite, TotalChange
<1> QED
  BY <1>1, <1>2, <1>4, <1>6

(* The same of two charges.                                                *)
LEMMA TwoCharges ==
  ASSUME TypeOK, TypeOK', NEW i \in Inodes, NEW k \in Inodes, i # k,
         \A j \in Inodes : j # i /\ j # k => Charge(j)' = Charge(j)
  PROVE  Booked' = Booked - Charge(i) + Charge(i)' - Charge(k) + Charge(k)'
<1> DEFINE f == [j \in Inodes |-> Charge(j)]
           g == [j \in Inodes |-> Charge(j)']
           h == [j \in Inodes |-> IF j = i THEN Charge(j)' ELSE Charge(j)]
<1>1. f \in [Inodes -> 0 .. Word] /\ f[i] = Charge(i)
  BY ChargeType
<1>2. \A j \in Inodes : Charge(j)' \in 0 .. Word /\ Charge(j) \in 0 .. Word
  BY StorageAssumption DEF TypeOK, Charge
<1>3. g \in [Inodes -> 0 .. Word] /\ g[k] = Charge(k)'
  BY <1>2
<1>4. h \in [Inodes -> 0 .. Word] /\ h[i] = Charge(i)' /\ h[k] = Charge(k)
  BY <1>2
<1>5. \A j \in Inodes : j # i => h[j] = f[j]
  OBVIOUS
<1>6. \A j \in Inodes : j # k => g[j] = h[j]
  OBVIOUS
<1>7. Booked = Total(f, Word) /\ Booked' = Total(g, Word)
  BY DEF Booked
<1>8. Word \in Nat
  BY StorageAssumption
<1> HIDE DEF f, g, h
<1>9. Total(h, Word) = Total(f, Word) - f[i] + h[i]
  BY <1>1, <1>4, <1>5, <1>8, InodesFinite, TotalChange
<1>10. Total(g, Word) = Total(h, Word) - h[k] + g[k]
  BY <1>3, <1>4, <1>6, <1>8, InodesFinite, TotalChange
<1>11. Total(f, Word) \in Nat /\ Total(h, Word) \in Nat
  BY <1>1, <1>4, <1>8, InodesFinite, UnitsFinite
<1> QED
  BY <1>1, <1>2, <1>3, <1>4, <1>7, <1>9, <1>10, <1>11

(* If no charge changes, the sum does not.                                 *)
LEMMA NoCharge ==
  ASSUME \A j \in Inodes : Charge(j)' = Charge(j)
  PROVE  Booked' = Booked
<1>1. [j \in Inodes |-> Charge(j)'] = [j \in Inodes |-> Charge(j)]
  OBVIOUS
<1>2. Booked' = Total([j \in Inodes |-> Charge(j)'], Word)
  BY DEF Booked
<1> QED
  BY <1>1, <1>2 DEF Booked

(* A step that leaves reservations, charged names and their files alone    *)
(* leaves every charge alone.                                              *)
LEMMA SameCharges ==
  ASSUME TypeOK,
         \A u \in Workers : Reserves(u)' <=> Reserves(u),
         \A u \in Workers : Reserves(u) => file_size'[u] = file_size[u],
         Charged' = Charged,
         \A n \in Charged : folder'[n] = folder[n] /\ (Linked(n) => length'[folder[n]] = length[folder[n]])
  PROVE  Booked' = Booked
<1> SUFFICES ASSUME NEW j \in Inodes PROVE Charge(j)' = Charge(j)
  BY NoCharge
<1>1. Held(j)' <=> Held(j)
  BY DEF Held
<1>2. Held(j) => length'[j] = length[j]
  BY StorageAssumption DEF Held, Linked, Inodes
<1>3. j \in Workers /\ Reserves(j)' <=> j \in Workers /\ Reserves(j)
  BY DEF Reserves
<1>4. j \in Workers /\ Reserves(j) => file_size'[j] = file_size[j]
  BY DEF Reserves
<1> QED
  BY <1>1, <1>2, <1>3, <1>4 DEF Charge

-----------------------------------------------------------------------------
(* Books is preserved by every step.                                       *)
LEMMA StepBooks == IInv /\ Books /\ [Next /\ Discipline']_vars => Books'
<1> SUFFICES ASSUME IInv, Books, [Next /\ Discipline']_vars PROVE Books'
  OBVIOUS
<1>0. IInv'
  BY StepIInv
<1> USE DEF Books, Types, TypeOK, Shape, At, Linked, GoTo, memory, worker, disk, history
<1>1. ASSUME NEW n \in Filenames, GenerateFilesInStorage(n) PROVE Books'
  BY <1>1 DEF GenerateFilesInStorage, IInv, Received
<1>2. ASSUME NEW t \in Workers, NEW n \in Filenames, NEW s \in Sizes, HandleUploadRequest(t, n, s)
      PROVE Books'
  BY <1>2 DEF HandleUploadRequest, Received, IInv
<1>3. ASSUME NEW t \in Workers, CheckAndReserveSpace(t) PROVE Books'
  BY <1>3 DEF CheckAndReserveSpace, Received, IInv
<1>4. ASSUME NEW t \in Workers, AddFileToStorage(t) PROVE Books'
  BY <1>4 DEF AddFileToStorage, AfterInsert, Received, IInv, Active, Points, Finals
<1>5. ASSUME NEW t \in Workers, FreeSpace(t) PROVE Books'
  BY <1>5 DEF FreeSpace, Received, IInv
<1>6. ASSUME NEW t \in Workers, SendRefusal(t) PROVE Books'
  BY <1>6 DEF SendRefusal, Return, Received, IInv
<1>7. ASSUME NEW t \in Workers, SendAcceptance(t) PROVE Books'
  BY <1>7 DEF SendAcceptance, Received, IInv
<1>8. ASSUME NEW t \in Workers, SelectAndAccept(t) PROVE Books'
  BY <1>8 DEF SelectAndAccept, Received, IInv
<1>9. ASSUME NEW t \in Workers, OpenFile(t) PROVE Books'
  <2>1. Owns(t) /\ unscanned = {}
    BY <1>9 DEF OpenFile, Owns, IInv, Active, Points, Finals
  <2>2. to_upload[t] <= file_size[t]
    BY <1>9 DEF OpenFile, IInv, Lengths
  <2> DEFINE inode == IF Linked(filename[t]) THEN folder[filename[t]] ELSE t
  <2>3. CASE UNCHANGED <<disk, file>> /\ GoTo(t, "unlink")
    BY <1>9, <2>1, <2>3 DEF OpenFile, Received, IInv
  <2>4. CASE /\ folder' = [folder EXCEPT ![filename[t]] = inode]
             /\ length' = [length EXCEPT ![inode] = 0]
             /\ file' = [file EXCEPT ![t] = inode]
             /\ GoTo(t, "read")
    <3>1. \A u \in Workers : At(u, "read") /\ u # t => length'[file[u]] = length[file[u]]
      BY <2>1, <2>4, ReadersApart DEF IInv
    <3>2. removal.at = "free" =>
            /\ folder'[removal.filename] = folder[removal.filename]
            /\ length'[folder[removal.filename]] = length[folder[removal.filename]]
      BY <2>1, <2>4, ReadersApart DEF IInv
    <3>3. length'[file'[t]] = 0
      BY <1>9, <2>4 DEF OpenFile, IInv, Inodes, Active, Points, Finals
    <3>4. file_size[t] - to_upload[t] >= 0
      BY <2>2 DEF IInv
    <3> QED
      BY <1>9, <2>1, <2>4, <3>1, <3>2, <3>3, <3>4 DEF OpenFile, Received, IInv
  <2> QED
    BY <1>9, <2>3, <2>4 DEF OpenFile
<1>10. ASSUME NEW t \in Workers, Read(t) PROVE Books'
  <2>1. Owns(t) /\ unscanned = {} /\ Linked(filename[t]) /\ file[t] = folder[filename[t]]
    BY <1>10 DEF Read, Owns, IInv, Files, Active, Points, Finals
  <2>2. \A u \in Workers : At(u, "read") /\ u # t => length'[file[u]] = length[file[u]]
    BY <1>10, <2>1, ReadersApart DEF Read, IInv
  <2>3. removal.at = "free" => length'[folder[removal.filename]] = length[folder[removal.filename]]
    BY <1>10, <2>1, ReadersApart DEF Read, IInv
  <2>4. length'[file[t]] <= file_size[t] - to_upload'[t]
    BY <1>10 DEF Read, ReadAtMost, Received, IInv
  <2> QED
    BY <1>10, <2>1, <2>2, <2>3, <2>4 DEF Read, Received, IInv
<1>11. ASSUME NEW t \in Workers, EndOfRead(t) PROVE Books'
  <2>1. Owns(t) /\ unscanned = {} /\ Linked(filename[t]) /\ file[t] = folder[filename[t]]
    BY <1>11 DEF EndOfRead, Owns, IInv, Files, Active, Points, Finals
  <2>2. \A u \in Workers : At(u, "read") /\ u # t => length'[file[u]] = length[file[u]]
    BY <1>11, <2>1, ReadersApart DEF EndOfRead, IInv
  <2>3. removal.at = "free" => length'[folder[removal.filename]] = length[folder[removal.filename]]
    BY <1>11, <2>1, ReadersApart DEF EndOfRead, IInv
  <2>4. ~At(t, "read")'
    BY <1>11 DEF EndOfRead, IInv
  <2> QED
    BY <1>11, <2>1, <2>2, <2>3, <2>4 DEF EndOfRead, Received, IInv
<1>12. ASSUME NEW t \in Workers, RemoveFile(t) PROVE Books'
  <2>1. Owns(t) /\ unscanned = {}
    BY <1>12 DEF RemoveFile, Owns, IInv, Active, Points, Finals
  <2> QED
    BY <1>12, <2>1, ReadersApart DEF RemoveFile, Received, IInv
<1>13. ASSUME NEW t \in Workers, RemoveFileFromStorage(t) PROVE Books'
  BY <1>13 DEF RemoveFileFromStorage, Return, Erased, Received, IInv
<1>14. ASSUME NEW n \in Filenames, HandleRemoveRequest(n) PROVE Books'
  BY <1>14 DEF HandleRemoveRequest, Running, Erased, Received, IInv
<1>15. ASSUME RemovalFileSize PROVE Books'
  <2>1. CASE removal' = NoRemoval
    BY <1>15, <2>1 DEF RemovalFileSize, NoRemoval, Received
  <2>2. CASE /\ Linked(removal.filename)
             /\ removal' = [removal EXCEPT !.at = "free", !.bytes = length[folder[removal.filename]]]
    BY <1>15, <2>2 DEF RemovalFileSize, Received, IInv
  <2> QED
    BY <1>15, <2>1, <2>2 DEF RemovalFileSize
<1>16. ASSUME RemovalFreeSpace PROVE Books'
  BY <1>16 DEF RemovalFreeSpace, Received, IInv
<1>17. ASSUME RemovalRemoveFile PROVE Books'
  BY <1>17 DEF RemovalRemoveFile, NoRemoval, Received, IInv
<1>18. ASSUME Crash PROVE Books'
  BY <1>18 DEF Crash, NoRemoval, Received, IInv, Points, Finals
<1>19. ASSUME UNCHANGED vars PROVE Books'
  BY <1>19 DEF vars, Received
<1> QED
  BY <1>1, <1>2, <1>3, <1>4, <1>5, <1>6, <1>7, <1>8, <1>9, <1>10, <1>11, <1>12, <1>13,
     <1>14, <1>15, <1>16, <1>17, <1>18, <1>19
     DEF Next, Request, WorkerStep, ClientStep, RemovalStep
-----------------------------------------------------------------------------
(* A step that changes no charge, no account and no reservation.           *)
Quiet ==
  /\ Booked' = Booked
  /\ used_space' = used_space
  /\ ioError => ioError'
  /\ \A t \in Workers : Reserves(t)' => Reserves(t)

(* A step that is quiet keeps the books balanced.                          *)
LEMMA QuietSteps ==
  ASSUME Ledger, WithinCapacity, Quiet
  PROVE  Ledger' /\ WithinCapacity'
BY DEF Ledger, WithinCapacity, Quiet

(* A worker's step that leaves reservations and the files of all names but *)
(* its own alone.                                                          *)
LEMMA WorkerQuiet ==
  ASSUME IInv, NEW t \in Workers, UNCHANGED <<used_space, removal>>, ioError => ioError',
         \A u \in Workers : Reserves(u)' <=> Reserves(u),
         \A u \in Workers : Reserves(u) => file_size'[u] = file_size[u],
         Charged' = Charged,
         \A n \in Charged : n # filename[t] \/ ~Owns(t) =>
            folder'[n] = folder[n] /\ (Linked(n) => length'[folder[n]] = length[folder[n]])
  PROVE  Quiet
<1>1. \A n \in Charged : Owns(t) => n # filename[t]
  BY DEF Charged, IInv, Discipline, Settled, InUpload
<1>2. Booked' = Booked
  BY <1>1, SameCharges DEF IInv, Types
<1> QED
  BY <1>2 DEF Quiet

(* All of a worker's steps but three are quiet: reserving, giving back,    *)
(* and ending well.                                                        *)
LEMMA StepQuiet ==
  ASSUME IInv, IInv', NEW t \in Workers,
         \/ \E n \in Filenames, s \in Sizes : HandleUploadRequest(t, n, s)
         \/ AddFileToStorage(t) \/ SendRefusal(t) \/ SendAcceptance(t) \/ SelectAndAccept(t)
         \/ OpenFile(t) \/ Read(t) \/ RemoveFile(t) \/ RemoveFileFromStorage(t)
         \/ EndOfRead(t) /\ UploadFailed(t)
  PROVE  Quiet
<1> USE DEF IInv, Types, TypeOK, Shape, At, Linked, GoTo, memory, worker, disk, history, Reserves, Owns
<1>1. ASSUME NEW n \in Filenames, NEW s \in Sizes, HandleUploadRequest(t, n, s) PROVE Quiet
  <2>1. Charged' = Charged
    BY <1>1 DEF HandleUploadRequest, Charged, InUpload
  <2> QED
    BY <1>1, <2>1, WorkerQuiet DEF HandleUploadRequest
<1>2. ASSUME AddFileToStorage(t) PROVE Quiet
  <2>1. Charged' = Charged
    BY <1>2 DEF AddFileToStorage, AfterInsert, Inserted, Charged, InUpload, Discipline, Settled
  <2> QED
    BY <1>2, <2>1, WorkerQuiet DEF AddFileToStorage, AfterInsert
<1>3. ASSUME SendRefusal(t) PROVE Quiet
  <2>1. Charged' = Charged
    BY <1>3 DEF SendRefusal, Return, Charged, InUpload
  <2> QED
    BY <1>3, <2>1, WorkerQuiet DEF SendRefusal, Return
<1>4. ASSUME SendAcceptance(t) PROVE Quiet
  <2>1. Charged' = Charged
    BY <1>4 DEF SendAcceptance, Charged, InUpload
  <2> QED
    BY <1>4, <2>1, WorkerQuiet DEF SendAcceptance
<1>5. ASSUME SelectAndAccept(t) PROVE Quiet
  <2>1. Charged' = Charged
    BY <1>5 DEF SelectAndAccept, Charged, InUpload
  <2> QED
    BY <1>5, <2>1, WorkerQuiet DEF SelectAndAccept
<1>6. ASSUME OpenFile(t) PROVE Quiet
  <2>1. Charged' = Charged
    BY <1>6 DEF OpenFile, Charged, InUpload
  <2>2. \A n \in Charged : n # filename[t] =>
          folder'[n] = folder[n] /\ (Linked(n) => length'[folder[n]] = length[folder[n]])
    BY <1>6, WorkerApart DEF OpenFile, Charged, Active, Points, Finals
  <2> QED
    BY <1>6, <2>1, <2>2, WorkerQuiet DEF OpenFile
<1>7. ASSUME Read(t) PROVE Quiet
  <2>1. Charged' = Charged
    BY <1>7 DEF Read, Charged, InUpload
  <2>2. \A n \in Charged : n # filename[t] => (Linked(n) => length'[folder[n]] = length[folder[n]])
    BY <1>7, WorkerApart DEF Read, Charged
  <2> QED
    BY <1>7, <2>1, <2>2, WorkerQuiet DEF Read
<1>8. ASSUME RemoveFile(t) PROVE Quiet
  <2>1. Charged' = Charged
    BY <1>8 DEF RemoveFile, Charged, InUpload
  <2> QED
    BY <1>8, <2>1, WorkerQuiet DEF RemoveFile
<1>9. ASSUME RemoveFileFromStorage(t) PROVE Quiet
  <2>1. Charged' = Charged
    BY <1>9 DEF RemoveFileFromStorage, Return, Erased, Charged, InUpload
  <2> QED
    BY <1>9, <2>1, WorkerQuiet DEF RemoveFileFromStorage, Return
<1>10. ASSUME EndOfRead(t), UploadFailed(t) PROVE Quiet
  <2>1. Charged' = Charged
    BY <1>10 DEF EndOfRead, Charged, InUpload
  <2>2. \A n \in Charged : n # filename[t] => (Linked(n) => length'[folder[n]] = length[folder[n]])
    BY <1>10, WorkerApart DEF EndOfRead, Charged
  <2> QED
    BY <1>10, <2>1, <2>2, WorkerQuiet DEF EndOfRead
<1> QED
  BY <1>1, <1>2, <1>3, <1>4, <1>5, <1>6, <1>7, <1>8, <1>9, <1>10
-----------------------------------------------------------------------------
(* Everything else a step can do to the books: charge one more file while  *)
(* nothing is reserved, reserve, give back, turn a reservation into a file,*)
(* start or end a removal.                                                 *)
LEMMA StepScan ==
  ASSUME LedgerInv, IInv', NEW n \in Filenames, GenerateFilesInStorage(n)
  PROVE  Ledger' /\ WithinCapacity'
<1> USE DEF LedgerInv, IInv, Types, TypeOK, Shape, worker, disk, history
<1>1. PICK i \in Inodes : i = folder[n]
  BY DEF GenerateFilesInStorage, Linked
<1>2. \A t \in Workers : ~Reserves(t) /\ ~Owns(t) /\ ~Reserves(t)' /\ ~Owns(t)'
  BY DEF GenerateFilesInStorage, Reserves, Owns, Active, Points, Finals
<1>3. Charged' = Charged \cup {n} /\ n \notin Charged
  BY <1>2 DEF GenerateFilesInStorage, Charged, InUpload, Books
<1>4. \A j \in Inodes : j # i => Charge(j)' = Charge(j)
  BY <1>1, <1>2, <1>3 DEF GenerateFilesInStorage, Charge, Held
<1>5. Charge(i) = 0
  <2>1. ~Held(i)
    BY <1>1, <1>3, FilesApart DEF GenerateFilesInStorage, Held, Charged
  <2> QED
    BY <1>2, <2>1 DEF Charge
<1>6. Charge(i)' = length[i]
  BY <1>1, <1>2, <1>3 DEF GenerateFilesInStorage, Charge, Held
<1>7. Booked' = Booked + length[i]
  <2>1. Booked' = Booked - Charge(i) + Charge(i)'
    BY <1>4, OneCharge
  <2> QED
    BY <1>5, <1>6, <2>1, BookedType
<1>8. used_space' = used_space + length[i]
  <2>1. used_space + length[i] \in 0 .. (Word - 1)
    BY <1>1, StorageAssumption DEF GenerateFilesInStorage, ScannedSize, Discipline, FolderFits
  <2> QED
    BY <1>1, <2>1, WrapSmall DEF GenerateFilesInStorage, ScannedSize
<1> QED
  BY <1>2, <1>7, <1>8, BookedType DEF GenerateFilesInStorage, Ledger, WithinCapacity

(* check_and_reserve_space adds to used_space what it adds to the          *)
(* reservations, and only if it fits.                                      *)
LEMMA StepReserve ==
  ASSUME LedgerInv, IInv', NEW t \in Workers, CheckAndReserveSpace(t)
  PROVE  Ledger' /\ WithinCapacity'
<1> USE DEF LedgerInv, IInv, Types, TypeOK, At, GoTo, disk, history
<1>1. Charged' = Charged /\ \A j \in Inodes : Held(j)' <=> Held(j)
  BY DEF CheckAndReserveSpace, Charged, InUpload, Owns, Held
<1>2. CASE ~Fits(file_size[t])
  <2>1. Quiet
    BY <1>1, <1>2, NoCharge DEF CheckAndReserveSpace, Quiet, Reserves, Charge
  <2> QED
    BY <2>1, QuietSteps
<1>3. CASE Fits(file_size[t])
  <2>1. \A u \in Workers : u # t => (Reserves(u)' <=> Reserves(u))
    BY DEF CheckAndReserveSpace, Reserves
  <2>2. ~Reserves(t) /\ Reserves(t)'
    BY <1>3 DEF CheckAndReserveSpace, Reserves
  <2>3. ~Held(t)
    BY DEF CheckAndReserveSpace, Held, Charged, Names, Shape
  <2>4. Charge(t) = 0 /\ Charge(t)' = file_size[t]
    BY <2>2, <2>3 DEF CheckAndReserveSpace, Charge
  <2>5. \A j \in Inodes : j # t => Charge(j)' = Charge(j)
    BY <1>1, <2>1 DEF CheckAndReserveSpace, Charge
  <2>6. Booked' = Booked + file_size[t]
    BY <2>4, <2>5, OneCharge, BookedType DEF Inodes
  <2>7. used_space' = used_space + file_size[t] /\ used_space' <= max_available_space
    <3>1. used_space + file_size[t] \in 0 .. max_available_space
      BY <1>3, StorageAssumption DEF Fits
    <3> QED
      BY <1>3, <3>1, StorageAssumption, WrapSmall DEF CheckAndReserveSpace
  <2> QED
    BY <2>6, <2>7, StorageAssumption, BookedType DEF CheckAndReserveSpace, Ledger, WithinCapacity
<1> QED
  BY <1>2, <1>3

(* free_space takes out of used_space exactly the reservation that ends.   *)
LEMMA StepFree ==
  ASSUME LedgerInv, IInv', NEW t \in Workers, FreeSpace(t)
  PROVE  Ledger' /\ WithinCapacity'
<1> USE DEF LedgerInv, IInv, Types, TypeOK, At, GoTo, disk, history
<1>1. Charged' = Charged /\ \A j \in Inodes : Held(j)' <=> Held(j)
  BY DEF FreeSpace, Charged, InUpload, Owns, Held
<1>2. \A u \in Workers : u # t => (Reserves(u)' <=> Reserves(u))
  BY DEF FreeSpace, Reserves
<1>3. Reserves(t) /\ ~Reserves(t)'
  BY DEF FreeSpace, Reserves
<1>4. ~Held(t)
  BY <1>3, ReservedNotHeld
<1>5. Charge(t) = file_size[t] /\ Charge(t)' = 0
  BY <1>1, <1>3, <1>4 DEF Charge, Inodes
<1>6. \A j \in Inodes : j # t => Charge(j)' = Charge(j)
  BY <1>1, <1>2 DEF FreeSpace, Charge
<1>7. Booked' = Booked - file_size[t] /\ file_size[t] <= Booked
  BY <1>5, <1>6, OneCharge, BookedType DEF Inodes
<1>8. used_space' = used_space - file_size[t]
  BY <1>7, StorageAssumption, BookedType DEF FreeSpace, Reservation, Wrap, Ledger
<1> QED
  BY <1>2, <1>3, <1>7, <1>8, StorageAssumption, BookedType DEF FreeSpace, Ledger, WithinCapacity
(* A reservation becomes a file of the same size; after a disk error the   *)
(* file may be shorter, or not the worker's own.                           *)
LEMMA StepStored ==
  ASSUME LedgerInv, IInv', NEW t \in Workers, EndOfRead(t), ~UploadFailed(t)
  PROVE  Ledger' /\ WithinCapacity'
<1> USE DEF LedgerInv, IInv, Types, TypeOK, At, GoTo, disk, history
<1>1. PICK n \in Filenames : n = filename[t]
  BY DEF EndOfRead, Shape, Active, Points, Finals
<1>2. PICK i \in Inodes : i = file[t]
  BY DEF EndOfRead, Shape
<1>3. Owns(t) /\ Reserves(t) /\ ~Reserves(t)' /\ ~Owns(t)'
  BY DEF EndOfRead, Owns, Reserves, Points, Finals
<1>4. \A u \in Workers : u # t => (Reserves(u)' <=> Reserves(u)) /\ (Owns(u)' <=> Owns(u))
  BY DEF EndOfRead, Reserves, Owns
<1>5. folder[n] = i /\ Linked(n)
  BY <1>1, <1>2 DEF EndOfRead, Files, Linked
<1>6. n \notin Charged /\ Charged' = Charged \cup {n}
  <2>1. \A m \in Filenames : m # n => (InUpload(m)' <=> InUpload(m))
    BY <1>1, <1>3, <1>4 DEF EndOfRead, InUpload
  <2>2. InUpload(n) /\ ~InUpload(n)'
    BY <1>1, <1>3, <1>4 DEF EndOfRead, InUpload, ExclusiveUpload
  <2>3. n \in files_in_storage /\ (removal.at # "idle" => removal.filename # n)
    BY <1>1, <1>3, <2>2 DEF Names, Discipline, Settled
  <2>4. files_in_storage' = files_in_storage /\ removal' = removal /\ files_in_storage \subseteq Filenames
    BY DEF EndOfRead, memory
  <2>5. {m \in files_in_storage' : ~InUpload(m)'} = {m \in files_in_storage : ~InUpload(m)} \cup {n}
    BY <2>1, <2>2, <2>3, <2>4
  <2> QED
    BY <2>2, <2>3, <2>4, <2>5 DEF Charged
<1>7. ~Held(t) /\ ~Held(i)
  <2>1. ~Held(t)
    BY <1>3, ReservedNotHeld
  <2>2. \A m \in Charged : m \in Filenames
    BY DEF Charged, Shape
  <2>3. ~Held(i)
    BY <1>5, <1>6, <2>2, FilesApart DEF Held
  <2> QED
    BY <2>1, <2>3
<1>8. \A j \in Inodes : Held(j)' <=> Held(j) \/ j = i
  BY <1>5, <1>6 DEF EndOfRead, Held
<1>9. \A j \in Inodes : j # i /\ j # t => Charge(j)' = Charge(j)
  BY <1>2, <1>4, <1>8 DEF EndOfRead, Charge
<1>10. Charge(t) = file_size[t] /\ t \in Inodes
  BY <1>3 DEF Charge, Inodes
<1>11. length'[i] \in 0 .. file_size[t]
  BY <1>2 DEF EndOfRead, UploadFailed, Received, Books
<1>12. used_space' = used_space /\ (ioError => ioError')
  BY DEF EndOfRead, memory
<1>15. ASSUME Booked' \in Int, Booked' <= Booked, ~ioError' => Booked' = Booked
       PROVE  Ledger' /\ WithinCapacity'
  <2>1. ~ioError' => ~ioError
    BY <1>12
  <2>2. (\E u \in Workers : Reserves(u)') => (\E u \in Workers : Reserves(u))
    BY <1>3
  <2>3. Booked \in Nat
    BY BookedType
  <2>4. Ledger'
    BY <1>12, <1>15, <2>1, <2>3 DEF Ledger
  <2>5. WithinCapacity'
    BY <1>15, <2>2, <2>3, StorageAssumption DEF WithinCapacity
  <2> QED
    BY <2>4, <2>5
<1>13. CASE i = t
  <2>1. Charge(t)' = length'[t]
    BY <1>3, <1>8, <1>13 DEF Charge
  <2>2. Booked' = Booked - Charge(t) + Charge(t)'
    BY <1>9, <1>10, <1>13, OneCharge
  <2>3. ~ioError' => length'[t] = file_size[t]
    BY <1>2, <1>11, <1>13 DEF EndOfRead, UploadFailed, Received
  <2>4. Booked' \in Int /\ Booked' <= Booked /\ (~ioError' => Booked' = Booked)
    BY <1>10, <1>11, <1>13, <2>1, <2>2, <2>3, BookedType
  <2> QED
    BY <1>15, <2>4
<1>14. CASE i # t
  <2>1. ioError'
    BY <1>2, <1>12, <1>14 DEF EndOfRead, Files
  <2>2. ~(i \in Workers /\ Reserves(i))
    BY <1>1, <1>3, <1>5, <1>14 DEF Names, ExclusiveUpload, Reserves, Owns
  <2>3. Charge(i) = 0 /\ Charge(i)' = length'[i]
    BY <1>2, <1>4, <1>7, <1>8, <1>14, <2>2 DEF Charge
  <2>4. Charge(t)' = 0
    BY <1>3, <1>7, <1>8, <1>10, <1>14 DEF Charge
  <2>5. Booked' = Booked - Charge(i) + Charge(i)' - Charge(t) + Charge(t)'
    BY <1>9, <1>10, <1>14, TwoCharges
  <2>6. Booked' \in Int /\ Booked' <= Booked
    BY <1>10, <1>11, <2>3, <2>4, <2>5, BookedType
  <2> QED
    BY <1>15, <2>1, <2>6
<1> QED
  BY <1>13, <1>14

(* Taking the name out of the set and unlinking the file change no charge. *)
LEMMA StepRemoval ==
  ASSUME LedgerInv, IInv',
         \/ \E n \in Filenames : HandleRemoveRequest(n)
         \/ RemovalRemoveFile
  PROVE  Ledger' /\ WithinCapacity'
<1> USE DEF LedgerInv, IInv, Types, TypeOK, memory, worker, disk, history, Reserves
<1>1. \A n \in Filenames : InUpload(n)' <=> InUpload(n)
  BY DEF HandleRemoveRequest, RemovalRemoveFile, InUpload, Owns
<1>2. ASSUME NEW n \in Filenames, HandleRemoveRequest(n) PROVE Quiet
  <2>1. ~InUpload(n)
    BY <1>1, <1>2 DEF HandleRemoveRequest, Discipline, Settled
  <2>2. Charged' = Charged
    BY <1>1, <1>2, <2>1 DEF HandleRemoveRequest, Erased, Charged
  <2>3. Booked' = Booked
    BY <1>2, <2>2, SameCharges DEF HandleRemoveRequest
  <2> QED
    BY <1>2, <2>3 DEF HandleRemoveRequest, Quiet
<1>3. ASSUME RemovalRemoveFile PROVE Quiet
  <2>1. Charged' = Charged
    BY <1>1, <1>3 DEF RemovalRemoveFile, NoRemoval, Charged
  <2>2. \A n \in Charged : folder'[n] = folder[n]
    BY <1>3 DEF RemovalRemoveFile, Charged, Names
  <2>3. Booked' = Booked
    BY <1>3, <2>1, <2>2, SameCharges DEF RemovalRemoveFile
  <2> QED
    BY <1>3, <2>3 DEF RemovalRemoveFile, Quiet
<1> QED
  BY <1>2, <1>3, QuietSteps

(* fs::file_size charges nothing; if it throws, the file stays uncharged   *)
(* and the books are over, not under.                                      *)
LEMMA StepRemovalSize ==
  ASSUME LedgerInv, IInv', RemovalFileSize
  PROVE  Ledger' /\ WithinCapacity'
<1> USE DEF LedgerInv, IInv, Types, TypeOK, memory, worker, disk, history, Reserves
<1>1. PICK n \in Filenames : n = removal.filename
  BY DEF RemovalFileSize, Shape
<1>2. \A m \in Filenames : InUpload(m)' <=> InUpload(m)
  BY DEF RemovalFileSize, InUpload, Owns
<1>3. ioError => ioError'
  BY DEF RemovalFileSize
<1>4. removal.at = "stat" /\ n \in Charged
  BY <1>1 DEF RemovalFileSize, Charged
<1>5. CASE removal'.at = "free" /\ removal'.filename = n
  <2>1. Charged' = Charged
    BY <1>1, <1>2, <1>4, <1>5 DEF RemovalFileSize, Charged
  <2>2. Booked' = Booked
    BY <2>1, SameCharges DEF RemovalFileSize
  <2>3. Quiet
    BY <1>3, <2>2 DEF RemovalFileSize, Quiet
  <2> QED
    BY <2>3, QuietSteps
<1>6. CASE removal'.at = "idle" /\ (~Linked(n) \/ ioError')
  <2>1. Charged' = {m \in files_in_storage : ~InUpload(m)}
    BY <1>2, <1>6 DEF RemovalFileSize, Charged
  <2>2. n \notin Charged' /\ Charged = Charged' \cup {n}
    BY <1>1, <1>4, <2>1 DEF Charged, Names
  <2>3. CASE ~Linked(n)
    <3>1. \A j \in Inodes : Held(j)' <=> Held(j)
      BY <2>2, <2>3, StorageAssumption DEF RemovalFileSize, Held, Linked, Inodes
    <3>2. \A j \in Inodes : Charge(j)' = Charge(j)
      BY <3>1 DEF RemovalFileSize, Charge
    <3>3. Quiet
      BY <1>3, <3>2, NoCharge DEF RemovalFileSize, Quiet
    <3> QED
      BY <3>3, QuietSteps
  <2>4. CASE Linked(n) /\ ioError'
    <3>1. PICK i \in Inodes : i = folder[n]
      BY <2>4 DEF Linked
    <3>2. \A j \in Inodes : j # i => (Held(j)' <=> Held(j))
      BY <2>2, <3>1 DEF RemovalFileSize, Held
    <3>3. \A j \in Inodes : j # i => Charge(j)' = Charge(j)
      BY <3>2 DEF RemovalFileSize, Charge
    <3>4. Held(i)
      BY <1>4, <3>1 DEF Held
    <3>5. Charge(i)' = 0 \/ Charge(i)' = Charge(i)
      BY <3>4 DEF RemovalFileSize, Charge
    <3>6. Booked' = Booked - Charge(i) + Charge(i)'
      BY <3>3, OneCharge
    <3>7. Booked' \in Int /\ Booked' <= Booked
      BY <3>5, <3>6, BookedType
    <3>8. Ledger'
      BY <2>4, <3>7, BookedType DEF RemovalFileSize, Ledger
    <3>9. WithinCapacity'
      BY <3>7, StorageAssumption, BookedType DEF RemovalFileSize, WithinCapacity
    <3> QED
      BY <3>8, <3>9
  <2> QED
    BY <1>6, <2>3, <2>4
<1>7. \/ removal'.at = "free" /\ removal'.filename = n
      \/ removal'.at = "idle" /\ (~Linked(n) \/ ioError')
  BY <1>1, Typed, RemovalOutcome
<1> QED
  BY <1>5, <1>6, <1>7

(* A removal gives back exactly the bytes of the file it is about to       *)
(* remove.                                                                 *)
LEMMA StepRemovalFree ==
  ASSUME LedgerInv, IInv', RemovalFreeSpace
  PROVE  Ledger' /\ WithinCapacity'
<1> USE DEF LedgerInv, IInv, Types, TypeOK, memory, worker, disk, history, Reserves
<1>1. PICK n \in Filenames : n = removal.filename
  BY DEF RemovalFreeSpace, Shape
<1>2. PICK i \in Inodes : i = folder[n]
  BY <1>1 DEF RemovalFreeSpace, Books, Linked
<1>3. \A m \in Filenames : InUpload(m)' <=> InUpload(m)
  BY DEF RemovalFreeSpace, InUpload, Owns
<1>4. Charged = {m \in files_in_storage : ~InUpload(m)} \cup {n}
  BY <1>1 DEF RemovalFreeSpace, Charged
<1>5. Charged' = {m \in files_in_storage : ~InUpload(m)}
  BY <1>3 DEF RemovalFreeSpace, Charged
<1>6. n \notin files_in_storage /\ removal.bytes = length[i] /\ Linked(n)
  BY <1>1, <1>2 DEF RemovalFreeSpace, Names, Books
<1>7. Held(i) /\ ~Held(i)'
  <2>1. \A m \in Charged' : m \in Filenames /\ m # n
    BY <1>5, <1>6
  <2> QED
    BY <1>2, <1>4, <1>6, <2>1, FilesApart DEF RemovalFreeSpace, Held
<1>8. \A j \in Inodes : j # i => (Held(j)' <=> Held(j))
  BY <1>2, <1>4, <1>5 DEF RemovalFreeSpace, Held
<1>9. \A j \in Inodes : j # i => Charge(j)' = Charge(j)
  BY <1>8 DEF RemovalFreeSpace, Charge
<1>10. ~(i \in Workers /\ Reserves(i))
  BY <1>7, ReservedNotHeld
<1>11. Charge(i) = length[i] /\ Charge(i)' = 0
  BY <1>7, <1>10 DEF RemovalFreeSpace, Charge
<1>12. Booked' = Booked - length[i] /\ length[i] <= Booked
  BY <1>9, <1>11, OneCharge, BookedType
<1>13. used_space' = used_space - length[i]
  <2>1. used_space - length[i] \in 0 .. (Word - 1)
    BY <1>12, StorageAssumption, BookedType DEF Ledger
  <2> QED
    BY <1>6, <2>1, WrapSmall DEF RemovalFreeSpace
<1> QED
  BY <1>12, <1>13, StorageAssumption, BookedType DEF RemovalFreeSpace, Ledger, WithinCapacity

(* A restart begins with empty books.                                      *)
LEMMA StepCrash ==
  ASSUME LedgerInv, IInv', Crash
  PROVE  Ledger' /\ WithinCapacity'
<1>1. \A t \in Workers : ~Reserves(t)'
  BY DEF Crash, Reserves, Finals, LedgerInv, IInv, Types, TypeOK
<1>2. Charged' = {}
  BY DEF Crash, Charged, NoRemoval
<1>3. \A j \in Inodes : Charge(j)' = 0
  BY <1>1, <1>2 DEF Charge, Held
<1>4. Booked' = 0
  <2>1. [j \in Inodes |-> Charge(j)'] = [j \in Inodes |-> 0]
    BY <1>3
  <2>2. Booked' = Total([j \in Inodes |-> Charge(j)'], Word)
    BY DEF Booked
  <2> QED
    BY <2>1, <2>2, StorageAssumption, TotalOfNothing
<1> QED
  BY <1>1, <1>4 DEF Crash, Ledger, WithinCapacity
-----------------------------------------------------------------------------
(* The ledger's invariant is inductive.                                    *)
LEMMA StepLedgerInv == LedgerInv /\ [Next /\ Discipline']_vars => LedgerInv'
<1> SUFFICES ASSUME LedgerInv, [Next /\ Discipline']_vars PROVE LedgerInv'
  OBVIOUS
<1>1. IInv' /\ Books'
  BY StepIInv, StepBooks DEF LedgerInv
<1>2. ASSUME NEW t \in Workers, WorkerStep(t) \/ ClientStep(t) PROVE Ledger' /\ WithinCapacity'
  BY <1>1, <1>2, StepReserve, StepFree, StepStored, StepQuiet, QuietSteps DEF WorkerStep, ClientStep, LedgerInv
<1>3. ASSUME Request PROVE Ledger' /\ WithinCapacity'
  BY <1>1, <1>3, StepQuiet, QuietSteps, StepRemoval DEF Request, LedgerInv
<1>4. ASSUME RemovalStep PROVE Ledger' /\ WithinCapacity'
  BY <1>1, <1>4, StepRemoval, StepRemovalSize, StepRemovalFree DEF RemovalStep
<1>5. CASE UNCHANGED vars
  <2>1. \A j \in Inodes : Charge(j)' = Charge(j)
    BY <1>5 DEF vars, memory, worker, disk, history, Charge, Held, Charged, InUpload, Owns, Reserves
  <2>2. Quiet
    BY <1>5, <2>1, NoCharge DEF vars, memory, worker, disk, history, Quiet, Reserves
  <2> QED
    BY <1>1, <2>2, QuietSteps DEF LedgerInv
<1> QED
  BY <1>1, <1>2, <1>3, <1>4, <1>5, StepScan, StepCrash DEF Next, LedgerInv

(* The ledger's invariant holds before the folder is scanned.              *)
LEMMA InitLedgerInv == OrderlyInit => LedgerInv
<1> SUFFICES ASSUME Init, Discipline PROVE LedgerInv
  BY DEF OrderlyInit
<1>1. IInv
  BY InitIInv DEF OrderlyInit
<1>2. \A t \in Workers : ~Reserves(t) /\ ~At(t, "read")
  BY DEF Init, Reserves, At
<1>3. Charged = {}
  BY DEF Init, Charged, NoRemoval
<1>4. [j \in Inodes |-> Charge(j)] = [j \in Inodes |-> 0]
  BY <1>2, <1>3 DEF Charge, Held
<1>5. Booked = 0
  BY <1>4, StorageAssumption, TotalOfNothing DEF Booked
<1>6. Books
  BY <1>2 DEF Init, Books, NoRemoval
<1> QED
  BY <1>1, <1>2, <1>5, <1>6 DEF Init, LedgerInv, Ledger, WithinCapacity

(* The ledger's invariant holds at every point of every orderly behaviour. *)
THEOREM LedgerInvariant == OrderlySpec => []LedgerInv
BY InitLedgerInv, StepLedgerInv, PTL DEF OrderlySpec

(* used_space is, to the byte, the reservations in flight and the sizes of *)
(* the files offered, and after a disk error never less: reserving,        *)
(* scanning, giving back and removing agree with each other in every       *)
(* interleaving.                                                           *)
THEOREM BooksBalance == OrderlySpec => []Ledger
<1>1. LedgerInv => Ledger
  BY DEF LedgerInv
<1> QED
  BY <1>1, LedgerInvariant, PTL

(* As long as check_and_reserve_space has promised space to somebody,      *)
(* everything promised and everything offered fits in max_available_space. *)
THEOREM CapacityKept == OrderlySpec => []WithinCapacity
<1>1. LedgerInv => WithinCapacity
  BY DEF LedgerInv
<1> QED
  BY <1>1, LedgerInvariant, PTL
-----------------------------------------------------------------------------
(***************************************************************************)
(* The node implements FileStore, step by step.                            *)
(***************************************************************************)
(* What the mapping to FileStore needs besides: the disk has not failed,   *)
(* the size announced is one a request can carry, and what the cleanup of a*)
(* failed upload finds on the disk is no longer than that.                 *)
Announced ==
  /\ ~ioError
  /\ \A t \in Workers :
       /\ pc[t] \in Active => file_size[t] \in Sizes
       /\ At(t, "unlink") /\ folder[filename[t]] = t => length[t] <= file_size[t]

CatalogInv == LedgerInv /\ Announced

UntilFault == LedgerInv /\ (~ioError => Announced)

(* No step in which the disk works breaks that: an upload that fails has   *)
(* written at most what it received.                                       *)
LEMMA StepAnnounced ==
  ASSUME ~ioError', IInv, IInv', Announced, [Next]_vars
  PROVE  Announced'
<1> USE DEF Announced, IInv, Types, TypeOK, Active, Points, Finals, At, GoTo, memory, worker, disk, history
<1>1. ASSUME NEW t \in Workers, OpenFile(t) PROVE Announced'
  <2>1. ~Linked(filename[t]) /\ filename[t] \in Filenames
    BY <1>1 DEF OpenFile, Files, Shape
  <2>2. \A u \in Workers : u # t => length'[u] = length[u]
    BY <1>1, <2>1 DEF OpenFile, Inodes
  <2>3. \A u \in Workers : pc'[u] = "unlink" /\ folder'[filename[u]] = u =>
          u # t /\ pc[u] = "unlink" /\ folder[filename[u]] = u
    BY <1>1, <2>1, StorageAssumption DEF OpenFile, Linked, Shape
  <2> QED
    BY <1>1, <2>2, <2>3 DEF OpenFile
<1>2. ASSUME NEW t \in Workers, Read(t) PROVE Announced'
  <2>1. \A u \in Workers : u # t => length'[u] = length[u]
    BY <1>2 DEF Read, Files, Inodes
  <2> QED
    BY <1>2, <2>1 DEF Read
<1>3. ASSUME NEW t \in Workers, EndOfRead(t) PROVE Announced'
  <2>1. file[t] = t /\ t \in Inodes
    BY <1>3 DEF EndOfRead, Files, Inodes
  <2>2. \A u \in Workers : u # t => length'[u] = length[u]
    BY <1>3, <2>1 DEF EndOfRead, Inodes
  <2>3. length'[t] <= file_size[t]
    BY <1>3, <2>1 DEF EndOfRead, Lengths, Received
  <2>4. ioError' = FALSE
    BY <1>3 DEF EndOfRead
  <2> QED
    BY <1>3, <2>2, <2>3, <2>4 DEF EndOfRead
<1>4. ASSUME NEW t \in Workers, SelectAndAccept(t) PROVE Announced'
  <2>1. ~Linked(filename[t])
    BY <1>4 DEF SelectAndAccept, Files
  <2> QED
    BY <1>4, <2>1, StorageAssumption DEF SelectAndAccept, Linked
<1>5. ASSUME NEW t \in Workers, RemoveFile(t) PROVE Announced'
  BY <1>5, StorageAssumption DEF RemoveFile, Shape
<1>6. ASSUME NEW t \in Workers, NEW n \in Filenames, NEW s \in Sizes, HandleUploadRequest(t, n, s)
      PROVE  Announced'
  BY <1>6, StorageAssumption DEF HandleUploadRequest
<1>7. ASSUME NEW t \in Workers, SendRefusal(t) \/ RemoveFileFromStorage(t) PROVE Announced'
  BY <1>7 DEF SendRefusal, RemoveFileFromStorage, Return
<1>8. ASSUME NEW t \in Workers, CheckAndReserveSpace(t) \/ AddFileToStorage(t) \/ FreeSpace(t) \/ SendAcceptance(t)
      PROVE  Announced'
  BY <1>8 DEF CheckAndReserveSpace, AddFileToStorage, AfterInsert, FreeSpace, SendAcceptance
<1>9. ASSUME NEW n \in Filenames, GenerateFilesInStorage(n) \/ HandleRemoveRequest(n) PROVE Announced'
  BY <1>9 DEF GenerateFilesInStorage, HandleRemoveRequest
<1>10. ASSUME RemovalFileSize \/ RemovalFreeSpace PROVE Announced'
  <2>1. ioError' = FALSE
    BY <1>10 DEF RemovalFileSize, RemovalFreeSpace
  <2> QED
    BY <1>10, <2>1 DEF RemovalFileSize, RemovalFreeSpace
<1>11. ASSUME RemovalRemoveFile PROVE Announced'
  <2>1. ioError' = FALSE /\ folder' = [folder EXCEPT ![removal.filename] = None] /\ removal.filename \in Filenames
    BY <1>11 DEF RemovalRemoveFile, Shape
  <2> QED
    BY <1>11, <2>1, StorageAssumption DEF RemovalRemoveFile
<1>12. ASSUME Crash PROVE Announced'
  BY <1>12 DEF Crash
<1>13. ASSUME UNCHANGED vars PROVE Announced'
  BY <1>13 DEF vars
<1> QED
  BY <1>1, <1>2, <1>3, <1>4, <1>5, <1>6, <1>7, <1>8, <1>9, <1>10, <1>11, <1>12, <1>13
     DEF Next, Request, WorkerStep, ClientStep, RemovalStep

(* It holds at the start, before any request has arrived.                  *)
LEMMA InitAnnounced == Init => Announced
BY DEF Init, Announced, At, Active, Points, Finals

(* A disk that has failed stays one that has.                              *)
LEMMA FaultStays ==
  ASSUME [Next]_vars, ioError
  PROVE  ioError'
<1> USE DEF history
<1>1. ASSUME Next PROVE ioError'
  <2>1. ASSUME NEW t \in Workers, WorkerStep(t) \/ ClientStep(t) PROVE ioError'
    BY <2>1 DEF WorkerStep, ClientStep, CheckAndReserveSpace, AddFileToStorage, FreeSpace, SendRefusal,
                SendAcceptance, SelectAndAccept, OpenFile, Read, EndOfRead, RemoveFile, RemoveFileFromStorage
  <2>2. ASSUME RemovalStep PROVE ioError'
    BY <2>2 DEF RemovalStep, RemovalFileSize, RemovalFreeSpace, RemovalRemoveFile
  <2>3. ASSUME Request PROVE ioError'
    BY <2>3 DEF Request, HandleUploadRequest, HandleRemoveRequest
  <2>4. ASSUME NEW n \in Filenames, GenerateFilesInStorage(n) PROVE ioError'
    BY <2>4 DEF GenerateFilesInStorage
  <2>5. ASSUME Crash PROVE ioError'
    BY <2>5 DEF Crash
  <2> QED
    BY <1>1, <2>1, <2>2, <2>3, <2>4, <2>5 DEF Next
<1> QED
  BY <1>1 DEF vars

(* The mapping's invariant, until the disk fails.                          *)
THEOREM CatalogInvariant == OrderlySpec => []UntilFault
<1>1. OrderlyInit => UntilFault
  <2>1. OrderlyInit => LedgerInv
    BY InitLedgerInv
  <2>2. OrderlyInit => Announced
    BY InitAnnounced DEF OrderlyInit
  <2> QED
    BY <2>1, <2>2, Zenon DEF UntilFault
<1>2. UntilFault /\ [Next /\ Discipline']_vars => UntilFault'
  <2> SUFFICES ASSUME UntilFault, [Next /\ Discipline']_vars PROVE UntilFault'
    OBVIOUS
  <2>1. LedgerInv' /\ [Next]_vars
    BY StepLedgerInv DEF UntilFault
  <2>2. LedgerInv /\ IInv /\ IInv' /\ TypeOK /\ TypeOK'
    BY <2>1 DEF UntilFault, LedgerInv, IInv, Types
  <2>3. ASSUME ~ioError' PROVE Announced'
    <3>1. ~ioError
      BY <2>1, <2>3, FaultStays, Zenon
    <3>2. Announced
      BY <3>1, Zenon DEF UntilFault
    <3> QED
      BY <2>1, <2>2, <2>3, <3>2, StepAnnounced, Zenon
  <2> QED
    BY <2>1, <2>3, Zenon DEF UntilFault
<1> QED
  BY <1>1, <1>2, PTL DEF OrderlySpec
-----------------------------------------------------------------------------
(* The entry of a name is that of its pending upload if it has one, and    *)
(* that of its file otherwise.                                             *)
FileEntry(n) ==
  IF Linked(n)
    THEN [status |-> IF removal.at # "idle" /\ removal.filename = n THEN "doomed" ELSE "stored",
          bytes |-> length[folder[n]]]
    ELSE [status |-> "absent", bytes |-> 0]

Uploads(t, n) == Pending(t) /\ filename[t] = n

EntryRight(n) ==
  /\ \A t \in Workers :
       Uploads(t, n) => CatalogEntry(n) = [status |-> "pending", bytes |-> file_size[t]]
  /\ (\A t \in Workers : ~Uploads(t, n)) => CatalogEntry(n) = FileEntry(n)

(* A name has at most one pending upload, so the entry is determined.      *)
LEMMA EntryOf ==
  ASSUME NEW n \in Filenames
  PROVE  ExclusiveUpload => EntryRight(n)
<1> SUFFICES ASSUME ExclusiveUpload PROVE EntryRight(n)
  OBVIOUS
<1>1. ASSUME NEW t \in Workers, Uploads(t, n)
      PROVE  CatalogEntry(n) = [status |-> "pending", bytes |-> file_size[t]]
  <2> DEFINE chosen == CHOOSE u \in Workers : Pending(u) /\ filename[u] = n
  <2>1. chosen \in Workers /\ Pending(chosen) /\ filename[chosen] = n
    BY <1>1 DEF Uploads
  <2>2. chosen = t
    BY <1>1, <2>1 DEF Uploads, Pending, ExclusiveUpload
  <2>3. CatalogEntry(n) = [status |-> "pending", bytes |-> file_size[chosen]]
    BY <2>1 DEF CatalogEntry
  <2> QED
    BY <2>2, <2>3
<1>2. ASSUME \A t \in Workers : ~Uploads(t, n) PROVE CatalogEntry(n) = FileEntry(n)
  BY <1>2 DEF Uploads, CatalogEntry, FileEntry
<1> QED
  BY <1>1, <1>2 DEF EntryRight

(* The same of the state after a step.                                     *)
LEMMA EntryAfter ==
  ASSUME NEW n \in Filenames
  PROVE  ExclusiveUpload' => EntryRight(n)'
<1>1. ExclusiveUpload => EntryRight(n)
  BY EntryOf
<1> QED
  BY <1>1, PTL

(* A step that leaves a name's upload alone, and its file if it has none,  *)
(* leaves its entry alone.                                                 *)
LEMMA SameEntry ==
  ASSUME ExclusiveUpload, ExclusiveUpload', NEW n \in Filenames,
         \A t \in Workers : Uploads(t, n)' <=> Uploads(t, n),
         \A t \in Workers : Uploads(t, n) => file_size'[t] = file_size[t],
         (\A t \in Workers : ~Uploads(t, n)) => FileEntry(n)' = FileEntry(n)
  PROVE  CatalogEntry(n)' = CatalogEntry(n)
<1>1. CASE \E t \in Workers : Uploads(t, n)
  <2>1. PICK t \in Workers : Uploads(t, n)
    BY <1>1
  <2>2. CatalogEntry(n) = [status |-> "pending", bytes |-> file_size[t]]
    BY <2>1, EntryOf DEF EntryRight
  <2>3. CatalogEntry(n)' = [status |-> "pending", bytes |-> file_size'[t]]
    BY <2>1, EntryAfter DEF EntryRight
  <2> QED
    BY <2>1, <2>2, <2>3
<1>2. CASE \A t \in Workers : ~Uploads(t, n)
  <2>1. CatalogEntry(n) = FileEntry(n)
    BY <1>2, EntryOf DEF EntryRight
  <2>2. CatalogEntry(n)' = FileEntry(n)'
    BY <1>2, EntryAfter DEF EntryRight
  <2> QED
    BY <1>2, <2>1, <2>2
<1> QED
  BY <1>1, <1>2
-----------------------------------------------------------------------------
(* What is committed to a name under the mapping.                          *)
CommittedTo(n) ==
  IF CatalogEntry(n).status \in {"pending", "stored"} THEN CatalogEntry(n).bytes ELSE 0

(* The inode that carries what is committed to a name: its uploader's own  *)
(* while the upload is pending, the file's afterwards.                     *)
Carries(i, n) ==
  \/ i \in Workers /\ Uploads(i, n)
  \/ (\A t \in Workers : ~Uploads(t, n)) /\ Linked(n) /\ i = folder[n]

(* What is committed is charged, on an inode of its own.                   *)
LEMMA CommittedCharged ==
  ASSUME CatalogInv, unscanned = {}, NEW n \in Filenames, CommittedTo(n) # 0
  PROVE  \E i \in Inodes : Carries(i, n) /\ Charge(i) = CommittedTo(n)
<1> USE DEF CatalogInv, LedgerInv, IInv, Types, TypeOK
<1>1. CASE \E t \in Workers : Uploads(t, n)
  <2>1. PICK t \in Workers : Uploads(t, n)
    BY <1>1
  <2>2. CommittedTo(n) = file_size[t]
    BY <2>1, EntryOf DEF EntryRight, CommittedTo
  <2>3. Charge(t) = file_size[t]
    BY <2>1 DEF Charge, Uploads, Pending
  <2> QED
    BY <2>1, <2>2, <2>3 DEF Carries, Inodes
<1>2. CASE \A t \in Workers : ~Uploads(t, n)
  <2>1. CatalogEntry(n) = FileEntry(n)
    BY <1>2, EntryOf DEF EntryRight
  <2>2. Linked(n) /\ ~(removal.at # "idle" /\ removal.filename = n) /\ CommittedTo(n) = length[folder[n]]
    BY <2>1 DEF FileEntry, CommittedTo
  <2>3. n \in files_in_storage
    BY <2>2 DEF MemoryMatchesFolder, Announced
  <2>4. ~InUpload(n)
    BY <1>2, <2>2 DEF InUpload, Uploads, Pending, Owns, Reserves, Files, Announced
  <2>5. Held(folder[n]) /\ folder[n] \in Inodes
    BY <2>2, <2>3, <2>4 DEF Held, Charged, Linked
  <2>6. Charge(folder[n]) = length[folder[n]]
    BY <2>5, ReservedNotHeld DEF Charge
  <2> QED
    BY <1>2, <2>2, <2>5, <2>6 DEF Carries
<1> QED
  BY <1>1, <1>2

(* No inode carries two names, and none is the one of a worker that has    *)
(* its reservation but not yet its name.                                   *)
LEMMA CarriedApart ==
  ASSUME CatalogInv, NEW i \in Inodes, NEW n \in Filenames, Carries(i, n)
  PROVE  /\ \A m \in Filenames : Carries(i, m) => n = m
         /\ i \in Workers => ~At(i, "insert")
<1> USE DEF CatalogInv, LedgerInv, IInv
<1>1. ASSUME NEW m \in Filenames, Carries(i, m) PROVE n = m
  BY <1>1, FilesApart DEF Carries, Uploads, Names
<1>2. i \in Workers => ~At(i, "insert")
  BY DEF Carries, Uploads, Pending, Owns, Names, At
<1> QED
  BY <1>1, <1>2

(* So the reservation of such a worker and everything committed fit into   *)
(* what is booked.                                                         *)
LEMMA CommittedFits ==
  ASSUME CatalogInv, NEW t \in Workers, At(t, "insert")
  PROVE  Total([n \in Filenames |-> CommittedTo(n)], Word) + file_size[t] <= max_available_space
<1> DEFINE C == [n \in Filenames |-> CommittedTo(n)]
           f == [i \in Inodes |-> Charge(i)]
           carrier(n) == CHOOSE i \in Inodes : Carries(i, n) /\ Charge(i) = CommittedTo(n)
           move == [u \in Units(C, Word) |-> <<carrier(u[1]), u[2]>>]
           rest == Others(Inodes, f, Word, t)
<1>0. TypeOK /\ unscanned = {} /\ Word \in Nat
  BY StorageAssumption DEF CatalogInv, LedgerInv, IInv, Types, Shape, Active, Points, Finals, At
<1>1. ASSUME NEW n \in Filenames, C[n] # 0
      PROVE  /\ carrier(n) \in Inodes /\ Carries(carrier(n), n) /\ carrier(n) # t
             /\ C[n] = f[carrier(n)]
  <2>1. \E i \in Inodes : Carries(i, n) /\ Charge(i) = CommittedTo(n)
    BY <1>0, <1>1, CommittedCharged
  <2>2. carrier(n) \in Inodes /\ Carries(carrier(n), n) /\ Charge(carrier(n)) = CommittedTo(n)
    BY <2>1
  <2> HIDE DEF carrier
  <2>3. carrier(n) # t
    BY <2>2, CarriedApart
  <2> QED
    BY <2>2, <2>3
<1>2. f \in [Inodes -> 0 .. Word] /\ IsFiniteSet(Inodes) /\ t \in Inodes /\ f[t] = file_size[t]
  BY <1>0, ChargeType, InodesFinite DEF Inodes, Charge, Reserves, At
<1> HIDE DEF f, carrier
<1>3. ASSUME NEW u \in Units(C, Word)
      PROVE  /\ u = <<u[1], u[2]>> /\ u[1] \in Filenames
             /\ carrier(u[1]) \in Inodes /\ Carries(carrier(u[1]), u[1])
             /\ <<carrier(u[1]), u[2]>> \in rest
  <2>1. u = <<u[1], u[2]>> /\ u[1] \in Filenames /\ u[2] \in 1 .. Word /\ u[2] <= C[u[1]]
    BY DEF Units
  <2> HIDE DEF C
  <2>2. C[u[1]] # 0
    BY <2>1
  <2> QED
    BY <1>1, <2>1, <2>2 DEF Others
<1>4. move \in Injection(Units(C, Word), rest)
  <2>1. move \in [Units(C, Word) -> rest]
    BY <1>3
  <2>2. ASSUME NEW u \in Units(C, Word), NEW v \in Units(C, Word), move[u] = move[v]
        PROVE  u = v
    <3>1. carrier(u[1]) = carrier(v[1]) /\ u[2] = v[2]
      BY <2>2
    <3>2. u[1] \in Filenames /\ v[1] \in Filenames /\ carrier(u[1]) \in Inodes
      BY <1>3
    <3>3. Carries(carrier(u[1]), u[1]) /\ Carries(carrier(u[1]), v[1])
      BY <1>3, <3>1
    <3>4. u[1] = v[1]
      BY <3>2, <3>3, CarriedApart
    <3> QED
      BY <1>3, <3>1, <3>4
  <2> QED
    BY <2>1, <2>2 DEF Injection, IsInjective
<1>5. Booked = Cardinality(rest) + file_size[t] /\ Cardinality(rest) \in Nat
  <2>1. Booked = Total(f, Word)
    BY DEF Booked, f
  <2> QED
    BY <1>0, <1>2, <2>1, TotalSplit
<1>6. IsFiniteSet(rest)
  <2>1. rest \in SUBSET Units(f, Word)
    BY <1>2 DEF Others, Units
  <2> QED
    BY <1>0, <1>2, <2>1, UnitsFinite, FS_Subset
<1>7. Total(C, Word) <= Cardinality(rest) /\ Total(C, Word) \in Nat
  <2>1. IsFiniteSet(Units(C, Word)) /\ Cardinality(Units(C, Word)) <= Cardinality(rest)
    BY <1>4, <1>6, FS_Injection
  <2> QED
    BY <2>1, FS_CardinalityType DEF Total
<1>8. Booked <= max_available_space
  BY DEF CatalogInv, LedgerInv, WithinCapacity, Reserves, At
<1> HIDE DEF C, rest
<1>9. file_size[t] \in Nat /\ max_available_space \in Nat
  BY <1>0, StorageAssumption DEF TypeOK
<1>10. Total(C, Word) + file_size[t] <= max_available_space
  BY <1>5, <1>7, <1>8, <1>9
<1> QED
  BY <1>10 DEF C
-----------------------------------------------------------------------------
(* A step between two states in which the disk works that keeps every entry*)
(* and does not restart the node is one the catalogue does not see.        *)
Unseen == crashes' = crashes /\ \A n \in Filenames : CatalogEntry(n)' = CatalogEntry(n)

(* A step that changes the entry of one name.                              *)
Seen(n) ==
  crashes' = crashes /\ ioError' = ioError /\ \A m \in Filenames : m # n => CatalogEntry(m)' = CatalogEntry(m)

(* The disk works before and after.                                        *)
LEMMA DiskWorks ==
  ASSUME CatalogInv, CatalogInv'
  PROVE  ioError' = ioError
<1>1. ioError \in BOOLEAN /\ ioError' \in BOOLEAN
  BY DEF CatalogInv, LedgerInv, IInv, Types, TypeOK
<1>2. ~ioError /\ ~ioError'
  BY DEF CatalogInv, Announced
<1> QED
  BY <1>1, <1>2

(* A worker's step that leaves all files but that of its name alone keeps  *)
(* the entries of all other names.                                         *)
LEMMA OtherEntries ==
  ASSUME ExclusiveUpload, ExclusiveUpload', NEW t \in Workers,
         removal' = removal,
         \A u \in Workers : u # t => (Pending(u)' <=> Pending(u)) /\ filename'[u] = filename[u]
                                     /\ file_size'[u] = file_size[u],
         NEW n \in Filenames,
         Uploads(t, n)' <=> Uploads(t, n),
         Uploads(t, n) => file_size'[t] = file_size[t],
         ~Uploads(t, n) => (Linked(n)' <=> Linked(n)),
         ~Uploads(t, n) /\ Linked(n) => length'[folder'[n]] = length[folder[n]]
  PROVE  CatalogEntry(n)' = CatalogEntry(n)
<1>1. \A u \in Workers : Uploads(u, n)' <=> Uploads(u, n)
  BY DEF Uploads
<1>2. \A u \in Workers : Uploads(u, n) => file_size'[u] = file_size[u]
  BY DEF Uploads
<1>3. (\A u \in Workers : ~Uploads(u, n)) => FileEntry(n)' = FileEntry(n)
  BY DEF FileEntry
<1> QED
  BY <1>1, <1>2, <1>3, SameEntry

(* A step that touches neither workers nor files nor the removal's name.   *)
LEMMA SameForAll ==
  ASSUME ExclusiveUpload, ExclusiveUpload', UNCHANGED <<worker, disk, crashes>>,
         NEW n \in Filenames,
         removal'.at # "idle" /\ removal'.filename = n <=> removal.at # "idle" /\ removal.filename = n
  PROVE  CatalogEntry(n)' = CatalogEntry(n)
<1>1. \A u \in Workers : (Uploads(u, n)' <=> Uploads(u, n)) /\ file_size'[u] = file_size[u]
  BY DEF worker, Uploads, Pending, Owns, Reserves
<1>2. FileEntry(n)' = FileEntry(n)
  BY DEF FileEntry, Linked, disk
<1> QED
  BY <1>1, <1>2, SameEntry

(* What a worker does before it holds a name and a reservation, with them  *)
(* until its file is whole, and after it has given them back, is not seen. *)
LEMMA StepUnseen ==
  ASSUME CatalogInv, CatalogInv', NEW t \in Workers,
         \/ \E n \in Filenames, s \in Sizes : HandleUploadRequest(t, n, s)
         \/ CheckAndReserveSpace(t) \/ SendRefusal(t) \/ SendAcceptance(t) \/ SelectAndAccept(t)
         \/ AddFileToStorage(t) /\ ~Inserted(t)
         \/ FreeSpace(t) /\ At(t, "giveback")
         \/ OpenFile(t) \/ Read(t)
         \/ EndOfRead(t) /\ UploadFailed(t)
         \/ RemoveFile(t) \/ RemoveFileFromStorage(t)
  PROVE  Unseen
<1> USE DEF CatalogInv, LedgerInv, IInv, Types, TypeOK, At, GoTo, memory, disk, history,
            Uploads, Pending, Owns, Reserves
<1>1. ASSUME NEW n \in Filenames, NEW s \in Sizes, HandleUploadRequest(t, n, s) PROVE Unseen
  BY <1>1, OtherEntries DEF HandleUploadRequest, Linked, Unseen
<1>2. ASSUME CheckAndReserveSpace(t) PROVE Unseen
  BY <1>2, OtherEntries DEF CheckAndReserveSpace, Linked, Unseen
<1>3. ASSUME SendRefusal(t) PROVE Unseen
  BY <1>3, OtherEntries DEF SendRefusal, Return, Linked, Unseen
<1>4. ASSUME SendAcceptance(t) PROVE Unseen
  BY <1>4, OtherEntries DEF SendAcceptance, Linked, Unseen
<1>5. ASSUME SelectAndAccept(t) PROVE Unseen
  BY <1>5, OtherEntries DEF SelectAndAccept, Linked, Unseen
<1>6. ASSUME AddFileToStorage(t), ~Inserted(t) PROVE Unseen
  BY <1>6, OtherEntries DEF AddFileToStorage, AfterInsert, Linked, Unseen
<1>7. ASSUME FreeSpace(t), At(t, "giveback") PROVE Unseen
  BY <1>7, OtherEntries DEF FreeSpace, Linked, Unseen
<1>8. ASSUME RemoveFileFromStorage(t) PROVE Unseen
  BY <1>8, OtherEntries DEF RemoveFileFromStorage, Return, Linked, Unseen
<1>9. ASSUME OpenFile(t), NEW n \in Filenames PROVE CatalogEntry(n)' = CatalogEntry(n)
  <2>1. n # filename[t] => folder'[n] = folder[n] /\ (Linked(n) => length'[folder[n]] = length[folder[n]])
    BY <1>9, WorkerApart DEF OpenFile, Linked, Active, Points, Finals
  <2> QED
    BY <1>9, <2>1, OtherEntries DEF OpenFile, Linked
<1>10. ASSUME Read(t), NEW n \in Filenames PROVE CatalogEntry(n)' = CatalogEntry(n)
  <2>1. n # filename[t] => (Linked(n) => length'[folder[n]] = length[folder[n]])
    BY <1>10, WorkerApart DEF Read, Linked
  <2> QED
    BY <1>10, <2>1, OtherEntries DEF Read, Linked
<1>11. ASSUME EndOfRead(t), UploadFailed(t), NEW n \in Filenames PROVE CatalogEntry(n)' = CatalogEntry(n)
  <2>1. n # filename[t] => (Linked(n) => length'[folder[n]] = length[folder[n]])
    BY <1>11, WorkerApart DEF EndOfRead, Linked
  <2> QED
    BY <1>11, <2>1, OtherEntries DEF EndOfRead, Linked
<1>12. ASSUME RemoveFile(t) PROVE Unseen
  BY <1>12, OtherEntries DEF RemoveFile, Linked, Unseen
<1>13. OpenFile(t) \/ Read(t) \/ EndOfRead(t) => crashes' = crashes
  BY DEF OpenFile, Read, EndOfRead
<1> QED
  BY <1>1, <1>2, <1>3, <1>4, <1>5, <1>6, <1>7, <1>8, <1>9, <1>10, <1>11, <1>12, <1>13 DEF Unseen
-----------------------------------------------------------------------------
(* FileStore's total is the one of module Units.                           *)
LEMMA SameTotal ==
  Catalog!Total(Catalog!Committed, Word) = Total([n \in Filenames |-> CommittedTo(n)], Word)
<1>1. Catalog!Committed = [n \in Filenames |-> CommittedTo(n)]
  BY DEF Catalog!Committed, Catalog!Is, CommittedTo
<1>2. Catalog!Total(Catalog!Committed, Word) = Total(Catalog!Committed, Word)
  BY Zenon DEF Total, Units, Catalog!Total, Catalog!Units, Cardinality, Catalog!Cardinality
<1> QED
  BY <1>1, <1>2

(* From a free name to an accepted upload.                                 *)
LEMMA AsAccept ==
  ASSUME NEW n \in Filenames, Seen(n),
         NEW s \in Sizes, CatalogEntry(n).status = "absent",
         Catalog!Total(Catalog!Committed, Word) + s <= max_available_space,
         CatalogEntry(n)' = [status |-> "pending", bytes |-> s]
  PROVE  Catalog!Accept(n, s)
BY DEF Seen, Catalog!Accept, Catalog!Is

(* From an accepted upload to a stored file of its size.                   *)
LEMMA AsFinish ==
  ASSUME NEW n \in Filenames, Seen(n),
         NEW s, CatalogEntry(n) = [status |-> "pending", bytes |-> s],
         CatalogEntry(n)' = [status |-> "stored", bytes |-> s]
  PROVE  Catalog!Finish(n)
<1>1. [CatalogEntry(n) EXCEPT !.status = "stored"] = CatalogEntry(n)'
  OBVIOUS
<1>2. [m \in Filenames |-> CatalogEntry(m)]' = [[m \in Filenames |-> CatalogEntry(m)] EXCEPT ![n].status = "stored"]
  BY <1>1 DEF Seen
<1> QED
  BY <1>2 DEF Seen, Catalog!Finish, Catalog!Is

(* From an accepted upload to a free name.                                 *)
LEMMA AsAbandon ==
  ASSUME NEW n \in Filenames, Seen(n),
         CatalogEntry(n).status = "pending",
         CatalogEntry(n)' = [status |-> "absent", bytes |-> 0]
  PROVE  Catalog!Abandon(n)
BY DEF Seen, Catalog!Abandon, Catalog!Is, Catalog!Absent

(* From a stored file to a deleted one.                                    *)
LEMMA AsWithdraw ==
  ASSUME NEW n \in Filenames, Seen(n),
         NEW s, CatalogEntry(n) = [status |-> "stored", bytes |-> s],
         CatalogEntry(n)' = [status |-> "doomed", bytes |-> s]
  PROVE  Catalog!Withdraw(n)
<1>1. [CatalogEntry(n) EXCEPT !.status = "doomed"] = CatalogEntry(n)'
  OBVIOUS
<1>2. [m \in Filenames |-> CatalogEntry(m)]' = [[m \in Filenames |-> CatalogEntry(m)] EXCEPT ![n].status = "doomed"]
  BY <1>1 DEF Seen
<1> QED
  BY <1>2 DEF Seen, Catalog!Withdraw, Catalog!Is

(* From a deleted file to a free name.                                     *)
LEMMA AsErase ==
  ASSUME NEW n \in Filenames, Seen(n),
         CatalogEntry(n).status = "doomed",
         CatalogEntry(n)' = [status |-> "absent", bytes |-> 0]
  PROVE  Catalog!Erase(n)
BY DEF Seen, Catalog!Erase, Catalog!Is, Catalog!Absent

-----------------------------------------------------------------------------
(* A worker enters its name: FileStore accepts an upload.                  *)
LEMMA StepAccept ==
  ASSUME CatalogInv, CatalogInv', NEW t \in Workers, AddFileToStorage(t), Inserted(t)
  PROVE  Catalog!Next
<1> USE DEF CatalogInv, LedgerInv, IInv, Types, TypeOK, At, GoTo, disk, history
<1>1. PICK n \in Filenames : n = filename[t]
  BY DEF AddFileToStorage, Shape, Active, Points, Finals
<1>2. CatalogEntry(n) = [status |-> "absent", bytes |-> 0]
  <2>1. \A u \in Workers : ~Uploads(u, n)
    BY <1>1 DEF Uploads, Pending, Inserted, Names
  <2>2. InUpload(n)'
    BY <1>1 DEF AddFileToStorage, AfterInsert, InUpload, Owns
  <2>3. removal'.at # "idle" => removal'.filename # n
    BY <2>2 DEF Discipline, Settled
  <2>4. ~(removal.at # "idle" /\ removal.filename = n)
    BY <2>3 DEF AddFileToStorage
  <2>5. unscanned = {} /\ n \notin files_in_storage
    BY <1>1 DEF AddFileToStorage, Inserted, Shape, Active, Points, Finals
  <2>6. ~Linked(n)
    BY <2>4, <2>5 DEF MemoryMatchesFolder, Announced
  <2>7. CatalogEntry(n) = FileEntry(n)
    BY <2>1, EntryOf DEF EntryRight
  <2> QED
    BY <2>6, <2>7 DEF FileEntry
<1>3. CatalogEntry(n)' = [status |-> "pending", bytes |-> file_size[t]]
  <2>1. Uploads(t, n)' /\ file_size'[t] = file_size[t]
    BY <1>1 DEF AddFileToStorage, AfterInsert, Uploads, Pending, Owns, Reserves
  <2> QED
    BY <2>1, EntryAfter DEF EntryRight
<1>4. Seen(n)
  BY <1>1, OtherEntries, DiskWorks DEF Seen, AddFileToStorage, AfterInsert, Linked, Uploads, Pending, Owns, Reserves
<1>5. file_size[t] \in Sizes
  BY DEF AddFileToStorage, Announced, Active, Points, Finals
<1>6. Catalog!Total(Catalog!Committed, Word) + file_size[t] <= max_available_space
  BY CommittedFits, SameTotal DEF AddFileToStorage
<1>7. Catalog!Accept(n, file_size[t])
  BY <1>2, <1>3, <1>4, <1>5, <1>6, AsAccept
<1> QED
  BY <1>5, <1>7 DEF Catalog!Next

(* A worker gives back the reservation of a failed upload, whose file it   *)
(* has removed: FileStore abandons the upload.                             *)
LEMMA StepAbandon ==
  ASSUME CatalogInv, CatalogInv', NEW t \in Workers, FreeSpace(t), At(t, "release")
  PROVE  Catalog!Next
<1> USE DEF CatalogInv, LedgerInv, IInv, Types, TypeOK, At, GoTo, disk, history
<1>1. PICK n \in Filenames : n = filename[t]
  BY DEF Shape, Active, Points, Finals
<1>2. Uploads(t, n) /\ CatalogEntry(n) = [status |-> "pending", bytes |-> file_size[t]]
  <2>1. Uploads(t, n)
    BY <1>1 DEF Uploads, Pending, Owns, Reserves
  <2> QED
    BY <2>1, EntryOf DEF EntryRight
<1>3. CatalogEntry(n)' = [status |-> "absent", bytes |-> 0]
  <2>1. \A u \in Workers : ~Uploads(u, n)'
    BY <1>1, <1>2 DEF FreeSpace, Uploads, Pending, Owns, Reserves, ExclusiveUpload
  <2>2. ~Linked(n)'
    BY <1>1 DEF FreeSpace, Files, Announced, Linked
  <2>3. CatalogEntry(n)' = FileEntry(n)'
    BY <2>1, EntryAfter DEF EntryRight
  <2> QED
    BY <2>2, <2>3 DEF FileEntry
<1>4. Seen(n)
  BY <1>1, OtherEntries, DiskWorks DEF Seen, FreeSpace, Linked, Uploads, Pending, Owns, Reserves
<1>5. Catalog!Abandon(n)
  BY <1>2, <1>3, <1>4, AsAbandon
<1> QED
  BY <1>5 DEF Catalog!Next

(* A worker returns with every byte received: the file of the announced    *)
(* size is stored.                                                         *)
LEMMA StepFinish ==
  ASSUME CatalogInv, CatalogInv', NEW t \in Workers, EndOfRead(t), ~UploadFailed(t)
  PROVE  Catalog!Next
<1> USE DEF CatalogInv, LedgerInv, IInv, Types, TypeOK, At, GoTo, disk, history
<1>1. PICK n \in Filenames : n = filename[t]
  BY DEF EndOfRead, Shape, Active, Points, Finals
<1>2. Uploads(t, n) /\ CatalogEntry(n) = [status |-> "pending", bytes |-> file_size[t]]
  <2>1. Uploads(t, n)
    BY <1>1 DEF EndOfRead, Uploads, Pending, Owns, Reserves
  <2> QED
    BY <2>1, EntryOf DEF EntryRight
<1>3. CatalogEntry(n)' = [status |-> "stored", bytes |-> file_size[t]]
  <2>1. \A u \in Workers : ~Uploads(u, n)'
    BY <1>1, <1>2 DEF EndOfRead, Uploads, Pending, Owns, Reserves, ExclusiveUpload
  <2>2. folder'[n] = t /\ Linked(n)'
    BY <1>1, StorageAssumption DEF EndOfRead, Files, Announced, Linked
  <2>3. pc'[t] = "stored" /\ file_size'[t] = file_size[t]
    BY DEF EndOfRead
  <2>4. length'[folder'[n]] = file_size[t]
    BY <2>2, <2>3 DEF UploadedWhole, Announced
  <2>5. ~(removal'.at # "idle" /\ removal'.filename = n)
    BY <1>2 DEF EndOfRead, Discipline, Settled, InUpload, Uploads, Pending
  <2>6. CatalogEntry(n)' = FileEntry(n)'
    BY <2>1, EntryAfter DEF EntryRight
  <2> QED
    BY <2>2, <2>4, <2>5, <2>6 DEF FileEntry
<1>4. ASSUME NEW m \in Filenames, m # n PROVE CatalogEntry(m)' = CatalogEntry(m)
  <2>1. Linked(m) => length'[folder[m]] = length[folder[m]]
    BY <1>1, <1>4, WorkerApart DEF EndOfRead, Linked
  <2> QED
    BY <1>1, <1>4, <2>1, OtherEntries DEF EndOfRead, Linked, Uploads, Pending, Owns, Reserves
<1>5. Seen(n)
  BY <1>4, DiskWorks DEF EndOfRead, Seen
<1>6. Catalog!Finish(n)
  BY <1>2, <1>3, <1>5, AsFinish
<1> QED
  BY <1>6 DEF Catalog!Next

(* The removal takes the name out of the set: FileStore withdraws the file.*)
LEMMA StepWithdraw ==
  ASSUME CatalogInv, CatalogInv', NEW n \in Filenames, HandleRemoveRequest(n)
  PROVE  Catalog!Next
<1> USE DEF CatalogInv, LedgerInv, IInv, Types, TypeOK
<1>1. ~InUpload(n) /\ Linked(n) /\ removal.at = "idle"
  <2>1. ~InUpload(n)'
    BY DEF HandleRemoveRequest, Discipline, Settled
  <2>2. ~InUpload(n)
    BY <2>1 DEF HandleRemoveRequest, InUpload, Owns, worker
  <2> QED
    BY <2>2 DEF HandleRemoveRequest, MemoryMatchesFolder
<1>2. UNCHANGED <<worker, disk, crashes>> /\ removal'.at # "idle" /\ removal'.filename = n
  BY DEF HandleRemoveRequest, history
<1>3. \A u \in Workers : ~Uploads(u, n) /\ ~Uploads(u, n)'
  BY <1>1, <1>2 DEF worker, InUpload, Uploads, Pending, Owns, Reserves
<1>4. CatalogEntry(n) = [status |-> "stored", bytes |-> length[folder[n]]]
  <2>1. CatalogEntry(n) = FileEntry(n)
    BY <1>3, EntryOf DEF EntryRight
  <2> QED
    BY <1>1, <2>1 DEF FileEntry
<1>5. CatalogEntry(n)' = [status |-> "doomed", bytes |-> length[folder[n]]]
  <2>1. CatalogEntry(n)' = FileEntry(n)'
    BY <1>3, EntryAfter DEF EntryRight
  <2> QED
    BY <1>1, <1>2, <2>1 DEF FileEntry, Linked, disk
<1>6. Seen(n)
  BY <1>1, <1>2, SameForAll, DiskWorks DEF Seen
<1>7. Catalog!Withdraw(n)
  BY <1>4, <1>5, <1>6, AsWithdraw
<1> QED
  BY <1>7 DEF Catalog!Next

(* The removal takes the file off the disk: FileStore erases it. If there  *)
(* was none any more, nothing is seen of it.                               *)
LEMMA StepErase ==
  ASSUME CatalogInv, CatalogInv', RemovalRemoveFile
  PROVE  Catalog!Next \/ Unseen
<1> USE DEF CatalogInv, LedgerInv, IInv, Types, TypeOK
<1>1. PICK n \in Filenames : n = removal.filename
  BY DEF RemovalRemoveFile, Shape
<1>2. /\ folder' = [folder EXCEPT ![n] = None] /\ removal' = NoRemoval
      /\ UNCHANGED <<worker, length, crashes>> /\ ~InUpload(n) /\ removal.at # "idle"
  BY <1>1 DEF RemovalRemoveFile, Discipline, Settled, Announced
<1>3. ASSUME NEW m \in Filenames PROVE \A u \in Workers : (Uploads(u, m)' <=> Uploads(u, m)) /\ file_size'[u] = file_size[u]
  BY <1>2 DEF worker, Uploads, Pending, Owns, Reserves
<1>4. Seen(n)
  <2>1. ASSUME NEW m \in Filenames, m # n PROVE FileEntry(m)' = FileEntry(m)
    BY <1>1, <1>2, <2>1 DEF FileEntry, Linked, NoRemoval
  <2> QED
    BY <1>2, <1>3, <2>1, SameEntry, DiskWorks DEF Seen
<1>5. \A u \in Workers : ~Uploads(u, n)
  BY <1>2 DEF InUpload, Uploads, Pending
<1>6. CatalogEntry(n)' = [status |-> "absent", bytes |-> 0]
  <2>1. CatalogEntry(n)' = FileEntry(n)'
    BY <1>3, <1>5, EntryAfter DEF EntryRight
  <2> QED
    BY <1>2, <2>1 DEF FileEntry, Linked
<1>7. CatalogEntry(n) = FileEntry(n)
  BY <1>5, EntryOf DEF EntryRight
<1>8. CASE Linked(n)
  <2>1. CatalogEntry(n).status = "doomed"
    BY <1>1, <1>2, <1>7, <1>8 DEF FileEntry
  <2>2. Catalog!Erase(n)
    BY <1>4, <1>6, <2>1, AsErase
  <2> QED
    BY <2>2 DEF Catalog!Next
<1>9. CASE ~Linked(n)
  BY <1>4, <1>6, <1>7, <1>9 DEF FileEntry, Seen, Unseen
<1> QED
  BY <1>8, <1>9

(* fs::file_size fails only if there is no file.                           *)
LEMMA StepSize ==
  ASSUME CatalogInv, CatalogInv', RemovalFileSize
  PROVE  Unseen
<1> USE DEF CatalogInv, LedgerInv, IInv
<1>1. UNCHANGED <<worker, disk, crashes>> /\ ~ioError'
  BY DEF RemovalFileSize, Announced
<1>2. ASSUME NEW n \in Filenames PROVE CatalogEntry(n)' = CatalogEntry(n)
  <2>1. CASE ~Linked(removal.filename) /\ removal'.at = "idle"
    <3>1. FileEntry(n)' = FileEntry(n)
      BY <1>1, <2>1 DEF FileEntry, Linked, disk
    <3>2. \A u \in Workers : (Uploads(u, n)' <=> Uploads(u, n)) /\ file_size'[u] = file_size[u]
      BY <1>1 DEF worker, Uploads, Pending, Owns, Reserves
    <3> QED
      BY <3>1, <3>2, SameEntry
  <2>2. CASE removal'.at = "free" /\ removal'.filename = removal.filename /\ removal.at # "idle"
    BY <1>1, <2>2, SameForAll
  <2> QED
    BY <1>1, <2>1, <2>2, Typed, RemovalOutcome
<1> QED
  BY <1>1, <1>2 DEF Unseen

(* The node stops and starts again.                                        *)
LEMMA StepRestart ==
  ASSUME CatalogInv, CatalogInv', Crash
  PROVE  Catalog!Next
<1> USE DEF CatalogInv, LedgerInv, IInv, Types, TypeOK
<1>1. UNCHANGED disk /\ removal'.at = "idle" /\ crashes' = crashes + 1
  BY DEF Crash, NoRemoval
<1>2. ASSUME NEW n \in Filenames
      PROVE  CatalogEntry(n)' = IF Linked(n) THEN [status |-> "stored", bytes |-> length[folder[n]]]
                                             ELSE [status |-> "absent", bytes |-> 0]
  <2>1. \A u \in Workers : ~Uploads(u, n)'
    BY DEF Crash, Uploads, Pending, Owns, Finals
  <2>2. CatalogEntry(n)' = FileEntry(n)'
    BY <2>1, EntryAfter DEF EntryRight
  <2> QED
    BY <1>1, <2>2 DEF FileEntry, Linked, disk
<1>3. ASSUME NEW n \in Filenames
      PROVE  \/ CatalogEntry(n).status = "absent" /\ CatalogEntry(n)' = [status |-> "absent", bytes |-> 0]
             \/ CatalogEntry(n).status = "pending" /\ CatalogEntry(n)' = [status |-> "absent", bytes |-> 0]
             \/ /\ CatalogEntry(n).status = "pending"
                /\ CatalogEntry(n)'.status = "stored"
                /\ CatalogEntry(n)'.bytes <= CatalogEntry(n).bytes
             \/ /\ CatalogEntry(n).status \in {"stored", "doomed"}
                /\ CatalogEntry(n)' = [CatalogEntry(n) EXCEPT !.status = "stored"]
  <2>1. CASE \A u \in Workers : ~Uploads(u, n)
    <3>1. CatalogEntry(n) = FileEntry(n)
      BY <2>1, EntryOf DEF EntryRight
    <3> QED
      BY <1>2, <3>1 DEF FileEntry
  <2>2. CASE \E u \in Workers : Uploads(u, n)
    <3>1. PICK t \in Workers : Uploads(t, n)
      BY <2>2
    <3>2. CatalogEntry(n) = [status |-> "pending", bytes |-> file_size[t]]
      BY <3>1, EntryOf DEF EntryRight
    <3>3. Linked(n) => folder[n] = t /\ length[t] <= file_size[t]
      BY <3>1 DEF Uploads, Pending, Owns, Reserves, Files, Announced, Lengths, Received, At, Linked
    <3> QED
      BY <1>2, <3>2, <3>3
  <2> QED
    BY <2>1, <2>2
<1>4. Catalog!Restart
  BY <1>1, <1>3, DiskWorks DEF Catalog!Restart, Catalog!Is, Catalog!Absent
<1> QED
  BY <1>4 DEF Catalog!Next
-----------------------------------------------------------------------------
(* Every step with a disk that works is one of FileStore or is not seen    *)
(* there.                                                                  *)
LEMMA StepCatalog ==
  ASSUME CatalogInv, CatalogInv', [Next]_vars
  PROVE  [Catalog!Next]_(Catalog!vars)
<1>1. ASSUME NEW t \in Workers, WorkerStep(t) \/ ClientStep(t) PROVE Catalog!Next \/ Unseen
  <2>1. FreeSpace(t) => At(t, "giveback") \/ At(t, "release")
    BY DEF FreeSpace, At
  <2> QED
    BY <1>1, <2>1, StepUnseen, StepAccept, StepAbandon, StepFinish DEF WorkerStep, ClientStep
<1>2. ASSUME Request PROVE Catalog!Next \/ Unseen
  BY <1>2, StepUnseen, StepWithdraw DEF Request
<1>3. ASSUME RemovalStep PROVE Catalog!Next \/ Unseen
  <2>1. ASSUME RemovalFreeSpace PROVE Unseen
    <3>1. /\ UNCHANGED <<worker, disk, crashes>> /\ removal'.at # "idle" /\ removal.at # "idle"
          /\ removal'.filename = removal.filename
      BY <2>1 DEF RemovalFreeSpace, history, CatalogInv, LedgerInv, IInv, Types, TypeOK
    <3> QED
      BY <3>1, SameForAll DEF Unseen, CatalogInv, LedgerInv, IInv
  <2> QED
    BY <1>3, <2>1, StepSize, StepErase DEF RemovalStep
<1>4. ASSUME NEW n \in Filenames, GenerateFilesInStorage(n) PROVE Unseen
  BY <1>4, SameForAll DEF GenerateFilesInStorage, history, Unseen, CatalogInv, LedgerInv, IInv
<1>5. ASSUME UNCHANGED vars PROVE Unseen
  BY <1>5, SameForAll DEF vars, history, Unseen, CatalogInv, LedgerInv, IInv
<1>6. Catalog!Next \/ Unseen
  BY <1>1, <1>2, <1>3, <1>4, <1>5, StepRestart DEF Next
<1>7. ASSUME Unseen PROVE UNCHANGED Catalog!vars
  BY <1>7, DiskWorks DEF Unseen, Catalog!vars
<1> QED
  BY <1>6, <1>7

(* Whatever is in the folder beforehand, FileStore may start with it.      *)
LEMMA InitCatalog ==
  ASSUME OrderlyInit
  PROVE  Catalog!Init
<1> USE DEF OrderlyInit, Init
<1>1. IInv
  BY InitIInv
<1>2. ASSUME NEW n \in Filenames
      PROVE  CatalogEntry(n) = IF Linked(n) THEN [status |-> "stored", bytes |-> length[folder[n]]]
                                            ELSE [status |-> "absent", bytes |-> 0]
  <2>1. \A t \in Workers : ~Uploads(t, n)
    BY DEF Uploads, Pending, Owns
  <2>2. CatalogEntry(n) = FileEntry(n)
    BY <1>1, <2>1, EntryOf DEF EntryRight, IInv
  <2> QED
    BY <2>2 DEF FileEntry, NoRemoval
<1>3. ASSUME NEW n \in Filenames, Linked(n) PROVE length[folder[n]] \in 0 .. Word
  BY <1>1, <1>3, StorageAssumption DEF IInv, Types, TypeOK, Linked
<1>4. ASSUME NEW n \in Filenames
      PROVE  CatalogEntry(n) \in {e \in Catalog!Entries : e = Catalog!Absent \/ e.status = "stored"}
  BY <1>2, <1>3, <1>4, StorageAssumption DEF Catalog!Entries, Catalog!Absent
<1> QED
  BY <1>4 DEF Catalog!Init

(* Until its disk fails, a node used in an orderly way keeps every promise *)
(* of FileStore, however uploads, failures of uploads, removals and        *)
(* restarts interleave: a name is given to one upload, accepted only if it *)
(* fits; it ends with a file of the announced size or with nothing; nothing*)
(* but a removal takes a stored file away.                                 *)
THEOREM NodeImplementsFileStore == OrderlySpec => ImplementsFileStore
<1>1. OrderlyInit => Catalog!Init
  BY InitCatalog
<1>2. UntilFault /\ UntilFault' /\ [Next /\ Discipline']_vars => [Catalog!Next]_(Catalog!vars)
  <2> SUFFICES ASSUME UntilFault, UntilFault', [Next /\ Discipline']_vars PROVE [Catalog!Next]_(Catalog!vars)
    OBVIOUS
  <2>1. LedgerInv /\ LedgerInv' /\ [Next]_vars
    BY DEF UntilFault
  <2>2. CASE ioError'
    <3>1. ioError' \in BOOLEAN
      BY <2>1 DEF LedgerInv, IInv, Types, TypeOK
    <3>2. ioError' = TRUE
      BY <2>2, <3>1
    <3> QED
      BY <3>2 DEF Catalog!Next, Catalog!Fault
  <2>3. CASE ~ioError'
    <3>1. ~ioError
      BY <2>1, <2>3, FaultStays, Zenon
    <3>2. CatalogInv /\ CatalogInv'
      BY <2>1, <2>3, <3>1, Zenon DEF UntilFault, CatalogInv
    <3> QED
      BY <2>1, <3>2, StepCatalog
  <2> QED
    BY <2>2, <2>3
<1>3. OrderlySpec => []UntilFault
  BY CatalogInvariant
<1> QED
  BY <1>1, <1>2, <1>3, PTL DEF OrderlySpec, ImplementsFileStore, Catalog!Spec
=============================================================================
