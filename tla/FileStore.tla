----------------------------- MODULE FileStore -----------------------------
(***************************************************************************)
(* What one storage node promises about its files, without threads, locks, *)
(* sockets or a directory: a catalogue that says of every filename whether *)
(* the node holds a file of that name and how many bytes it charges for it.*)
(*                                                                         *)
(*   absent   the node has nothing under the name;                         *)
(*   pending  an upload of the announced size was accepted and is running; *)
(*   stored   the whole file is there and is offered to clients;           *)
(*   doomed   the file was deleted, its bytes are not gone yet.            *)
(*                                                                         *)
(* Module Storage, the model of server.cpp, is checked to implement it.    *)
(***************************************************************************)
EXTENDS Integers, Units

CONSTANTS
  Filenames,    \* the names files can have
  Sizes,        \* the sizes an upload can announce
  MaxBytes,     \* more than the size of any file
  MaxSpace      \* the space the node provides

VARIABLES
  catalog,
  restarts,     \* how often the node has stopped and started again
  faulty        \* a call to the disk has failed

vars == <<catalog, restarts, faulty>>

Absent     == [status |-> "absent", bytes |-> 0]
Entries    == [status : {"absent", "pending", "stored", "doomed"}, bytes : 0 .. MaxBytes]
Is(n, st)  == catalog[n].status = st

(* The bytes the node has promised or given to files it offers.            *)
Committed ==
  [n \in Filenames |-> IF Is(n, "pending") \/ Is(n, "stored") THEN catalog[n].bytes ELSE 0]

Init ==
  /\ catalog \in [Filenames -> {e \in Entries : e = Absent \/ e.status = "stored"}]
  /\ restarts = 0
  /\ faulty = FALSE

(* An upload is accepted: the name is free and the file fits in what the   *)
(* files already offered or promised leave of the node's space.            *)
Accept(n, s) ==
  /\ Is(n, "absent")
  /\ Total(Committed, MaxBytes) + s <= MaxSpace
  /\ catalog' = [catalog EXCEPT ![n] = [status |-> "pending", bytes |-> s]]
  /\ UNCHANGED <<restarts, faulty>>

(* The accepted upload delivers every byte it announced.                   *)
Finish(n) ==
  /\ Is(n, "pending")
  /\ catalog' = [catalog EXCEPT ![n].status = "stored"]
  /\ UNCHANGED <<restarts, faulty>>

(* The accepted upload fails and leaves nothing behind.                    *)
Abandon(n) ==
  /\ Is(n, "pending")
  /\ catalog' = [catalog EXCEPT ![n] = Absent]
  /\ UNCHANGED <<restarts, faulty>>

(* A stored file is taken out of the catalogue, then off the disk.         *)
Withdraw(n) ==
  /\ Is(n, "stored")
  /\ catalog' = [catalog EXCEPT ![n].status = "doomed"]
  /\ UNCHANGED <<restarts, faulty>>

Erase(n) ==
  /\ Is(n, "doomed")
  /\ catalog' = [catalog EXCEPT ![n] = Absent]
  /\ UNCHANGED <<restarts, faulty>>

(* The node stops and starts again: it offers whatever its directory holds,*)
(* a deleted file that was still on disk and the beginning of a running    *)
(* upload included.                                                        *)
Restart ==
  /\ restarts' = restarts + 1
  /\ UNCHANGED faulty
  /\ DOMAIN catalog' = Filenames
  /\ \A n \in Filenames :
       \/ Is(n, "absent") /\ catalog'[n] = Absent
       \/ Is(n, "pending") /\ catalog'[n] = Absent
       \/ /\ Is(n, "pending")
          /\ catalog'[n].status = "stored"
          /\ catalog'[n].bytes <= catalog[n].bytes
       \/ /\ catalog[n].status \in {"stored", "doomed"}
          /\ catalog'[n] = [catalog[n] EXCEPT !.status = "stored"]

(* The promises end with the first fault of the disk: what the catalogue   *)
(* says from then on is open.                                              *)
Fault == faulty' = TRUE

Next ==
  \/ Fault
  \/ \E n \in Filenames :
       \/ \E s \in Sizes : Accept(n, s)
       \/ Finish(n)
       \/ Abandon(n)
       \/ Withdraw(n)
       \/ Erase(n)
  \/ Restart

Spec == Init /\ [][Next]_vars
=============================================================================
