------------------------------- MODULE Client -------------------------------
(***************************************************************************)
(* The threads of one client process and what they share: the generator of *)
(* the numbers that requests carry, which nothing guards, the file that the*)
(* fetches of one name write, and the process itself, which ends with the  *)
(* command exit, or with an exception that no thread catches, whatever the *)
(* other threads are doing.                                                *)
(*                                                                         *)
(* One name. The servers have copies of it that need not be the same file. *)
(* What a single fetch, upload or search does alone is in the modules      *)
(* Download, Upload and Search.                                            *)
(***************************************************************************)
EXTENDS Integers, Sequences, FiniteSets

CONSTANTS
  Fetches, Uploads,    \* detached threads
  Main,                \* the thread that reads commands
  Servers,
  Copies,              \* the files a server may have under the name
  size(_),             \* of a copy, in blocks
  MaxSearches,         \* (bound)
  MaxDraws,            \* (bound) numbers drawn
  None

ASSUME ClientAssumption ==
  /\ \A c \in Copies : size(c) \in Nat
  /\ MaxSearches \in Nat /\ MaxDraws \in Nat
  /\ None \notin Servers \cup Fetches
  /\ Fetches \cap Uploads = {} /\ Main \notin Fetches \cup Uploads

Threads == Fetches \cup Uploads \cup {Main}

VARIABLES
  running,       \* the process
  at,            \* where a thread is
  generator,     \* the position in the sequence that mt19937_64 produces
  position,      \* what a thread has read of it, while it draws
  raced,         \* history: a position was stored over a newer one
  numbers,       \* of the searches whose request went out
  results,       \* last_search_results of the name: a server, or None
  answering,     \* history: the search that the answer in results was for
  copy,          \* what each server has
  server,        \* the one a fetch asks
  received,      \* blocks a fetch has read from its connection
  written,       \* blocks that its stream has passed on to the system
  out,           \* the output file
  opener,        \* history: the last fetch to open it
  mixed,         \* history: another copy was written into it since
  complete       \* history: the fetches that had their copy whole and on disk

sequence == <<generator, position, raced>>
search   == <<numbers, results, answering>>
fetch    == <<server, received, written>>
output   == <<out, opener, mixed, complete>>
vars     == <<running, at, sequence, search, copy, fetch, output>>

Init ==
  /\ running = TRUE
  /\ at = [t \in Threads |-> "idle"]
  /\ generator = 0
  /\ position = [t \in Threads |-> 0]
  /\ raced = FALSE
  /\ numbers = <<>> /\ results = None /\ answering = 0
  /\ copy \in [Servers -> Copies]
  /\ server = [f \in Fetches |-> None]
  /\ received = [f \in Fetches |-> 0]
  /\ written = [f \in Fetches |-> 0]
  /\ out = <<>> /\ opener = None /\ mixed = FALSE /\ complete = {}

At(t, p)   == running /\ at[t] = p
GoTo(t, p) == at' = [at EXCEPT ![t] = p]
-----------------------------------------------------------------------------
(***************************************************************************)
(* Commands.                                                               *)
(***************************************************************************)
Search ==
  /\ At(Main, "idle")
  /\ Len(numbers) < MaxSearches
  /\ GoTo(Main, "read generator")
  /\ results' = None
  /\ answering' = 0
  /\ UNCHANGED <<running, sequence, numbers, copy, fetch, output>>

Unlisted == TRUE                    \* mutant: the name is not looked for in the results
Listed   == results # None

Fetch(f) ==
  /\ At(Main, "idle")
  /\ At(f, "idle")
  /\ Listed
  /\ server' = [server EXCEPT ![f] = results]
  /\ GoTo(f, "read generator")
  /\ UNCHANGED <<running, sequence, search, copy, received, written, output>>

Upload(u) ==
  /\ At(Main, "idle")
  /\ At(u, "idle")
  /\ GoTo(u, "read generator")
  /\ UNCHANGED <<running, sequence, search, copy, fetch, output>>

(* main returns, and with it the process.                                  *)
Exit ==
  /\ At(Main, "idle")
  /\ running' = FALSE
  /\ UNCHANGED <<at, sequence, search, copy, fetch, output>>
-----------------------------------------------------------------------------
(***************************************************************************)
(* generate_message_sequence. Two threads in it are a data race: the       *)
(* position is loaded, used and stored, and a store may undo another's.    *)
(***************************************************************************)
ReadGenerator(t) ==
  /\ At(t, "read generator")
  /\ generator < MaxDraws
  /\ position' = [position EXCEPT ![t] = generator]
  /\ GoTo(t, "store generator")
  /\ UNCHANGED <<running, generator, raced, search, copy, fetch, output>>

(* The request goes out, or a socket call fails and the thread is through. *)
AfterDraw(t) ==
  IF t = Main THEN {"receive", "idle"}
  ELSE IF t \in Fetches THEN {"create", "returned"}
  ELSE {"ask"}

StoreGenerator(t) ==
  /\ At(t, "store generator")
  /\ generator' = position[t] + 1
  /\ position' = [position EXCEPT ![t] = 0]
  /\ raced' = (raced \/ generator # position[t])
  /\ \E p \in AfterDraw(t) :
       /\ GoTo(t, p)
       /\ numbers' = IF p = "receive" THEN Append(numbers, position[t]) ELSE numbers
  /\ UNCHANGED <<running, results, answering, copy, fetch, output>>
-----------------------------------------------------------------------------
(***************************************************************************)
(* Main: the window of a search. Any server may answer any search, also an *)
(* earlier one, at any time and more than once.                            *)
(***************************************************************************)
AnyNumber(k) == TRUE                \* mutant: the number is not compared
Expected(k)  == numbers[k] = numbers[Len(numbers)]

ReceiveSearchRespond(k, s) ==
  /\ At(Main, "receive")
  /\ k \in 1 .. Len(numbers)
  /\ Expected(k)
  /\ results' = s
  /\ answering' = k
  /\ UNCHANGED <<running, at, sequence, numbers, copy, fetch, output>>

WindowEnds ==
  /\ At(Main, "receive")
  /\ GoTo(Main, "idle")
  /\ UNCHANGED <<running, sequence, search, copy, fetch, output>>
-----------------------------------------------------------------------------
(***************************************************************************)
(* An upload draws a number for its discovery and for each request. It     *)
(* looks up the size of its file after its discovery: if the file is gone  *)
(* by then, the exception ends the process.                                *)
(***************************************************************************)
UploadContinues(u) ==
  /\ At(u, "ask")
  /\ \/ GoTo(u, "read generator") /\ UNCHANGED running
     \/ GoTo(u, "returned") /\ UNCHANGED running
     \/ running' = FALSE /\ UNCHANGED at
  /\ UNCHANGED <<sequence, search, copy, fetch, output>>
-----------------------------------------------------------------------------
(***************************************************************************)
(* A fetch: the connection, the output file, the copying.                  *)
(***************************************************************************)
KeepsOld  == out                    \* mutant: the stream does not empty the file
Truncated == <<>>

(* The port comes, the connection is made and the ofstream empties the file*)
(* it opens, whoever else writes it; or one of these fails.                *)
CreateOut(f) ==
  /\ At(f, "create")
  /\ \/ /\ GoTo(f, "copy")
        /\ out' = Truncated
        /\ opener' = f
        /\ mixed' = FALSE
     \/ /\ GoTo(f, "returned")
        /\ UNCHANGED <<out, opener, mixed>>
  /\ UNCHANGED <<running, sequence, search, copy, fetch, complete>>

Stream(f) == copy[server[f]]

(* A stream writes at its own position, whatever others do to the file; a  *)
(* gap reads as zeros.                                                     *)
Written(f, upto) ==
  LET new(k) == k \in (written[f] + 1) .. upto IN
  [k \in 1 .. (IF new(upto) /\ upto > Len(out) THEN upto ELSE Len(out)) |->
     IF new(k) THEN [copy |-> Stream(f), block |-> k]
     ELSE IF k <= Len(out) THEN out[k] ELSE [copy |-> None, block |-> 0]]

Write(f, upto) ==
  /\ out' = Written(f, upto)
  /\ mixed' = (mixed \/ (upto > written[f] /\ Stream(f) # Stream(opener)))

(* The stream may keep in its buffer what it is given.                     *)
ReadBlock(f) ==
  /\ At(f, "copy")
  /\ received[f] < size(Stream(f))
  /\ received' = [received EXCEPT ![f] = @ + 1]
  /\ \E upto \in written[f] .. received'[f] :
       Write(f, upto) /\ written' = [written EXCEPT ![f] = upto]
  /\ UNCHANGED <<running, at, sequence, search, copy, server, opener, complete>>

(* The connection ends, soon or late, or breaks. Success is reported here. *)
EndOfStream(f) ==
  /\ At(f, "copy")
  /\ GoTo(f, "close")
  /\ UNCHANGED <<running, sequence, search, copy, fetch, output>>

(* The stream's destructor writes the rest; nobody looks whether it can.   *)
CloseOut(f) ==
  /\ At(f, "close")
  /\ GoTo(f, "returned")
  /\ received' = [received EXCEPT ![f] = 0]
  /\ written' = [written EXCEPT ![f] = 0]
  /\ \/ /\ Write(f, received[f])
        /\ complete' = IF received[f] = size(Stream(f)) THEN complete \cup {f} ELSE complete
     \/ UNCHANGED <<out, mixed, complete>>
  /\ UNCHANGED <<running, sequence, search, copy, server, opener>>
-----------------------------------------------------------------------------
FetchStep(f) ==
  \/ CreateOut(f)
  \/ ReadBlock(f)
  \/ EndOfStream(f)
  \/ CloseOut(f)

Next ==
  \/ Search
  \/ \E f \in Fetches : Fetch(f)
  \/ \E u \in Uploads : Upload(u)
  \/ Exit
  \/ \E t \in Threads : ReadGenerator(t) \/ StoreGenerator(t)
  \/ \E k \in 1 .. MaxSearches, s \in Servers : ReceiveSearchRespond(k, s)
  \/ WindowEnds
  \/ \E u \in Uploads : UploadContinues(u)
  \/ \E f \in Fetches : FetchStep(f)

Spec == Init /\ [][Next]_vars
-----------------------------------------------------------------------------
Points ==
  {"idle", "read generator", "store generator", "receive", "ask",
   "create", "copy", "close", "returned"}

(* Types; in particular a fetch thread has a server to ask.                *)
TypeOK ==
  /\ running \in BOOLEAN
  /\ at \in [Threads -> Points]
  /\ generator \in Nat
  /\ position \in [Threads -> Nat]
  /\ raced \in BOOLEAN
  /\ numbers \in Seq(Nat)
  /\ results \in Servers \cup {None}
  /\ answering \in Nat
  /\ copy \in [Servers -> Copies]
  /\ server \in [Fetches -> Servers \cup {None}]
  /\ \A f \in Fetches : at[f] # "idle" => server[f] \in Servers
  /\ received \in [Fetches -> Nat] /\ written \in [Fetches -> Nat]
  /\ \A f \in Fetches : written[f] <= received[f]
  /\ out \in Seq([copy : Copies \cup {None}, block : Nat])
  /\ opener \in Fetches \cup {None}
  /\ mixed \in BOOLEAN
  /\ complete \in SUBSET Fetches

(* The thread that opened the output file last decides what is in it. If   *)
(* its copy came whole and reached the disk, the file is that copy and no  *)
(* more, whatever other fetches wrote before and meanwhile, in whichever   *)
(* order, and whenever the process ended; unless a server with another copy*)
(* had a fetch that went on writing.                                       *)
LastFetchWhole ==
  opener \in complete /\ ~mixed =>
    out = [k \in 1 .. size(Stream(opener)) |-> [copy |-> Stream(opener), block |-> k]]

(* What the user is offered to fetch comes from an answer to the last      *)
(* search, however late other answers come, as long as no two threads were *)
(* in the generator at once in a way that undid a draw.                    *)
OwnResults == results # None /\ ~raced => answering = Len(numbers)
=============================================================================
