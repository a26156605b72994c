------------------------------ MODULE Sockets ------------------------------
(***************************************************************************)
(* Who owns a descriptor. The threads of a process, a server or a client,  *)
(* open sockets and files and share one table of descriptors, in which the *)
(* system always gives out the lowest free number: a number that is closed *)
(* is somebody else's soon. A socket object closes its descriptor when it  *)
(* is destroyed, unless it says `closed', which is how an object from which*)
(* another was moved lets go of it.                                        *)
(*                                                                         *)
(* A tcp_socket that is only declared has neither a descriptor nor the flag*)
(* set (tcp_socket() = default); its destructor then does what the memory  *)
(* happens to say. A udp_socket's constructor makes them 0 and false.      *)
(*                                                                         *)
(* A thread has at most three objects: `first' is the socket it waits on   *)
(* (a server's listening tcp_sock, a client's udp sock), `second' the TCP  *)
(* connection, `stream' the file.                                          *)
(***************************************************************************)
EXTENDS Integers, FiniteSetsExt

CONSTANTS
  Threads,
  MaxDescriptor,   \* the process may open 0 .. MaxDescriptor
  MainSockets,     \* what main has opened before: recv_socket, send_socket
  Main, Bad, Unset

Descriptors == 0 .. MaxDescriptor

ASSUME SocketsAssumption ==
  /\ MaxDescriptor \in Nat
  /\ MainSockets \subseteq Descriptors
  /\ Main \notin Threads
  /\ {Bad, Unset} \cap Descriptors = {} /\ Bad # Unset

Objects     == {"first", "second", "stream"}
ServerKinds == {"download", "upload"}      \* handle_file_request, handle_upload_request
ClientKinds == {"fetch", "store"}          \* Client::fetch, Client::upload
NoObject    == [fd |-> Bad, closed |-> "yes"]
Declared    == [fd |-> Unset, closed |-> "unset"]
Free        == <<Main, "free">>

VARIABLES
  kind,      \* what a thread runs
  at,
  object,    \* fd, and closed: yes, no or unset
  table,     \* which object a descriptor was opened for
  failed     \* history: accept or getsockname has failed

sockets_vars == <<kind, at, object, table, failed>>

SocketsInit ==
  /\ kind \in [Threads -> ServerKinds] \cup [Threads -> ClientKinds]
  /\ at = [t \in Threads |-> IF kind[t] = "store" THEN "discover" ELSE "start"]
  /\ object = [t \in Threads |-> [o \in Objects |-> NoObject]]
  /\ table = [d \in Descriptors |-> IF d \in MainSockets THEN <<Main, "main">> ELSE Free]
  /\ failed = FALSE

At(t, p)    == at[t] = p
GoTo(t, p)  == at' = [at EXCEPT ![t] = p]
IsServer(t) == kind[t] \in ServerKinds

Unused     == {d \in Descriptors : table[d] = Free}
Lowest     == Min(Unused)
Open(t, o) == table' = [table EXCEPT ![Lowest] = <<t, o>>]
Set(t, o, fd, closed) == object' = [object EXCEPT ![t][o] = [fd |-> fd, closed |-> closed]]
-----------------------------------------------------------------------------
(***************************************************************************)
(* create_socket. An object declared before the call is all that a failure *)
(* leaves; next is where the thread goes if there is none, out if there is.*)
(***************************************************************************)
LeftUnset == "unset"                \* mutant: closed is not set
NotClosed == "no"

CreateTcp(t, o, next, out) ==
  \/ Set(t, o, Bad, "unset") /\ GoTo(t, out) /\ UNCHANGED <<table, failed>>
  \/ /\ Unused # {}
     /\ Open(t, o)
     /\ \/ Set(t, o, Lowest, NotClosed) /\ GoTo(t, next) /\ UNCHANGED failed
        \/ Set(t, o, Lowest, "unset") /\ GoTo(t, out) /\ failed' = TRUE   \* getsockname

CreateUdp(t, o, next, out) ==
  \/ Set(t, o, Bad, "no") /\ GoTo(t, out) /\ UNCHANGED <<table, failed>>
  \/ /\ Unused # {}
     /\ Open(t, o)
     /\ Set(t, o, Lowest, "no")
     /\ GoTo(t, next) \/ GoTo(t, out)
     /\ UNCHANGED failed

(* silent_discover: a socket for as long as the window for answers is open.*)
Discover(t) ==
  /\ At(t, "discover")
  /\ CreateUdp(t, "first", "discovered", "discovered")
  /\ UNCHANGED kind

Start(t) ==
  /\ At(t, "start")
  /\ IF IsServer(t) THEN CreateTcp(t, "first", "waiting", "close first")
                    ELSE CreateUdp(t, "first", "waiting", "close first")
  /\ UNCHANGED kind

(* bind, listen, send or select fails, or nobody comes or answers.         *)
GiveUp(t) ==
  /\ At(t, "waiting")
  /\ GoTo(t, "close first")
  /\ UNCHANGED <<kind, object, table, failed>>
-----------------------------------------------------------------------------
(***************************************************************************)
(* The destructor.                                                         *)
(***************************************************************************)
Closings(x)    == IF x.closed = "unset" THEN BOOLEAN ELSE {x.closed = "no"}
Numbers(x)     == IF x.fd = Unset THEN Descriptors ELSE {x.fd}
Closed(tab, d) == [e \in Descriptors |-> IF e = d THEN Free ELSE tab[e]]

(* The tables that the destruction of x may leave of tab.                  *)
Destroyed(x, tab) ==
  {IF c THEN Closed(tab, d) ELSE tab : c \in Closings(x), d \in Numbers(x)}

Destroy(t, o, next) ==
  /\ table' \in Destroyed(object[t][o], table)
  /\ object' = [object EXCEPT ![t][o] = NoObject]
  /\ GoTo(t, next)
  /\ UNCHANGED <<kind, failed>>

Forgotten == "returned"             \* mutant: the first object is not destroyed
Rest      == "close first"

(* The objects of a thread go in the reverse order of their declarations.  *)
Leave(t) ==
  \/ At(t, "close stream") /\ Destroy(t, "stream", "close second")
  \/ At(t, "close second") /\ Destroy(t, "second", Rest)
  \/ At(t, "close first") /\ Destroy(t, "first", "returned")
  \/ At(t, "discovered") /\ \E next \in {"start", "returned"} : Destroy(t, "first", next)
-----------------------------------------------------------------------------
(***************************************************************************)
(* The connection: a client creates its socket, a server gets it from      *)
(* accept, which makes a new object and moves it to the thread's.          *)
(***************************************************************************)
Connect(t) ==
  /\ At(t, "waiting")
  /\ ~IsServer(t)
  /\ CreateTcp(t, "second", "connected", "close second")
  /\ UNCHANGED kind

KeepsIt(x)  == x                                 \* mutant: no fake_close
LetGo(x)    == [x EXCEPT !.closed = "yes"]

Accept(t) ==
  LET new == [fd |-> Lowest, closed |-> "no"] IN
  /\ At(t, "waiting")
  /\ IsServer(t)
  /\ Unused # {}
  /\ object' = [object EXCEPT ![t]["second"] = new]
  /\ table' \in Destroyed(LetGo(new), [table EXCEPT ![Lowest] = <<t, "second">>])
  /\ GoTo(t, "connected")
  /\ UNCHANGED <<kind, failed>>

(* accept fails, or the getsockname of wrap_socket does, and then the      *)
(* descriptor is nobody's. The upload goes on; both destroy a socket that  *)
(* is only declared, wrap_socket's failure two of them.                    *)
AcceptFails(t) ==
  /\ At(t, "waiting")
  /\ IsServer(t)
  /\ failed' = TRUE
  /\ object' = [object EXCEPT ![t]["second"] = Declared]
  /\ \/ UNCHANGED table
     \/ /\ Unused # {}
        /\ table' \in Destroyed(Declared, [table EXCEPT ![Lowest] = <<t, "second">>])
  /\ GoTo(t, IF kind[t] = "upload" THEN "connected" ELSE "close second")
  /\ UNCHANGED kind

(* The file, which is opened or not; or connect has failed.                *)
OpenStream(t) ==
  /\ At(t, "connected")
  /\ \/ /\ Unused # {}
        /\ Open(t, "stream")
        /\ Set(t, "stream", Lowest, "no")
        /\ GoTo(t, "copying")
     \/ GoTo(t, "close second") /\ UNCHANGED <<object, table>>
  /\ UNCHANGED <<kind, failed>>

EndOfCopy(t) ==
  /\ At(t, "copying")
  /\ GoTo(t, "close stream")
  /\ UNCHANGED <<kind, object, table, failed>>
-----------------------------------------------------------------------------
Step(t) ==
  \/ Discover(t)
  \/ Start(t)
  \/ GiveUp(t)
  \/ Leave(t)
  \/ Connect(t)
  \/ Accept(t)
  \/ AcceptFails(t)
  \/ OpenStream(t)
  \/ EndOfCopy(t)

SocketsNext == \E t \in Threads : Step(t)

SocketsSpec == SocketsInit /\ [][SocketsNext]_sockets_vars
-----------------------------------------------------------------------------
(* Types; and a thread that returns leaves no object.                      *)
SocketsTypeOK ==
  /\ kind \in [Threads -> ServerKinds \cup ClientKinds]
  /\ at \in [Threads -> {"discover", "discovered", "start", "waiting", "connected", "copying",
                         "close stream", "close second", "close first", "returned"}]
  /\ object \in [Threads -> [Objects -> [fd : Descriptors \cup {Bad, Unset},
                                         closed : {"yes", "no", "unset"}]]]
  /\ table \in [Descriptors -> ((Threads \cup {Main}) \X (Objects \cup {"main", "free"}))]
  /\ failed \in BOOLEAN
  /\ \A t \in Threads, o \in Objects :
       at[t] \in {"discover", "start", "returned"} => object[t][o] = NoObject

Owns(t, o, d) == object[t][o].fd = d /\ object[t][o].closed = "no"

(* The descriptor that an object uses and will close is the one that was   *)
(* opened for it, and main's sockets stay open: no thread ever closes,     *)
(* reads or writes what belongs to another, though numbers are used again  *)
(* and sockets are moved; as long as accept and getsockname do not fail.   *)
OwnDescriptors ==
  ~failed =>
    /\ \A t \in Threads, o \in Objects, d \in Descriptors :
         Owns(t, o, d) => table[d] = <<t, o>>
    /\ \A d \in MainSockets : table[d] = <<Main, "main">>

(* Every descriptor that is open has an owner who will close it, whichever *)
(* calls have failed (but those), also at the limit of the process: when   *)
(* the threads have returned, only main's are left.                        *)
NothingLeaks ==
  ~failed =>
    \A d \in Descriptors \ MainSockets :
      table[d] # Free => \E t \in Threads, o \in Objects : Owns(t, o, d)
=============================================================================
