------------------------- MODULE CommunicationProofs -------------------------
(***************************************************************************)
(* Proofs about Protocol and about Sockets: what a datagram says when it is*)
(* read, for any nodes, names, lengths and ports, and who closes which     *)
(* descriptor, for any threads and any size of the table.                  *)
(***************************************************************************)
EXTENDS Protocol, Sockets, SequenceTheorems, NaturalsInduction, WellFoundedInduction, TLAPS
-----------------------------------------------------------------------------
(***************************************************************************)
(* Strings, lengths and byte orders, for every value they can have.        *)
(***************************************************************************)
Text == {s \in [word : Words \cup {None}, length : Nat] : s.length = 0 => s = Empty}

(* strncpy and recvfrom take the beginning of a string.                    *)
LEMMA PrefixProperties ==
  ASSUME NEW s \in Text, NEW k \in Int
  PROVE  /\ Prefix(s, k) \in Text
         /\ Prefix(s, k).length <= s.length
         /\ Prefix(s, k).length <= IF k < 0 THEN 0 ELSE k
         /\ k >= s.length => Prefix(s, k) = s
<1>1. s \in [word : Words \cup {None}, length : Nat] /\ (s.length = 0 => s = Empty) /\ s.length \in Nat
  BY DEF Text
<1>2. Empty \in Text /\ Empty.length = 0
  BY DEF Text, Empty
<1>3. CASE k <= 0 \/ s.length = 0
  BY <1>1, <1>2, <1>3 DEF Prefix
<1>4. CASE k > 0 /\ s.length > 0
  <2>1. Prefix(s, k) = [s EXCEPT !.length = IF k < s.length THEN k ELSE s.length]
    BY <1>1, <1>4 DEF Prefix
  <2>2. Prefix(s, k).length = IF k < s.length THEN k ELSE s.length
    BY <1>1, <2>1
  <2>3. Prefix(s, k) \in [word : Words \cup {None}, length : Nat]
    BY <1>1, <1>4, <2>1
  <2> QED
    BY <1>1, <1>4, <2>1, <2>2, <2>3 DEF Text
<1> QED
  BY <1>1, <1>3, <1>4

(* A uint16_t wraps around at 65536.                                       *)
LEMMA UInt16Properties ==
  ASSUME NEW x \in Nat
  PROVE  /\ UInt16(x) \in Nat /\ UInt16(x) < 65536 
         /\ x < 65536 => UInt16(x) = x
         /\ x >= 65536 /\ x < 131072 => UInt16(x) = x - 65536
BY SMT DEF UInt16

(* Header and data fill the largest datagram exactly.                      *)
LEMMA HeaderProperties ==
  ASSUME NEW command
  PROVE  /\ Header(command) \in Nat /\ Header(command) >= 18 /\ Header(command) <= 26
         /\ MaxData(command) \in Nat /\ MaxData(command) >= 65481 /\ MaxData(command) <= 65489
         /\ Header(command) + MaxData(command) = 65507
  BY DEF Header, MaxData, max_complex_data_size, max_simple_data_size,
         simple_message_no_data_size, complex_message_no_data_size

(* A length that wraps around is less than the header; one that does not   *)
(* is the header's and the string's, and what goes out then is whole.      *)
LEMMA WireLengthProperties ==
  ASSUME NEW command, NEW length \in Nat
  PROVE  /\ WireLength(command, length) \in Nat /\ WireLength(command, length) < 65536
         /\ length < 65536 /\ WireLength(command, length) >= Header(command) =>
              WireLength(command, length) = Header(command) + length
         /\ length <= MaxData(command) => WireLength(command, length) = Header(command) + length
<1> DEFINE h == Header(command)
           l == UInt16(length)
<1>1. h \in Nat /\ h >= 18 /\ h <= 26 /\ MaxData(command) \in Nat /\ h + MaxData(command) = 65507
  BY HeaderProperties, SMT
<1>2. l \in Nat /\ l < 65536 /\ (length < 65536 => l = length)
  BY UInt16Properties, SMT
<1> DEFINE s == h + l
<1> HIDE DEF h, l
<1>3. s \in Nat /\ s < 131072
  BY <1>1, <1>2, SMT
<1> DEFINE u == UInt16(s)
<1> HIDE DEF s
<1>4. u \in Nat /\ u < 65536 /\ (s < 65536 => u = s) /\ (s >= 65536 => u = s - 65536)
  BY <1>3, UInt16Properties, SMT
<1>5. WireLength(command, length) = u
  BY DEF WireLength, h, l, s
<1> HIDE DEF u
<1>7. (length < 65536 /\ u >= h => u = h + length) /\ (length <= MaxData(command) => u = h + length)
  BY <1>1, <1>2, <1>4, SMT DEF s
<1> QED
  BY <1>4, <1>5, <1>7, SMT DEF h

(* Lengths that a uint16_t has, and lengths that a message has room for.   *)
Short(length)         == length < 65536
Fits(command, length) == length <= MaxData(command)

(* What a datagram says of the string, and when it says all of it.         *)
Says(d, command, number, string, length, param) ==
  /\ d.data \in Text /\ Fits(command, d.data.length)
  /\ d.size = WireLength(command, length)
  /\ d.command = command /\ d.message_seq = BigEndian(number) /\ d.param = param
  /\ /\ length = string.length /\ Short(length)
     /\ WireLength(command, length) >= Header(command) /\ GoesOut(command, length)
     => d.data = string
  /\ length = 0 => d.data = Empty

(* A string that fits in a message arrives as it is.                       *)
LEMMA DatagramProperties ==
  ASSUME NEW command, NEW number, NEW string \in Text, NEW length \in Nat, NEW param
  PROVE  Says(Datagram(command, number, string, length, param),
              command, number, string, length, param)
<1> DEFINE wire  == WireLength(command, length)
           h     == Header(command)
           m     == MaxData(command)
           whole == Prefix(string, m)
           k     == wire - h
           d     == Datagram(command, number, string, length, param)
<1>0. /\ d.data = Prefix(whole, k) /\ d.size = wire
      /\ d.command = command /\ d.message_seq = BigEndian(number) /\ d.param = param
  BY DEF Datagram
<1>1. /\ wire \in Nat /\ h \in Nat /\ m \in Nat /\ h >= 18 /\ m >= 65481 /\ h + m = 65507
      /\ length < 65536 /\ wire >= h => wire = h + length
      /\ length <= m => wire = h + length
  BY WireLengthProperties, HeaderProperties, SMT
<1>2. GoesOut(command, length) <=> wire <= 65507
  BY DEF GoesOut, MaxDatagram
<1> HIDE DEF wire, h, m, d
<1>3. whole \in Text /\ (m >= string.length => whole = string) /\ whole.length <= m
  <2>1. m \in Int /\ ~(m < 0)
    BY <1>1, SMT
  <2> QED
    BY <2>1, PrefixProperties
<1> HIDE DEF whole
<1>4. k \in Int /\ (length = 0 => k = 0)
  BY <1>1, SMT
<1>5. Prefix(whole, k) \in Text /\ Prefix(whole, k).length <= whole.length
      /\ (k >= whole.length => Prefix(whole, k) = whole)
  BY <1>3, <1>4, PrefixProperties, SMT
<1>6. length = 0 => Prefix(whole, k) = Empty
  BY <1>4, SMT DEF Prefix
<1>7. Prefix(whole, k).length \in Nat /\ whole.length \in Nat
  BY <1>3, <1>5, SMT DEF Text
<1>8. ASSUME length = string.length, length < 65536, wire >= h, wire <= 65507
      PROVE  Prefix(whole, k) = string
  <2>1. k = length /\ length <= m
    BY <1>1, <1>8, SMT
  <2>2. whole = string
    BY <1>3, <1>8, <2>1, SMT
  <2> QED
    BY <1>5, <1>8, <2>1, <2>2, SMT
<1>9. Prefix(whole, k).length <= m
  BY <1>1, <1>3, <1>5, <1>7, SMT
<1> HIDE DEF k
<1>10. d.data = string \/ ~(length = string.length /\ length < 65536 /\ wire >= h /\ wire <= 65507)
  BY <1>0, <1>8
<1> QED
  BY <1>0, <1>1, <1>2, <1>5, <1>6, <1>9, <1>10, SMT DEF wire, h, m, d, Short, Fits, Says

(* Each conversion of byte order undoes itself.                            *)
LEMMA SwapProperties ==
  ASSUME NEW n, NEW port
  PROVE  /\ BigEndian(n) = [value |-> n, swapped |-> {64}]
         /\ Swap(64, BigEndian(n)) = Integer(n)
         /\ PortParam(port) = [value |-> port, swapped |-> {64}]
         /\ Swap(16, Swap(64, PortParam(port))) = GetPort(port)
<1>1. ASSUME NEW w, NEW v, NEW s, NEW u, u = IF w \in s THEN s \ {w} ELSE s \cup {w}
      PROVE  Swap(w, [value |-> v, swapped |-> s]) = [value |-> v, swapped |-> u]
  BY <1>1, SMT DEF Swap
<1>2. ASSUME NEW w, NEW v
      PROVE  /\ Swap(w, [value |-> v, swapped |-> {}]) = [value |-> v, swapped |-> {w}]
             /\ Swap(w, [value |-> v, swapped |-> {w}]) = [value |-> v, swapped |-> {}]
  <2>1. {w} = IF w \in {} THEN {} \ {w} ELSE {} \cup {w}
    OBVIOUS
  <2>2. {} = IF w \in {w} THEN {w} \ {w} ELSE {w} \cup {w}
    OBVIOUS
  <2> QED
    BY <1>1, <2>1, <2>2
<1>3. BigEndian(n) = [value |-> n, swapped |-> {64}] /\ Swap(64, BigEndian(n)) = Integer(n)
  BY <1>2 DEF BigEndian, Integer
<1>4. GetPort(port) = [value |-> port, swapped |-> {16}]
      /\ PortParam(port) = [value |-> port, swapped |-> {64}]
  BY <1>2 DEF GetPort, PortParam, Integer
<1>5. Swap(64, PortParam(port)) = [value |-> port, swapped |-> {}]
  BY <1>2, <1>4
<1>6. Swap(16, Swap(64, PortParam(port))) = GetPort(port)
  BY <1>2, <1>4, <1>5
<1> QED
  BY <1>3, <1>4, <1>6
-----------------------------------------------------------------------------
(***************************************************************************)
(* The invariant. Every request is what some user may have asked; a node   *)
(* has acted on what arrived of one; and every answer, however late, is one*)
(* to the request it carries the number of, with the port of a socket that *)
(* was opened for that request and the name that its thread had read.      *)
(***************************************************************************)
Asked      == 1 .. Len(requests)
RequestSet == [kind : Kinds, name : Text, size : Sizes, node : Nodes \cup {None}, out : BOOLEAN]

Requested ==
  /\ requests \in Seq(RequestSet)
  /\ Len(requests) <= MaxRequests
  /\ \A r \in Asked :
       /\ requests[r].name \in NamesFor(requests[r].kind)
       /\ requests[r].out = GoesOut(Command(requests[r].kind), requests[r].name.length)

ActedOn ==
  \A m \in acted :
    /\ m.request \in Asked /\ m.node \in Nodes
    /\ requests[m.request].out
    /\ Sent(m.request).size >= Header(Sent(m.request).command)
    /\ m.name = Sent(m.request).data
    /\ m.size = Swap(64, Sent(m.request).param)

Opened ==
  /\ listening \subseteq [node : Nodes, port : Ports]
  /\ \A o \in opened : o.node \in Nodes /\ o.port \in Ports /\ o.name \in Text

ListensFor(r, o) == o.request = r /\ o.node = requests[r].node

Connects(command) == command \in {"CONNECT_ME", "CAN_ADD"}

(* The socket that an answer announces.                                    *)
Serves(r, o, command, string, param) ==
  /\ ListensFor(r, o)
  /\ param = PortParam(o.port)
  /\ command = "CONNECT_ME" => o.name = string

Announces(a, r, o) == Serves(r, o, a.command, a.data, a.param)

ReadAt(string) == \E node \in Nodes : string \in LateNames(node)

Belongs(a, r) ==
  /\ a.message_seq = BigEndian(r)
  /\ a.size \in Nat /\ a.size <= MaxDatagram
  /\ a.data \in Text /\ Fits(a.command, a.data.length)
  /\ Complex(a.command) => a.param \in OnTheWire(Ports \cup Sizes)
  /\ IsAnswerTo(r, a)
  /\ ComparesData(a.command) => ReadAt(a.data)
  /\ Connects(a.command) => \E o \in opened : Announces(a, r, o)

Answered == \A a \in answers : \E r \in Asked : Belongs(a, r)

(* The socket whose port the client has taken.                             *)
TakenFrom(t, o) ==
  /\ ListensFor(t.request, o)
  /\ ConnectPort(t) = GetPort(o.port)
  /\ t.command = "CONNECT_ME" => o.name = requests[t.request].name

Taken ==
  \A t \in taken :
    /\ t.request \in Asked
    /\ Connects(t.command) => \E o \in opened : TakenFrom(t, o)

ProtocolInv ==
  /\ stored \in [Nodes -> SUBSET Files]
  /\ handled \in 0 .. MaxHandled
  /\ Requested /\ ActedOn /\ Opened /\ Answered /\ Taken
-----------------------------------------------------------------------------
(* What users type and what files are called is text.                      *)
LEMMA NamesAreText ==
  /\ Files \subseteq Text /\ Empty \in Text
  /\ \A k \in Kinds : NamesFor(k) \subseteq Text
  /\ \A s \in Files : s.length \in 1 .. 255 /\ s # Empty
<1>1. ASSUME NEW lengths, lengths \subseteq Nat \ {0}, NEW s \in Strings(lengths)
      PROVE  s.length \in lengths /\ s \in Text /\ s # Empty
  <2>1. s \in [word : Words, length : lengths]
    BY DEF Strings
  <2>2. s.length \in lengths /\ s.length \in Nat /\ s.length # 0 /\ s \in [word : Words \cup {None}, length : Nat]
    BY <1>1, <2>1
  <2> QED
    BY <2>2 DEF Text, Empty
<1>2. Empty \in Text
  BY DEF Empty, Text
<1>5. FileLengths \subseteq 1 .. 255 /\ FileLengths \subseteq Nat \ {0} /\ TypedLengths \ {0} \subseteq Nat \ {0}
  BY ProtocolAssumption
<1>3. \A s \in Files : s.length \in 1 .. 255 /\ s \in Text /\ s # Empty
  BY <1>1, <1>5 DEF Files
<1>4. Typed \subseteq Text
  BY <1>1, <1>2, <1>5 DEF Typed
<1> QED
  BY <1>2, <1>3, <1>4 DEF NamesFor, Kinds

(* A request in the list, and what is sent of it.                          *)
LEMMA SentProperties ==
  ASSUME Requested, NEW r \in Asked
  PROVE  /\ requests[r] \in RequestSet /\ requests[r].kind \in Kinds
         /\ requests[r].name \in Text /\ requests[r].name.length \in Nat
         /\ Sent(r).command = Command(requests[r].kind)
         /\ Sent(r).data \in Text /\ Fits(Sent(r).command, Sent(r).data.length)
         /\ Sent(r).size = WireLength(Sent(r).command, requests[r].name.length)
         /\ Sent(r).param = SizeParam(requests[r].kind, requests[r].size)
         /\ /\ requests[r].out /\ Short(requests[r].name.length)
            /\ Sent(r).size >= Header(Sent(r).command)
            => Sent(r).data = requests[r].name
<1> DEFINE command == Command(requests[r].kind)
           name    == requests[r].name
           param   == SizeParam(requests[r].kind, requests[r].size)
<1>1. requests[r] \in RequestSet
  <2>1. requests \in Seq(RequestSet) /\ r \in 1 .. Len(requests)
    BY DEF Requested, Asked
  <2> QED
    BY <2>1, ElementOfSeq
<1>2. /\ requests[r].kind \in Kinds /\ name \in Text
      /\ requests[r].out = GoesOut(command, name.length)
  BY <1>1 DEF RequestSet, Requested
<1>3. name.length \in Nat
  BY <1>2 DEF Text
<1>4. Sent(r) = Datagram(command, r, name, name.length, param)
  BY DEF Sent
<1> DEFINE d == Datagram(command, r, name, name.length, param)
<1> HIDE DEF command, name, param
<1>6. Says(d, command, r, name, name.length, param)
  BY <1>2, <1>3, DatagramProperties, Zenon
<1> HIDE DEF d
<1>5. /\ Sent(r).data \in Text /\ Fits(command, Sent(r).data.length)
      /\ Sent(r).size = WireLength(command, name.length) /\ Sent(r).command = command /\ Sent(r).param = param
      /\ /\ Short(name.length)
         /\ Sent(r).size >= Header(command) /\ GoesOut(command, name.length)
         => Sent(r).data = name
  BY <1>4, <1>6 DEF d, Says
<1> QED
  BY <1>1, <1>2, <1>3, <1>5 DEF command, name, param

(* Which request a command on the wire is of.                              *)
LEMMA Commands ==
  ASSUME NEW k \in Kinds
  PROVE  /\ Command(k) = "HELLO" => k = "discover"
         /\ Command(k) = "LIST" => k = "search"
         /\ Command(k) = "GET" => k = "fetch"
         /\ Command(k) = "ADD" => k = "upload"
         /\ Command(k) \in {"HELLO", "LIST", "GET", "ADD", "DEL"}
BY DEF Kinds, Command

(* A node that handles a request acts on what arrived of it.               *)
LEMMA ArrivesProperties ==
  ASSUME Requested, NEW r \in Asked, NEW node \in Nodes, NEW command,
         Arrives(r, node, command)
  PROVE  /\ requests[r].out
         /\ Command(requests[r].kind) = command
         /\ Sent(r).size >= Header(Sent(r).command)
         /\ Nodewise(requests[r].kind) => requests[r].node = node
         /\ acted' = acted \cup {[request |-> r, node |-> node, name |-> Sent(r).data,
                                  size |-> Swap(64, Sent(r).param)]}
         /\ handled' = handled + 1 /\ handled < MaxHandled
         /\ requests[r].name \in Files => Sent(r).data = requests[r].name
<1>1. /\ requests[r].out /\ Sent(r).command = command /\ Sent(r).size >= Header(Sent(r).command)
      /\ Nodewise(requests[r].kind) => requests[r].node = node
      /\ acted' = acted \cup {[request |-> r, node |-> node, name |-> Sent(r).data,
                               size |-> Swap(64, Sent(r).param)]}
      /\ handled' = handled + 1 /\ handled < MaxHandled
  BY DEF Arrives, Reaches, MessageValidation
<1>2. requests[r].name \in Files => Short(requests[r].name.length)
  <2>1. \A s \in Files : Short(s.length)
    <3>1. ASSUME NEW n \in 1 .. 255 PROVE Short(n)
      BY SMT DEF Short
    <3> QED
      BY <3>1, NamesAreText
  <2> QED
    BY <2>1
<1>3. Sent(r).command = Command(requests[r].kind)
      /\ (Short(requests[r].name.length) => Sent(r).data = requests[r].name)
  BY <1>1, SentProperties
<1> QED
  BY <1>1, <1>2, <1>3

(* A string that fits goes out, with the length that its receiver expects. *)
LEMMA FittingLength ==
  ASSUME NEW command, NEW length \in Nat
  PROVE  Fits(command, length) =>
           /\ Short(length) /\ WireLength(command, length) >= Header(command)
           /\ WireLength(command, length) \in Nat /\ WireLength(command, length) <= MaxDatagram
           /\ GoesOut(command, length)
<1> DEFINE h == Header(command)
           m == MaxData(command)
           wire == WireLength(command, length)
<1>1. (length <= m => wire = h + length) /\ h \in Nat /\ m \in Nat /\ m <= 65489 /\ h + m = 65507
      /\ wire \in Nat
  BY WireLengthProperties, HeaderProperties, SMT
<1> HIDE DEF h, m, wire
<1>2. length <= m => wire <= MaxDatagram /\ wire >= h
  BY <1>1, SMT DEF MaxDatagram
<1>3. length <= m => Short(length)
  BY <1>1, SMT DEF Short
<1>4. GoesOut(command, length) <=> wire <= MaxDatagram
  BY DEF GoesOut, wire
<1>5. Fits(command, length) => length <= m
  BY DEF Fits, m
<1> QED
  BY <1>1, <1>2, <1>3, <1>4, <1>5 DEF wire, h

(* Names of files and addresses fit in every message.                      *)
LEMMA FileNamesFit ==
  ASSUME NEW command, NEW n \in 0 .. 255
  PROVE  Fits(command, n)
BY HeaderProperties, SMT DEF Fits

(* What is no longer than the data of the larger message fits in any in    *)
(* which it goes out.                                                      *)
LEMMA OutFits ==
  ASSUME NEW command, NEW length \in Nat, length <= 65489, GoesOut(command, length)
  PROVE  Fits(command, length)
<1> DEFINE h == Header(command)
           m == MaxData(command)
           wire == WireLength(command, length)
           l == UInt16(length)
           u == UInt16(h + l)
<1>1. h \in Nat /\ h >= 18 /\ h <= 26 /\ m \in Nat /\ h + m = 65507
  BY HeaderProperties, SMT
<1>2. l = length
  BY UInt16Properties, SMT
<1>3. wire = u
  BY DEF WireLength
<1>4. wire <= 65507
  BY DEF GoesOut, MaxDatagram
<1> HIDE DEF h, m, wire, l
<1>5. h + l \in Nat /\ h + l < 65536
  BY <1>1, <1>2, SMT
<1>6. u = h + l
  BY <1>5, UInt16Properties, SMT
<1> HIDE DEF u
<1>7. length <= m
  BY <1>1, <1>2, <1>3, <1>4, <1>6, SMT
<1> QED
  BY <1>7 DEF Fits, m

(* Whatever a thread finds in the buffer is a text that was in a message.  *)
LEMMA LateNamesAreText ==
  ASSUME Requested, NEW node, NEW name \in LateNames(node)
  PROVE  name \in Text /\ name.length \in Nat /\ name.length <= 65489
<1>1. CASE name \in Garbled
  <2>1. ASSUME NEW s \in [word : {None}, length : FileLengths]
        PROVE  s \in Text /\ s.length \in 0 .. 255
    <3>4. FileLengths \subseteq 1 .. 255 /\ \A n \in 1 .. 255 : n \in Nat /\ n # 0
      BY ProtocolAssumption
    <3>5. s.word = None /\ s.length \in FileLengths /\ s = [word |-> s.word, length |-> s.length]
      OBVIOUS
    <3>6. s.length \in 1 .. 255 /\ s.length \in Nat /\ s.length # 0
      BY <3>4, <3>5
    <3>1. /\ s.length \in 1 .. 255 /\ s.length # 0
          /\ s \in [word : Words \cup {None}, length : Nat]
      BY <3>5, <3>6
    <3>2. s \in Text
      BY <3>1 DEF Text
    <3>3. \A n \in 1 .. 255 : n \in 0 .. 255
      OBVIOUS
    <3> QED
      BY <3>1, <3>2, <3>3
  <2>2. Empty \in Text /\ Empty.length \in 0 .. 255
    BY DEF Empty, Text
  <2>3. name \in Text /\ name.length \in 0 .. 255
    BY <1>1, <2>1, <2>2 DEF Garbled
  <2> DEFINE n == name.length
  <2> HIDE DEF n
  <2>4. n \in 0 .. 255 => n \in Nat /\ n <= 65489
    BY SMT
  <2> QED
    BY <2>3, <2>4 DEF n
<1>2. CASE name \notin Garbled
  <2>1. PICK q \in Asked : name = Sent(q).data
    BY <1>2 DEF LateNames, Asked
  <2>2. name \in Text /\ name.length <= MaxData(Sent(q).command)
    BY <2>1, SentProperties DEF Fits
  <2> DEFINE n == name.length
             m == MaxData(Sent(q).command)
  <2>3. n \in Nat /\ m \in Nat /\ m <= 65489 /\ n <= m
    BY <2>2, HeaderProperties DEF Text
  <2> HIDE DEF n, m
  <2>4. n \in Nat /\ n <= 65489
    BY <2>3, SMT
  <2> QED
    BY <2>2, <2>4 DEF n
<1> QED
  BY <1>1, <1>2

(* What has to hold of the contents of an answer.                          *)
Contents(command, string, length, param) ==
  /\ Complex(command) => param \in OnTheWire(Ports \cup Sizes)
  /\ command = "CONNECT_ME" => length = string.length
  /\ ComparesData(command) => ReadAt(string) /\ length = string.length

(* An answer that fits in its message is one to its request.               *)
LEMMA AnswerBelongs ==
  ASSUME NEW r, NEW command \in Expected(requests[r].kind),
         NEW string \in Text, NEW length \in Nat, NEW param,
         Fits(command, length),
         Contents(command, string, length, param),
         NEW d, d = Datagram(command, r, string, length, param)
  PROVE  /\ GoesOut(command, length)
         /\ d.message_seq = BigEndian(r) /\ d.command = command /\ d.param = param
         /\ d.size \in Nat /\ d.size <= MaxDatagram
         /\ d.data \in Text /\ Fits(d.command, d.data.length)
         /\ Complex(d.command) => d.param \in OnTheWire(Ports \cup Sizes)
         /\ IsAnswerTo(r, d)
         /\ ComparesData(command) => ReadAt(d.data)
         /\ command = "CONNECT_ME" => d.data = string
<1>1. /\ Short(length) /\ WireLength(command, length) >= Header(command)
      /\ WireLength(command, length) \in Nat /\ WireLength(command, length) <= MaxDatagram
      /\ GoesOut(command, length)
  BY FittingLength
<1>2. Says(d, command, r, string, length, param)
  BY DatagramProperties, Zenon
<1>3. (ComparesData(command) => d.data = string /\ ReadAt(string)) /\ (command = "CONNECT_ME" => d.data = string)
  BY <1>1, <1>2 DEF Contents, Says
<1>4. LongEnough(d)
  BY <1>1, <1>2 DEF LongEnough, Says
<1>5. Numbered(r, d)
  BY <1>2, SwapProperties DEF Says, Numbered
<1>6. IsAnswerTo(r, d)
  BY <1>2, <1>4, <1>5 DEF IsAnswerTo, Says
<1>7. Complex(d.command) => d.param \in OnTheWire(Ports \cup Sizes)
  BY <1>2 DEF Contents, Says
<1> QED
  BY <1>1, <1>2, <1>3, <1>6, <1>7 DEF Says
-----------------------------------------------------------------------------
(* Requests are only ever added, and sockets opened: what was said of the  *)
(* ones there were stays true.                                             *)
Later ==
  /\ opened \subseteq opened'
  /\ \A r \in Asked : r \in Asked' /\ requests'[r] = requests[r]

(* A request, what it said, and an answer to it keep their meaning while   *)
(* requests and sockets are only added.                                    *)
LEMMA LaterKeeps ==
  ASSUME Later
  PROVE  /\ \A r \in Asked : Sent(r)' = Sent(r)
         /\ \A r \in Asked : \A a : Belongs(a, r) => Belongs(a, r)'
         /\ ActedOn /\ UNCHANGED acted => ActedOn'
         /\ Answered /\ UNCHANGED answers => Answered'
         /\ Taken /\ UNCHANGED taken => Taken'
<1>1. ASSUME NEW r \in Asked PROVE requests'[r] = requests[r] /\ r \in Asked'
  BY DEF Later
<1>2. ASSUME NEW r \in Asked PROVE Sent(r)' = Sent(r)
  BY <1>1 DEF Sent
<1>3. ASSUME NEW r \in Asked, NEW o, o \in opened, ListensFor(r, o) PROVE ListensFor(r, o)' /\ o \in opened'
  BY <1>1, <1>3 DEF ListensFor, Later
<1>8. ASSUME NEW string, ReadAt(string) PROVE ReadAt(string)'
  <2>1. PICK node \in Nodes : string \in LateNames(node)
    BY <1>8 DEF ReadAt
  <2>2. ASSUME string \notin Garbled PROVE string \in LateNames(node)'
    <3>1. PICK q \in Asked : Reaches(q, node) /\ string = Sent(q).data
      BY <2>1, <2>2 DEF LateNames, Asked
    <3>2. Reaches(q, node)'
      BY <1>1, <3>1 DEF Reaches
    <3>3. string = Sent(q)'.data /\ q \in Asked'
      BY <1>1, <1>2, <3>1
    <3> QED
      BY <3>2, <3>3 DEF LateNames, Asked
  <2>3. string \in LateNames(node)'
    BY <2>2 DEF LateNames
  <2> QED
    BY <2>3 DEF ReadAt
<1>4. ASSUME NEW r \in Asked, NEW a, Belongs(a, r) PROVE Belongs(a, r)'
  <2>1. IsAnswerTo(r, a)'
    BY <1>1, <1>4 DEF Belongs, IsAnswerTo, Numbered
  <2>2. ComparesData(a.command) => ReadAt(a.data)'
    BY <1>4, <1>8 DEF Belongs
  <2>3. Connects(a.command) => \E o \in opened' : Announces(a, r, o)'
    BY <1>3, <1>4 DEF Belongs, Announces, Serves
  <2> QED
    BY <1>4, <2>1, <2>2, <2>3 DEF Belongs
<1>5. ASSUME ActedOn, UNCHANGED acted PROVE ActedOn'
  <2> SUFFICES ASSUME NEW m \in acted
               PROVE  /\ m.request \in Asked' /\ m.node \in Nodes
                      /\ requests'[m.request].out
                      /\ Sent(m.request)'.size >= Header(Sent(m.request)'.command)
                      /\ m.name = Sent(m.request)'.data
                      /\ m.size = Swap(64, Sent(m.request)'.param)
    BY <1>5 DEF ActedOn
  <2>1. m.request \in Asked
    BY <1>5 DEF ActedOn
  <2>2. Sent(m.request)' = Sent(m.request) /\ requests'[m.request] = requests[m.request]
    BY <1>1, <1>2, <2>1
  <2> QED
    BY <1>1, <1>5, <2>1, <2>2 DEF ActedOn
<1>6. ASSUME Answered, UNCHANGED answers PROVE Answered'
  BY <1>1, <1>4, <1>6 DEF Answered
<1>7. ASSUME Taken, UNCHANGED taken PROVE Taken'
  <2> SUFFICES ASSUME NEW t \in taken
               PROVE  /\ t.request \in Asked'
                      /\ Connects(t.command) => \E o \in opened' : TakenFrom(t, o)'
    BY <1>7 DEF Taken
  <2>1. t.request \in Asked /\ (Connects(t.command) => \E o \in opened : TakenFrom(t, o))
    BY <1>7 DEF Taken
  <2>2. ASSUME NEW o \in opened, TakenFrom(t, o) PROVE TakenFrom(t, o)' /\ o \in opened'
    BY <1>1, <1>3, <2>1, <2>2 DEF TakenFrom, ConnectPort
  <2> QED
    BY <1>1, <2>1, <2>2
<1> QED
  BY <1>2, <1>4, <1>5, <1>6, <1>7

(* A user asks for something.                                              *)
LEMMA StepRequest ==
  ASSUME ProtocolInv, NEW k \in Kinds, NEW name \in NamesFor(k), NEW size \in Sizes, NEW node \in NodesFor(k),
         Request(k, name, size, node)
  PROVE  ProtocolInv'
<1> DEFINE new == [kind |-> k, name |-> name, size |-> size, node |-> node, out |-> GoesOut(Command(k), name.length)]
<1>1. /\ requests' = Append(requests, new) /\ Len(requests) < MaxRequests
      /\ UNCHANGED <<stored, listening, answers, opened, acted, taken, handled>>
  BY DEF Request
<1>2. new \in RequestSet
  <2>1. GoesOut(Command(k), name.length) \in BOOLEAN
    BY DEF GoesOut
  <2>2. node \in Nodes \cup {None}
    BY DEF NodesFor
  <2>3. name \in Text
    BY NamesAreText
  <2> QED
    BY <2>1, <2>2, <2>3 DEF RequestSet
<1>3. new.name \in NamesFor(new.kind) /\ new.out = GoesOut(Command(new.kind), new.name.length)
  OBVIOUS
<1> HIDE DEF new
<1>4. requests \in Seq(RequestSet) /\ Len(requests) \in Nat /\ MaxRequests \in Nat
  BY ProtocolAssumption DEF ProtocolInv, Requested
<1>5. /\ requests' \in Seq(RequestSet) /\ Len(requests') = Len(requests) + 1
      /\ \A r \in 1 .. Len(requests) : requests'[r] = requests[r]
      /\ requests'[Len(requests) + 1] = new
  BY <1>1, <1>2, <1>4
<1>6. Asked' = Asked \cup {Len(requests) + 1}
  BY <1>4, <1>5 DEF Asked
<1>7. \A r \in Asked : requests'[r] = requests[r]
  BY <1>5 DEF Asked
<1>8. Requested'
  <2>1. Len(requests') <= MaxRequests
    BY <1>1, <1>4, <1>5
  <2>2. \A r \in Asked' : requests'[r].name \in NamesFor(requests'[r].kind)
                          /\ requests'[r].out = GoesOut(Command(requests'[r].kind), requests'[r].name.length)
    BY <1>3, <1>5, <1>6, <1>7 DEF ProtocolInv, Requested
  <2> QED
    BY <1>5, <2>1, <2>2 DEF Requested
<1>9. Later
  BY <1>1, <1>6, <1>7 DEF Later
<1> QED
  BY <1>1, <1>8, <1>9, LaterKeeps DEF ProtocolInv, Opened

(* What all handlers have in common.                                       *)
LEMMA HandlerKeeps ==
  ASSUME ProtocolInv, NEW r \in Asked, NEW node \in Nodes, NEW command, Arrives(r, node, command),
         UNCHANGED <<requests, taken>>, opened \subseteq opened', stored' \in [Nodes -> SUBSET Files]
  PROVE  Opened' /\ Answered' => ProtocolInv'
<1>1. Later
  BY DEF Later, Asked
<1>2. Requested'
  BY DEF ProtocolInv, Requested, Asked
<1>3. ActedOn'
  <2>1. /\ requests[r].out /\ Sent(r).size >= Header(Sent(r).command)
        /\ acted' = acted \cup {[request |-> r, node |-> node, name |-> Sent(r).data,
                                 size |-> Swap(64, Sent(r).param)]}
    BY ArrivesProperties DEF ProtocolInv
  <2>2. Sent(r)' = Sent(r) /\ requests' = requests /\ Asked' = Asked
    BY DEF Sent, Asked
  <2>3. \A m : Sent(m)' = Sent(m)
    BY <2>2 DEF Sent
  <2> QED
    BY <2>1, <2>2, <2>3 DEF ProtocolInv, ActedOn
<1>4. handled' \in 0 .. MaxHandled
  <2>1. handled' = handled + 1 /\ handled < MaxHandled
    BY ArrivesProperties DEF ProtocolInv
  <2> QED
    BY <2>1, ProtocolAssumption DEF ProtocolInv
<1> QED
  BY <1>1, <1>2, <1>3, <1>4, LaterKeeps DEF ProtocolInv

(* An answer that belongs to the request joins the others.                 *)
LEMMA AnswerKeeps ==
  ASSUME ProtocolInv, NEW r \in Asked, Later,
         NEW added, answers' \subseteq answers \cup added, \A a \in added : Belongs(a, r)'
  PROVE  Answered'
<1>1. \A a \in answers : \E q \in Asked : Belongs(a, q)
  BY DEF ProtocolInv, Answered
<1>2. \A q \in Asked : q \in Asked' /\ \A a : Belongs(a, q) => Belongs(a, q)'
  BY LaterKeeps DEF Later
<1>3. \A a \in answers' : \E q \in Asked' : Belongs(a, q)'
  BY <1>1, <1>2
<1> QED
  BY <1>3 DEF Answered

(* One more answer, which belongs to a request, leaves every answer        *)
(* belonging to one.                                                       *)
LEMMA OneAnswer ==
  ASSUME ProtocolInv, NEW r \in Asked, Later,
         NEW d, answers' \subseteq answers \cup {d}, Belongs(d, r)'
  PROVE  Answered'
<1> DEFINE added == {d}
<1>1. answers' \subseteq answers \cup added /\ \A a \in added : Belongs(a, r)'
  OBVIOUS
<1> HIDE DEF added
<1> QED
  BY <1>1, AnswerKeeps
-----------------------------------------------------------------------------
(* What a thread may read stays so while there is no new request.          *)
LEMMA ReadStays ==
  ASSUME UNCHANGED requests, NEW string, ReadAt(string)
  PROVE  ReadAt(string)'
<1>1. \A q : Sent(q)' = Sent(q)
  BY DEF Sent
<1>2. \A q, node : Reaches(q, node)' <=> Reaches(q, node)
  BY DEF Reaches
<1>3. PICK node \in Nodes : string \in LateNames(node)
  BY DEF ReadAt
<1>4. string \in LateNames(node)'
  BY <1>1, <1>2, <1>3 DEF LateNames
<1> QED
  BY <1>4 DEF ReadAt

(* An answer that fits belongs to its request.                             *)
LEMMA DatagramBelongs ==
  ASSUME NEW r \in Asked, UNCHANGED requests,
         NEW command \in Expected(requests[r].kind),
         NEW string \in Text, NEW length \in Nat, NEW param,
         Fits(command, length), Contents(command, string, length, param),
         Connects(command) => \E o \in opened' : Serves(r, o, command, string, param),
         NEW d, d = Datagram(command, r, string, length, param)
  PROVE  Belongs(d, r)'
<1>1. /\ d.message_seq = BigEndian(r) /\ d.command = command /\ d.param = param
      /\ d.size \in Nat /\ d.size <= MaxDatagram
      /\ d.data \in Text /\ Fits(d.command, d.data.length)
      /\ Complex(d.command) => d.param \in OnTheWire(Ports \cup Sizes)
      /\ IsAnswerTo(r, d)
      /\ ComparesData(command) => ReadAt(d.data)
      /\ command = "CONNECT_ME" => d.data = string
  BY AnswerBelongs
<1>2. IsAnswerTo(r, d)'
  BY <1>1 DEF IsAnswerTo, Numbered
<1>3. ComparesData(d.command) => ReadAt(d.data)'
  BY <1>1, ReadStays
<1>4. Connects(d.command) => \E o \in opened' : Announces(d, r, o)'
  <2> SUFFICES ASSUME Connects(d.command)
               PROVE  \E o \in opened' : Announces(d, r, o)'
    OBVIOUS
  <2>1. PICK o \in opened' : Serves(r, o, command, string, param)
    BY <1>1
  <2>2. Announces(d, r, o)'
    BY <1>1, <2>1 DEF Announces, Serves, ListensFor
  <2> QED
    BY <2>2
<1> QED
  BY <1>1, <1>2, <1>3, <1>4 DEF Belongs

(* An answer that does not fit does not go out.                            *)
LEMMA AnswerStep ==
  ASSUME ProtocolInv, NEW r \in Asked, Later, UNCHANGED requests,
         NEW command \in Expected(requests[r].kind),
         NEW string \in Text, NEW length \in Nat, NEW param,
         length <= 65489, Contents(command, string, length, param),
         Connects(command) => \E o \in opened' : Serves(r, o, command, string, param),
         Answer(r, command, string, length, param)
  PROVE  Answered'
<1> DEFINE d == Datagram(command, r, string, length, param)
<1>1. CASE GoesOut(command, length)
  <2>1. Fits(command, length)
    BY <1>1, OutFits
  <2>2. Belongs(d, r)'
    BY <2>1, DatagramBelongs
  <2>3. answers' \subseteq answers \cup {d}
    BY DEF Answer
  <2> QED
    BY <2>2, <2>3, OneAnswer
<1>2. CASE ~GoesOut(command, length)
  <2>1. UNCHANGED answers
    BY <1>2 DEF Answer
  <2> QED
    BY <2>1, LaterKeeps DEF ProtocolInv
<1> QED
  BY <1>1, <1>2

(* handle_discover_request answers the client that asked.                  *)
LEMMA StepDiscover ==
  ASSUME ProtocolInv, NEW r \in Asked, NEW node \in Nodes, HandleDiscoverRequest(r, node)
  PROVE  ProtocolInv'
<1>1. PICK available \in Sizes :
        Answer(r, "GOOD_DAY", MulticastAddress, MulticastAddress.length, BigEndian(available))
  BY DEF HandleDiscoverRequest
<1>2. Arrives(r, node, "HELLO") /\ UNCHANGED <<stored, requests, listening, opened, taken>>
  BY DEF HandleDiscoverRequest
<1>3. requests[r].kind = "discover"
  BY <1>2, ArrivesProperties, SentProperties, Commands DEF ProtocolInv
<1>4. /\ MulticastAddress \in Text /\ MulticastAddress.length \in Nat
      /\ MulticastAddress.length <= 65489
  BY DEF MulticastAddress, Text
<1>5. BigEndian(available) \in OnTheWire(Ports \cup Sizes)
  BY SwapProperties DEF OnTheWire
<1>6. /\ "GOOD_DAY" \in Expected(requests[r].kind) /\ ~Connects("GOOD_DAY")
      /\ Contents("GOOD_DAY", MulticastAddress, MulticastAddress.length, BigEndian(available))
  BY <1>3, <1>5 DEF Expected, Contents, ComparesData, Connects
<1>7. Later /\ Opened'
  BY <1>2 DEF Later, Opened, ProtocolInv, Asked
<1>8. Answered'
  BY <1>1, <1>2, <1>4, <1>6, <1>7, AnswerStep
<1> QED
  BY <1>2, <1>7, <1>8, HandlerKeeps DEF ProtocolInv

(* handle_files_list_request: each of its answers belongs to the request,  *)
(* however many there are.                                                 *)
LEMMA StepFilesList ==
  ASSUME ProtocolInv, NEW r \in Asked, NEW node \in Nodes, NEW pattern, HandleFilesListRequest(r, node, pattern)
  PROVE  ProtocolInv'
<1> DEFINE d(listed) == Datagram("MY_LIST", r, Listing(listed), Listing(listed).length, NoParam)
<1>1. /\ Arrives(r, node, "LIST") /\ UNCHANGED <<stored, requests, listening, opened, taken>>
      /\ \E sent : /\ \A listed \in sent : Listing(listed).length \in 1 .. max_simple_data_size
                   /\ answers' = answers \cup {d(listed) : listed \in sent}
  BY DEF HandleFilesListRequest
<1>2. PICK sent : /\ \A listed \in sent : Listing(listed).length \in 1 .. max_simple_data_size
                  /\ answers' = answers \cup {d(listed) : listed \in sent}
  BY <1>1
<1>3. requests[r].kind = "search"
  BY <1>1, ArrivesProperties, SentProperties, Commands DEF ProtocolInv
<1>4. "MY_LIST" \in Expected(requests[r].kind) /\ ~Connects("MY_LIST")
      /\ \A s, n, p : Contents("MY_LIST", s, n, p)
  BY <1>3 DEF Expected, Contents, Complex, ComparesData, Connects
<1>5. MaxData("MY_LIST") = max_simple_data_size
  BY DEF MaxData, Complex
<1>6. ASSUME NEW listed \in sent PROVE Belongs(d(listed), r)'
  <2>1. Listing(listed).length \in 1 .. max_simple_data_size
    BY <1>2
  <2> DEFINE n == Listing(listed).length
  <2> HIDE DEF n
  <2>6. n \in 1 .. max_simple_data_size
    BY <2>1 DEF n
  <2>7. n \in Nat /\ n # 0 /\ n <= max_simple_data_size
    BY <2>6, SMT DEF max_simple_data_size
  <2>2. Listing(listed).length \in Nat /\ Listing(listed).length # 0
        /\ Listing(listed).length <= max_simple_data_size
    BY <2>7 DEF n
  <2>3. Fits("MY_LIST", Listing(listed).length)
    BY <1>5, <2>2 DEF Fits
  <2>4. Listing(listed) = [word |-> None, length |-> Listing(listed).length]
    BY DEF Listing
  <2>5. Listing(listed) \in Text
    BY <2>2, <2>4 DEF Text
  <2> QED
    BY <1>1, <1>4, <2>2, <2>3, <2>5, DatagramBelongs
<1>7. Later /\ Opened'
  BY <1>1 DEF Later, Opened, ProtocolInv, Asked
<1> DEFINE added == {d(listed) : listed \in sent}
<1>9. answers' \subseteq answers \cup added /\ \A a \in added : Belongs(a, r)'
  BY <1>2, <1>6
<1> HIDE DEF added
<1>8. Answered'
  BY <1>7, <1>9, AnswerKeeps
<1> QED
  BY <1>1, <1>7, <1>8, HandlerKeeps DEF ProtocolInv

(* A socket that a handler opens for a fetch or an upload listens for it.  *)
LEMMA ListensProperties ==
  ASSUME ProtocolInv, NEW r \in Asked, NEW node \in Nodes, NEW port \in Ports, NEW name \in Text,
         Arrives(r, node, "GET") \/ Arrives(r, node, "ADD"),
         UNCHANGED requests, Listens(r, node, port, name)
  PROVE  /\ opened \subseteq opened' /\ Opened' /\ Later
         /\ \E o \in opened' : ListensFor(r, o) /\ PortParam(port) = PortParam(o.port) /\ o.name = name
<1> DEFINE o == [node |-> node, port |-> port, request |-> r, name |-> name]
<1>1. opened' = opened \cup {o} /\ listening' = listening \cup {[node |-> node, port |-> port]}
  BY DEF Listens
<1>2. requests[r].kind \in {"fetch", "upload"}
  BY ArrivesProperties, SentProperties, Commands DEF ProtocolInv
<1>3. requests[r].node = node
  BY <1>2, ArrivesProperties DEF ProtocolInv, Nodewise
<1>4. Opened'
  BY <1>1 DEF ProtocolInv, Opened
<1>5. ListensFor(r, o) /\ PortParam(port) = PortParam(o.port) /\ o.name = name
  BY <1>3 DEF ListensFor
<1> QED
  BY <1>1, <1>4, <1>5 DEF Later, Asked

(* A port is announced in the network's byte order.                        *)
LEMMA PortsTravel == \A port \in Ports : PortParam(port) \in OnTheWire(Ports \cup Sizes)
BY SwapProperties DEF OnTheWire

(* handle_file_request sends the port of the socket on which it listens,   *)
(* and the name that it serves.                                            *)
LEMMA StepFileRequest ==
  ASSUME ProtocolInv, NEW r \in Asked, NEW node \in Nodes, NEW name \in LateNames(node),
         HandleFileRequest(r, node, name)
  PROVE  ProtocolInv'
<1>1. PICK port \in Ports :
        Listens(r, node, port, name) /\ Answer(r, "CONNECT_ME", name, name.length, PortParam(port))
  BY DEF HandleFileRequest
<1>2. Arrives(r, node, "GET") /\ UNCHANGED <<stored, requests, taken>>
  BY DEF HandleFileRequest
<1>3. requests[r].kind = "fetch"
  BY <1>2, ArrivesProperties, SentProperties, Commands DEF ProtocolInv
<1>4. name \in Text /\ name.length \in Nat /\ name.length <= 65489
  BY LateNamesAreText DEF ProtocolInv
<1>5. "CONNECT_ME" \in Expected(requests[r].kind)
      /\ Contents("CONNECT_ME", name, name.length, PortParam(port))
  BY <1>3, PortsTravel DEF Expected, Contents, ReadAt
<1>6. /\ opened \subseteq opened' /\ Opened' /\ Later
      /\ \E o \in opened' : ListensFor(r, o) /\ PortParam(port) = PortParam(o.port) /\ o.name = name
  BY <1>1, <1>2, <1>4, ListensProperties
<1>7. Answered'
  <2>1. \E o \in opened' : Serves(r, o, "CONNECT_ME", name, PortParam(port))
    BY <1>6 DEF Serves
  <2> QED
    BY <1>1, <1>2, <1>4, <1>5, <1>6, <2>1, AnswerStep
<1> QED
  BY <1>2, <1>6, <1>7, HandlerKeeps DEF ProtocolInv

(* handle_upload_request sends a port, or refuses, to the client that      *)
(* asked.                                                                  *)
LEMMA StepUploadRequest ==
  ASSUME ProtocolInv, NEW r \in Asked, NEW node \in Nodes, NEW name \in LateNames(node),
         HandleUploadRequest(r, node, name)
  PROVE  ProtocolInv'
<1>1. Arrives(r, node, "ADD") /\ UNCHANGED <<stored, requests, taken>>
  BY DEF HandleUploadRequest
<1>2. requests[r].kind = "upload"
  BY <1>1, ArrivesProperties, SentProperties, Commands DEF ProtocolInv
<1>3. name \in Text /\ name.length \in Nat /\ name.length <= 65489
  BY LateNamesAreText DEF ProtocolInv
<1>4. "CAN_ADD" \in Expected(requests[r].kind) /\ "NO_WAY" \in Expected(requests[r].kind)
  BY <1>2 DEF Expected
<1>5. ASSUME NEW port \in Ports, Listens(r, node, port, name), Answer(r, "CAN_ADD", name, 0, PortParam(port))
      PROVE  ProtocolInv'
  <2>1. /\ opened \subseteq opened' /\ Opened' /\ Later
        /\ \E o \in opened' : ListensFor(r, o) /\ PortParam(port) = PortParam(o.port) /\ o.name = name
    BY <1>1, <1>3, <1>5, ListensProperties
  <2>2. Contents("CAN_ADD", name, 0, PortParam(port)) /\ 0 \in Nat /\ 0 <= 65489
    BY PortsTravel DEF Contents, ComparesData
  <2>4. \E o \in opened' : Serves(r, o, "CAN_ADD", name, PortParam(port))
    BY <2>1 DEF Serves
  <2>3. Answered'
    BY <1>1, <1>3, <1>4, <1>5, <2>1, <2>2, <2>4, AnswerStep
  <2> QED
    BY <1>1, <2>1, <2>3, HandlerKeeps DEF ProtocolInv
<1>6. ASSUME Answer(r, "NO_WAY", name, name.length, NoParam), UNCHANGED <<listening, opened>>
      PROVE  ProtocolInv'
  <2>1. Later /\ Opened' /\ opened \subseteq opened'
    BY <1>1, <1>6 DEF Later, Opened, ProtocolInv, Asked
  <2>2. Contents("NO_WAY", name, name.length, NoParam) /\ ~Connects("NO_WAY")
    BY DEF Contents, Complex, ReadAt, Connects
  <2>3. Answered'
    BY <1>1, <1>3, <1>4, <1>6, <2>1, <2>2, AnswerStep
  <2> QED
    BY <1>1, <2>1, <2>3, HandlerKeeps DEF ProtocolInv
<1> QED
  BY <1>5, <1>6 DEF HandleUploadRequest

(* handle_remove_request answers nothing.                                  *)
LEMMA StepRemoveRequest ==
  ASSUME ProtocolInv, NEW r \in Asked, NEW node \in Nodes, HandleRemoveRequest(r, node)
  PROVE  ProtocolInv'
<1>1. /\ Arrives(r, node, "DEL") /\ UNCHANGED <<requests, listening, answers, opened, taken>>
      /\ stored' = [stored EXCEPT ![node] = @ \ {Sent(r).data}]
  BY DEF HandleRemoveRequest
<1>2. stored' \in [Nodes -> SUBSET Files]
  BY <1>1 DEF ProtocolInv
<1>3. Later /\ Opened'
  BY <1>1 DEF Later, Opened, ProtocolInv, Asked
<1>4. Answered'
  BY <1>1, <1>3, LaterKeeps DEF ProtocolInv
<1> QED
  BY <1>1, <1>2, <1>3, <1>4, HandlerKeeps

(* What the client takes belongs to its last request, by its number.       *)
LEMMA StepReceive ==
  ASSUME ProtocolInv, NEW a \in answers, Receive(a)
  PROVE  ProtocolInv'
<1> DEFINE new == [request |-> Waiting, command |-> a.command, port |-> Swap(64, a.param)]
<1>1. /\ Waiting > 0 /\ Accepts(Waiting, a) /\ taken' = taken \cup {new}
      /\ UNCHANGED <<stored, requests, listening, answers, opened, acted, handled>>
  BY DEF Receive
<1>2. PICK r \in Asked : Belongs(a, r)
  BY DEF ProtocolInv, Answered
<1>3. r = Waiting
  <2>1. Swap(64, a.message_seq) = Integer(Waiting)
    BY <1>1 DEF Accepts, IsAnswerTo, Numbered
  <2>2. Swap(64, a.message_seq) = Integer(r)
    BY <1>2, SwapProperties DEF Belongs
  <2>3. Integer(r).value = r /\ Integer(Waiting).value = Waiting
    BY DEF Integer
  <2> QED
    BY <2>1, <2>2, <2>3
<1>4. Waiting \in Asked
  BY <1>2, <1>3
<1>5. ASSUME Connects(a.command)
      PROVE  \E o \in opened : TakenFrom(new, o)
  <2>1. PICK o \in opened : Announces(a, r, o)
    BY <1>2, <1>5 DEF Belongs
  <2>2. ConnectPort(new) = GetPort(o.port)
    BY <2>1, SwapProperties DEF ConnectPort, Announces, Serves
  <2>3. a.command = "CONNECT_ME" => o.name = requests[Waiting].name
    BY <1>1, <2>1 DEF Accepts, ComparesData, Announces, Serves
  <2>4. ListensFor(Waiting, o)
    BY <1>3, <2>1 DEF Announces, Serves
  <2> QED
    BY <2>2, <2>3, <2>4 DEF TakenFrom
<1>6. Taken'
  <2> HIDE DEF new
  <2>1. \A t \in taken : /\ t.request \in Asked
                         /\ Connects(t.command) => \E o \in opened : TakenFrom(t, o)
    BY DEF ProtocolInv, Taken
  <2>2. new.request = Waiting /\ new.command = a.command
    BY DEF new
  <2>3. Asked' = Asked /\ \A t, o : TakenFrom(t, o)' = TakenFrom(t, o)
    BY <1>1 DEF Asked, TakenFrom, ListensFor, ConnectPort
  <2> QED
    BY <1>1, <1>4, <1>5, <2>1, <2>2, <2>3 DEF Taken
<1>7. Requested' /\ ActedOn' /\ Opened' /\ Answered'
  <2>1. Later
    BY <1>1 DEF Later, Asked
  <2> QED
    BY <1>1, <2>1, LaterKeeps DEF ProtocolInv, Requested, Opened, Asked
<1> QED
  BY <1>1, <1>6, <1>7 DEF ProtocolInv

(* A socket is closed; the port may be taken again.                        *)
LEMMA StepClose ==
  ASSUME ProtocolInv, NEW socket \in listening, Close(socket)
  PROVE  ProtocolInv'
<1>1. /\ listening' \subseteq listening
      /\ UNCHANGED <<stored, requests, answers, opened, acted, taken, handled>>
  BY DEF Close
<1>2. Later /\ Opened' /\ Requested'
  BY <1>1 DEF Later, Opened, Requested, ProtocolInv, Asked
<1> QED
  BY <1>1, <1>2, LaterKeeps DEF ProtocolInv
-----------------------------------------------------------------------------
(* Every behaviour keeps the inductive invariant.                          *)
LEMMA ProtocolInvariant == Spec => []ProtocolInv
<1>1. Init => ProtocolInv
  <2> SUFFICES ASSUME Init PROVE ProtocolInv
    OBVIOUS
  <2>1. requests = <<>> /\ Len(requests) = 0 /\ Asked = {}
    BY DEF Init, Asked
  <2>2. Requested
    BY <2>1, ProtocolAssumption DEF Requested
  <2>3. handled \in 0 .. MaxHandled
    BY ProtocolAssumption DEF Init
  <2> QED
    BY <2>2, <2>3 DEF Init, ProtocolInv, ActedOn, Opened, Answered, Taken
<1>2. ProtocolInv /\ [Next]_vars => ProtocolInv'
  <2> SUFFICES ASSUME ProtocolInv, [Next]_vars PROVE ProtocolInv'
    OBVIOUS
  <2>1. ASSUME NEW k \in Kinds, NEW name \in NamesFor(k), NEW size \in Sizes, NEW node \in NodesFor(k),
               Request(k, name, size, node)
        PROVE  ProtocolInv'
    BY <2>1, StepRequest
  <2>2. ASSUME NEW r \in Asked, NEW node \in Nodes, Handle(r, node) PROVE ProtocolInv'
    BY <2>2, StepDiscover, StepFilesList, StepFileRequest, StepUploadRequest, StepRemoveRequest DEF Handle
  <2>3. ASSUME NEW a \in answers, Receive(a) PROVE ProtocolInv'
    BY <2>3, StepReceive
  <2>4. CASE UNCHANGED vars
    <3>1. Later /\ UNCHANGED vars
      BY <2>4 DEF Later, vars, Asked
    <3> QED
      BY <3>1, LaterKeeps DEF vars, ProtocolInv, Requested, Opened, Asked
  <2>5. ASSUME NEW socket \in listening, Close(socket) PROVE ProtocolInv'
    BY <2>5, StepClose
  <2> QED
    BY <2>1, <2>2, <2>3, <2>4, <2>5 DEF Next, Asked
<1> QED
  BY <1>1, <1>2, PTL DEF Spec

(* A number that is not above a bound is in the interval up to it.         *)
LEMMA AtMost == \A bound \in Nat, n \in Nat : n <= bound => n \in 0 .. bound
OBVIOUS

(* UDP's limit is a number.                                                *)
LEMMA MaxDatagramNat == MaxDatagram \in Nat
BY DEF MaxDatagram

(* A text, as the type invariant has it.                                   *)
LEMMA TextIsString == \A s \in Text : String(s)
BY DEF Text, String

(* No datagram is larger than UDP carries, and the numbers and strings that*)
(* travel are what their types say.                                        *)
THEOREM DatagramsTyped == Spec => []TypeOK
<1>1. ProtocolInv => TypeOK
  <2> SUFFICES ASSUME ProtocolInv PROVE TypeOK
    OBVIOUS
  <2>1. ASSUME NEW r \in 1 .. Len(requests)
        PROVE  requests[r].name \in NamesFor(requests[r].kind) /\ requests[r].size \in Sizes
    BY SentProperties DEF ProtocolInv, Requested, Asked, RequestSet
  <2>2. ASSUME NEW a \in answers
        PROVE  /\ a.size \in 0 .. MaxDatagram
               /\ a.message_seq \in OnTheWire(1 .. MaxRequests)
               /\ Complex(a.command) => a.param \in OnTheWire(Ports \cup Sizes)
               /\ String(a.data)
    <3>1. PICK r \in Asked : Belongs(a, r)
      BY DEF ProtocolInv, Answered
    <3>2. r \in 1 .. MaxRequests
      BY ProtocolAssumption DEF ProtocolInv, Requested, Asked
    <3>3. a.message_seq = [value |-> r, swapped |-> {64}]
      BY <3>1, SwapProperties DEF Belongs
    <3>4. a.message_seq \in OnTheWire(1 .. MaxRequests)
      BY <3>2, <3>3 DEF OnTheWire
    <3> DEFINE n == a.size
    <3>6. n \in Nat /\ n <= MaxDatagram
      BY <3>1 DEF Belongs
    <3> HIDE DEF n
    <3>7. n \in 0 .. MaxDatagram
      BY <3>6, MaxDatagramNat, AtMost
    <3>5. a.size \in 0 .. MaxDatagram
      BY <3>7 DEF n
    <3> QED
      BY <3>1, <3>4, <3>5, TextIsString DEF Belongs
  <2>3. /\ \A o \in opened : o.node \in Nodes /\ o.port \in Ports /\ String(o.name)
        /\ listening \subseteq [node : Nodes, port : Ports]
    BY TextIsString DEF ProtocolInv, Opened
  <2>4. ASSUME NEW m \in acted
        PROVE  m.request \in 1 .. Len(requests) /\ m.node \in Nodes /\ String(m.name)
    <3>1. m.request \in Asked /\ m.node \in Nodes /\ m.name = Sent(m.request).data
      BY DEF ProtocolInv, ActedOn
    <3>2. Sent(m.request).data \in Text
      BY <3>1, SentProperties DEF ProtocolInv
    <3> QED
      BY <3>1, <3>2, TextIsString DEF Asked
  <2>5. \A t \in taken : t.request \in 1 .. Len(requests)
    BY DEF ProtocolInv, Taken, Asked
  <2>6. stored \in [Nodes -> SUBSET Files] /\ Len(requests) <= MaxRequests /\ handled \in 0 .. MaxHandled
    BY DEF ProtocolInv, Requested
  <2> QED
    BY <2>1, <2>2, <2>3, <2>4, <2>5, <2>6 DEF TypeOK
<1> QED
  BY <1>1, ProtocolInvariant, PTL

(* A node receives the name that the request was made with, whatever its   *)
(* length up to 65535, for udp_socket::send does not cut it unnoticed, and *)
(* the size that the client announced.                                     *)
THEOREM NamesMeant == Spec => []Meant
<1>1. ProtocolInv => Meant
  <2> SUFFICES ASSUME ProtocolInv, NEW m \in acted
               PROVE  /\ requests[m.request].name.length < 65536 => m.name = requests[m.request].name
                      /\ requests[m.request].kind = "upload" => m.size = Integer(requests[m.request].size)
    BY DEF Meant
  <2>1. /\ m.request \in Asked /\ requests[m.request].out
        /\ Sent(m.request).size >= Header(Sent(m.request).command)
        /\ m.name = Sent(m.request).data
        /\ m.size = Swap(64, Sent(m.request).param)
    BY DEF ProtocolInv, ActedOn
  <2>2. requests[m.request].name.length < 65536 => Short(requests[m.request].name.length)
    BY DEF Short
  <2>3. requests[m.request].kind = "upload" => m.size = Integer(requests[m.request].size)
    BY <2>1, SentProperties, SwapProperties DEF ProtocolInv, SizeParam
  <2> QED
    BY <2>1, <2>2, <2>3, SentProperties DEF ProtocolInv
<1> QED
  BY <1>1, ProtocolInvariant, PTL

(* The port that the client connects to was opened by the node it asked for*)
(* this request, and, in a fetch, for this file, whichever answers come    *)
(* late, twice or never, whoever has had the port before or has it by then,*)
(* and whichever names the threads of the node have read.                  *)
THEOREM PortsConnect == Spec => []ConnectsToListener
<1>1. ProtocolInv => ConnectsToListener
  BY DEF ProtocolInv, Taken, ConnectsToListener, Connects, TakenFrom, ListensFor
<1> QED
  BY <1>1, ProtocolInvariant, PTL

(* What one side sends in full, the other side's validation lets pass.     *)
THEOREM MessagesUnderstood == Spec => []Understood
<1>1. ProtocolInv => Understood
  <2> SUFFICES ASSUME ProtocolInv PROVE Understood
    OBVIOUS
  <2>1. ASSUME NEW r \in Asked, requests[r].out, Whole(r), requests[r].kind = "remove" => requests[r].name # Empty
        PROVE  MessageValidation(Sent(r))
    <3>1. /\ requests[r].kind \in Kinds /\ requests[r].name \in Text /\ requests[r].name.length \in Nat
          /\ Sent(r).command = Command(requests[r].kind)
          /\ Sent(r).size = WireLength(Sent(r).command, requests[r].name.length)
          /\ requests[r].name \in NamesFor(requests[r].kind)
      BY <2>1, SentProperties DEF ProtocolInv, Requested
    <3> DEFINE n == requests[r].name.length
               h == Header(Sent(r).command)
               size == Sent(r).size
    <3>2. n <= MaxData(Sent(r).command)
      BY <2>1, <3>1 DEF Whole
    <3>3. size = h + n /\ h \in Nat /\ n \in Nat
      BY <3>1, <3>2, WireLengthProperties, HeaderProperties
    <3> HIDE DEF n, h, size
    <3>4. size >= h /\ (n = 0 <=> size = h)
      BY <3>3
    <3>5. /\ requests[r].kind = "discover" => n = 0
          /\ requests[r].kind \in {"fetch", "upload", "remove"} => n # 0
      <4>1. requests[r].kind = "discover" => requests[r].name = Empty
        BY <3>1 DEF NamesFor
      <4>2. requests[r].kind \in {"fetch", "upload"} => requests[r].name # Empty
        BY <3>1, NamesAreText DEF NamesFor
      <4>3. n = 0 <=> requests[r].name = Empty
        BY <3>1 DEF n, Text, Empty
      <4> QED
        BY <2>1, <4>1, <4>2, <4>3
    <3>6. /\ Sent(r).command \in {"HELLO", "LIST", "GET", "ADD", "DEL"}
          /\ Sent(r).command = "HELLO" => n = 0
          /\ Sent(r).command \in {"GET", "DEL"} => n # 0
          /\ Sent(r).command # "ADD" => h = simple_message_no_data_size
      BY <3>1, <3>5, Commands DEF Command, Kinds, h, Header, Complex
    <3> QED
      BY <3>4, <3>6 DEF MessageValidation, IsValidCommand, size, h
  <2>2. ASSUME NEW a \in answers
        PROVE  /\ IsAnswerTo(a.message_seq.value, a)
               /\ ComparesData(a.command) => \E node \in Nodes : a.data \in LateNames(node)
    <3>1. PICK r \in Asked : Belongs(a, r)
      BY DEF ProtocolInv, Answered
    <3>2. a.message_seq.value = r
      BY <3>1, SwapProperties DEF Belongs
    <3> QED
      BY <3>1, <3>2 DEF Belongs, ReadAt
  <2> QED
    BY <2>1, <2>2 DEF Understood, Asked
<1> QED
  BY <1>1, ProtocolInvariant, PTL

(* No string reaches the end of the array that it is read from.            *)
THEOREM StringsTerminated == Spec => []StringsEnd
<1>1. ProtocolInv => StringsEnd
  <2> SUFFICES ASSUME ProtocolInv PROVE StringsEnd
    OBVIOUS
  <2>1. ASSUME NEW command, NEW s \in Text, Fits(command, s.length) PROVE s.length < DataRoom(command)
    <3> DEFINE n == s.length
               m == MaxData(command)
    <3>1. n \in Nat /\ m \in Nat /\ n <= m
      BY <2>1, HeaderProperties DEF Text, Fits
    <3> HIDE DEF n, m
    <3>2. n < m + 1
      BY <3>1
    <3> QED
      BY <3>2 DEF DataRoom, n, m
  <2>2. ASSUME NEW r \in Asked PROVE Sent(r).data.length < DataRoom(Sent(r).command)
    BY <2>1, SentProperties DEF ProtocolInv
  <2>3. ASSUME NEW a \in answers PROVE a.data.length < DataRoom(a.command)
    <3>1. a.data \in Text /\ Fits(a.command, a.data.length)
      BY DEF ProtocolInv, Answered, Belongs
    <3> QED
      BY <2>1, <3>1
  <2> QED
    BY <2>2, <2>3 DEF StringsEnd, Asked
<1> QED
  BY <1>1, ProtocolInvariant, PTL
-----------------------------------------------------------------------------
(***************************************************************************)
(* Sockets. Which objects a thread does not have yet, or no longer, at each*)
(* point; and, as long as accept and getsockname do not fail, the table is *)
(* exactly what main's sockets and the objects that will close it make it. *)
(***************************************************************************)
Absent(p) ==
  CASE p \in {"discover", "start", "returned"}         -> Objects
    [] p \in {"discovered", "waiting", "close first"} -> {"second", "stream"}
    [] p \in {"connected", "close second"}            -> {"stream"}
    [] OTHER                                           -> {}

Held == \A t \in Threads : \A o \in Absent(at[t]) : object[t][o] = NoObject

Sound ==
  /\ \A t \in Threads, o \in Objects :
       object[t][o].fd # Unset /\ (object[t][o].closed # "no" => object[t][o].fd = Bad)
  /\ \A t \in Threads, o \in Objects, d \in Descriptors : Owns(t, o, d) => table[d] = <<t, o>>
  /\ \A d \in MainSockets : table[d] = <<Main, "main">>
  /\ \A d \in Descriptors \ MainSockets :
       table[d] # Free => \E t \in Threads, o \in Objects : Owns(t, o, d)

SocketsInv == SocketsTypeOK /\ Held /\ (~failed => Sound)

(* A set of numbers that is not empty has a least one.                     *)
LEMMA MinProperties ==
  ASSUME NEW S \in SUBSET Nat, S # {}
  PROVE  Min(S) \in S /\ \A y \in S : Min(S) <= y
<1> DEFINE less == {p \in Nat \X Nat : p[1] < p[2]}
<1>1. IsWellFoundedOn(less, Nat)
  BY NatLessThanWellFounded, Zenon DEF OpToRel
<1> HIDE DEF less
<1>2. PICK x \in S : \A y \in S : ~(<<y, x>> \in less)
  BY <1>1, WFMin
<1>3. \A y \in S : x <= y
  <2>1. \A y \in S : y \in Nat /\ x \in Nat
    OBVIOUS
  <2>2. \A y \in S : y < x => <<y, x>> \in less
    BY <2>1 DEF less
  <2>3. \A y \in S : ~(y < x)
    BY <1>2, <2>2, Zenon
  <2> QED
    BY <2>1, <2>3
<1> QED
  BY <1>3 DEF Min

Points    == {"discover", "discovered", "start", "waiting", "connected", "copying",
              "close stream", "close second", "close first", "returned"}
ObjectSet == [fd : Descriptors \cup {Bad, Unset}, closed : {"yes", "no", "unset"}]
TableSet  == [Descriptors -> ((Threads \cup {Main}) \X (Objects \cup {"main", "free"}))]

(* The type invariant, except for what Held says as well.                  *)
LEMMA SocketsTypes ==
  SocketsTypeOK <=>
    /\ kind \in [Threads -> ServerKinds \cup ClientKinds]
    /\ at \in [Threads -> Points]
    /\ object \in [Threads -> [Objects -> ObjectSet]]
    /\ table \in TableSet
    /\ failed \in BOOLEAN
    /\ \A t \in Threads, o \in Objects :
         at[t] \in {"discover", "start", "returned"} => object[t][o] = NoObject
BY DEF SocketsTypeOK, Points, ObjectSet, TableSet

(* A thread that has not begun, or has returned, has no object.            *)
LEMMA HeldTypes ==
  Held => \A t \in Threads, o \in Objects :
            at[t] \in {"discover", "start", "returned"} => object[t][o] = NoObject
<1>1. \A p \in {"discover", "start", "returned"} : Absent(p) = Objects
  BY DEF Absent
<1> QED
  BY <1>1 DEF Held

(* The objects of create_socket, and one that is only declared, are        *)
(* objects; the numbers that stand for no descriptor are none.             *)
LEMMA ObjectFacts ==
  /\ NoObject \in ObjectSet /\ NoObject.fd = Bad /\ NoObject.closed = "yes"
  /\ Declared \in ObjectSet
  /\ \A fd \in Descriptors \cup {Bad}, c \in {"yes", "no", "unset"} :
       /\ [fd |-> fd, closed |-> c] \in ObjectSet
       /\ [fd |-> fd, closed |-> c].fd = fd /\ [fd |-> fd, closed |-> c].closed = c
       /\ fd # Unset
  /\ Bad # Unset /\ Bad \notin Descriptors /\ Unset \notin Descriptors
BY SocketsAssumption DEF NoObject, Declared, ObjectSet

(* The lowest free number is free.                                         *)
LEMMA LowestProperties ==
  ASSUME Unused # {}
  PROVE  Lowest \in Descriptors /\ table[Lowest] = Free
<1>1. Unused \in SUBSET Nat
  BY SocketsAssumption DEF Unused, Descriptors
<1>2. Lowest \in Unused
  BY <1>1, MinProperties DEF Lowest
<1> QED
  BY <1>2 DEF Unused

(* What a thread sets of its objects, nothing else.                        *)
Puts(t, o, x) == object' = [object EXCEPT ![t][o] = x]

Became(t, o, x) ==
  /\ object' \in [Threads -> [Objects -> ObjectSet]]
  /\ object'[t][o] = x
  /\ \A t1 \in Threads, o1 \in Objects : t1 # t \/ o1 # o => object'[t1][o1] = object[t1][o1]

(* It is what it was set to, and the others are what they were.            *)
LEMMA SetProperties ==
  ASSUME SocketsTypeOK, NEW t \in Threads, NEW o \in Objects, NEW x \in ObjectSet, Puts(t, o, x)
  PROVE  Became(t, o, x)
<1>1. object \in [Threads -> [Objects -> ObjectSet]]
  BY SocketsTypes
<1>2. object' = [object EXCEPT ![t] = [object[t] EXCEPT ![o] = x]]
  BY DEF Puts
<1>3. object[t] \in [Objects -> ObjectSet]
  BY <1>1
<1>4. [object[t] EXCEPT ![o] = x] \in [Objects -> ObjectSet]
  BY <1>3
<1>5. object' \in [Threads -> [Objects -> ObjectSet]]
  BY <1>1, <1>2, <1>4
<1>6. object'[t] = [object[t] EXCEPT ![o] = x] /\ \A t1 \in Threads \ {t} : object'[t1] = object[t1]
  BY <1>1, <1>2
<1>7. object'[t][o] = x /\ \A o1 \in Objects \ {o} : object'[t][o1] = object[t][o1]
  BY <1>3, <1>6
<1> QED
  BY <1>5, <1>6, <1>7 DEF Became

(* A thread that goes on has the objects that it had, but for those that   *)
(* it is said to have gained or lost.                                      *)
LEMMA HeldKeeps ==
  ASSUME SocketsTypeOK, Held, NEW t \in Threads, NEW p \in Points, GoTo(t, p),
         \A t1 \in Threads \ {t}, o1 \in Objects : object'[t1][o1] = object[t1][o1],
         \A o1 \in Absent(p) : object'[t][o1] = NoObject
  PROVE  Held'
<1>1. at \in [Threads -> Points]
  BY SocketsTypes
<1>2. at'[t] = p /\ \A t1 \in Threads \ {t} : at'[t1] = at[t1]
  BY <1>1 DEF GoTo
<1>3. \A q : Absent(q) \subseteq Objects
  BY DEF Absent, Objects
<1>4. ASSUME NEW t1 \in Threads, NEW o1 \in Absent(at'[t1]) PROVE object'[t1][o1] = NoObject
  <2>1. CASE t1 = t
    BY <1>2, <1>4, <2>1
  <2>2. CASE t1 # t
    BY <1>2, <1>3, <1>4, <2>2 DEF Held
  <2> QED
    BY <2>1, <2>2
<1> QED
  BY <1>4 DEF Held

(* The types after a step of one thread.                                   *)
LEMMA SocketsTypesKeep ==
  ASSUME SocketsTypeOK, UNCHANGED kind, NEW t \in Threads, NEW p \in Points, GoTo(t, p),
         object' \in [Threads -> [Objects -> ObjectSet]], table' \in TableSet, failed' \in BOOLEAN,
         Held'
  PROVE  SocketsTypeOK'
<1>1. /\ kind' \in [Threads -> ServerKinds \cup ClientKinds]
      /\ at' \in [Threads -> Points]
  BY SocketsTypes DEF GoTo
<1>2. \A q \in Threads, o \in Objects :
        at'[q] \in {"discover", "start", "returned"} => object'[q][o] = NoObject
  <2>1. \A q \in {"discover", "start", "returned"} : Absent(q) = Objects
    BY DEF Absent
  <2> QED
    BY <2>1 DEF Held
<1> QED
  BY <1>1, <1>2 DEF SocketsTypeOK, Points, ObjectSet, TableSet

(* The table after a descriptor was opened or closed is a table.           *)
LEMMA TableProperties ==
  ASSUME NEW tab \in TableSet
  PROVE  /\ \A t \in Threads, o \in Objects : \A d : [tab EXCEPT ![d] = <<t, o>>] \in TableSet
         /\ \A d : Closed(tab, d) \in TableSet
         /\ \A x : Destroyed(x, tab) \subseteq TableSet
<1>1. \A t \in Threads, o \in Objects : \A d : [tab EXCEPT ![d] = <<t, o>>] \in TableSet
  BY DEF TableSet
<1>2. ASSUME NEW d PROVE Closed(tab, d) \in TableSet
  <2>1. Free \in (Threads \cup {Main}) \X (Objects \cup {"main", "free"})
    BY DEF Free
  <2>2. \A e \in Descriptors : tab[e] \in (Threads \cup {Main}) \X (Objects \cup {"main", "free"})
    BY DEF TableSet
  <2> QED
    BY <2>1, <2>2 DEF Closed, TableSet
<1>3. \A x : Destroyed(x, tab) \subseteq TableSet
  BY <1>2 DEF Destroyed
<1> QED
  BY <1>1, <1>2, <1>3

(* A step that neither opens nor closes.                                   *)
LEMMA QuietKeeps ==
  ASSUME SocketsInv, NEW t \in Threads, NEW p \in Points, GoTo(t, p), Absent(p) \subseteq Absent(at[t]),
         UNCHANGED <<kind, object, table, failed>>
  PROVE  SocketsInv'
<1>1. Held'
  BY HeldKeeps DEF SocketsInv, Held
<1>2. SocketsTypeOK'
  BY <1>1, SocketsTypesKeep, SocketsTypes DEF SocketsInv
<1>3. ASSUME Sound PROVE Sound'
  <2>1. \A t1 \in Threads, o1 \in Objects, d \in Descriptors : Owns(t1, o1, d)' <=> Owns(t1, o1, d)
    BY DEF Owns
  <2>2. \A t1 \in Threads, o1 \in Objects :
          object'[t1][o1].fd # Unset /\ (object'[t1][o1].closed # "no" => object'[t1][o1].fd = Bad)
    BY <1>3 DEF Sound
  <2> QED
    BY <1>3, <2>1, <2>2 DEF Sound
<1> QED
  BY <1>1, <1>2, <1>3 DEF SocketsInv

(* accept or getsockname fails: all that is left to say is of which type   *)
(* things are, and which objects there are.                                *)
LEMMA FailureKeeps ==
  ASSUME SocketsInv, NEW t \in Threads, NEW p \in Points, GoTo(t, p),
         NEW o \in Objects, NEW x \in ObjectSet, object' = [object EXCEPT ![t][o] = x],
         Absent(p) \subseteq Absent(at[t]) \ {o},
         table' \in TableSet, failed' = TRUE, UNCHANGED kind
  PROVE  SocketsInv'
<1>1. /\ object' \in [Threads -> [Objects -> ObjectSet]]
      /\ \A t1 \in Threads, o1 \in Objects : t1 # t \/ o1 # o => object'[t1][o1] = object[t1][o1]
  <2>1. SocketsTypeOK /\ Puts(t, o, x)
    BY DEF SocketsInv, Puts
  <2>2. Became(t, o, x)
    BY <2>1, SetProperties, Zenon
  <2> QED
    BY <2>2 DEF Became
<1>2. \A o1 \in Absent(p) : o1 \in Objects /\ object'[t][o1] = NoObject
  BY <1>1 DEF SocketsInv, Held, Absent, Objects
<1>3. Held'
  BY <1>1, <1>2, HeldKeeps DEF SocketsInv
<1>4. SocketsTypeOK'
  BY <1>1, <1>3, SocketsTypesKeep DEF SocketsInv
<1> QED
  BY <1>3, <1>4 DEF SocketsInv

(* A call that gives no descriptor leaves an object that has none.         *)
LEMMA NothingOpened ==
  ASSUME SocketsInv, NEW t \in Threads, NEW p \in Points, GoTo(t, p),
         NEW o \in Absent(at[t]), NEW c \in {"unset", "no"}, Set(t, o, Bad, c),
         Absent(p) \subseteq Absent(at[t]) \ {o},
         UNCHANGED <<kind, table, failed>>
  PROVE  SocketsInv'
<1>a. PICK x : x = [fd |-> Bad, closed |-> c]
  OBVIOUS
<1>b. x \in ObjectSet /\ x.fd = Bad
  BY <1>a, ObjectFacts
<1>c. o \in Objects /\ object[t][o] = NoObject
  <2>1. \A q : Absent(q) \subseteq Objects
    BY DEF Absent, Objects
  <2> QED
    BY <2>1 DEF SocketsInv, Held
<1>0. /\ SocketsTypeOK /\ object' = [object EXCEPT ![t][o] = x]
      /\ o \in Objects /\ object[t][o] = NoObject /\ x \in ObjectSet /\ x.fd = Bad
  BY <1>a, <1>b, <1>c DEF SocketsInv, Set
<1>f. Became(t, o, x)
  <2>1. o \in Objects /\ x \in ObjectSet /\ SocketsTypeOK /\ Puts(t, o, x)
    BY <1>0 DEF Puts
  <2> QED
    BY <2>1, SetProperties, Zenon
<1>1. /\ object' \in [Threads -> [Objects -> ObjectSet]]
      /\ object'[t][o] = x
      /\ \A t1 \in Threads, o1 \in Objects : t1 # t \/ o1 # o => object'[t1][o1] = object[t1][o1]
  BY <1>f DEF Became
<1>2. \A o1 \in Absent(p) : o1 \in Objects /\ object'[t][o1] = NoObject
  BY <1>1 DEF SocketsInv, Held, Absent, Objects
<1>3. Held'
  BY <1>1, <1>2, HeldKeeps DEF SocketsInv
<1>4. SocketsTypeOK'
  BY <1>1, <1>3, SocketsTypesKeep, SocketsTypes DEF SocketsInv
<1>5. ASSUME Sound PROVE Sound'
  <2>1. \A t1 \in Threads, o1 \in Objects, d \in Descriptors : Owns(t1, o1, d)' <=> Owns(t1, o1, d)
    BY <1>0, <1>1, ObjectFacts DEF Owns
  <2>2. \A t1 \in Threads, o1 \in Objects :
          object'[t1][o1].fd # Unset /\ (object'[t1][o1].closed # "no" => object'[t1][o1].fd = Bad)
    BY <1>0, <1>1, <1>5, ObjectFacts DEF Sound
  <2> QED
    BY <1>5, <2>1, <2>2 DEF Sound
<1> QED
  BY <1>3, <1>4, <1>5 DEF SocketsInv

(* The system gives out the lowest free number, and it is the object's.    *)
LEMMA OpeningKeeps ==
  ASSUME SocketsInv, NEW t \in Threads, NEW p \in Points, GoTo(t, p), Unused # {},
         NEW o \in Absent(at[t]), Set(t, o, Lowest, "no"), Open(t, o),
         Absent(p) \subseteq Absent(at[t]) \ {o},
         UNCHANGED <<kind, failed>>
  PROVE  SocketsInv'
<1>a. PICK fd : fd = Lowest
  OBVIOUS
<1>b. PICK x : x = [fd |-> fd, closed |-> "no"]
  OBVIOUS
<1>c. fd \in Descriptors /\ table[fd] = Free
  BY <1>a, LowestProperties
<1>d. x \in ObjectSet /\ x.fd = fd /\ x.closed = "no" /\ fd # Unset
  BY <1>b, <1>c, ObjectFacts
<1>e. o \in Objects /\ object[t][o] = NoObject
  <2>1. \A q : Absent(q) \subseteq Objects
    BY DEF Absent, Objects
  <2> QED
    BY <2>1 DEF SocketsInv, Held
<1>0. /\ SocketsTypeOK /\ object' = [object EXCEPT ![t][o] = x]
      /\ o \in Objects /\ object[t][o] = NoObject
      /\ fd \in Descriptors /\ table[fd] = Free
      /\ x \in ObjectSet /\ x.fd = fd /\ x.closed = "no" /\ fd # Unset
  BY <1>a, <1>b, <1>c, <1>d, <1>e DEF SocketsInv, Set
<1>f. Became(t, o, x)
  <2>1. o \in Objects /\ x \in ObjectSet /\ SocketsTypeOK /\ Puts(t, o, x)
    BY <1>0 DEF Puts
  <2> QED
    BY <2>1, SetProperties, Zenon
<1>1. /\ object' \in [Threads -> [Objects -> ObjectSet]]
      /\ object'[t][o] = x
      /\ \A t1 \in Threads, o1 \in Objects : t1 # t \/ o1 # o => object'[t1][o1] = object[t1][o1]
  BY <1>f DEF Became
<1>2. \A o1 \in Absent(p) : o1 \in Objects /\ object'[t][o1] = NoObject
  BY <1>1 DEF SocketsInv, Held, Absent, Objects
<1>3. Held'
  BY <1>1, <1>2, HeldKeeps DEF SocketsInv
<1>4. /\ table \in TableSet /\ table' = [table EXCEPT ![fd] = <<t, o>>]
  BY <1>a, SocketsTypes DEF Open, SocketsInv
<1>5. table' \in TableSet
  BY <1>0, <1>4, TableProperties
<1>6. table'[fd] = <<t, o>> /\ \A d \in Descriptors \ {fd} : table'[d] = table[d]
  BY <1>0, <1>4 DEF TableSet
<1>7. SocketsTypeOK'
  BY <1>1, <1>3, <1>5, SocketsTypesKeep, SocketsTypes DEF SocketsInv
<1>8. ASSUME Sound PROVE Sound'
  <2>1. \A t1 \in Threads, o1 \in Objects, d \in Descriptors :
          t1 # t \/ o1 # o => (Owns(t1, o1, d)' <=> Owns(t1, o1, d))
    BY <1>1 DEF Owns
  <2>2. (\A d \in Descriptors : Owns(t, o, d)' <=> d = fd) /\ \A d \in Descriptors : ~Owns(t, o, d)
    BY <1>0, <1>1, ObjectFacts DEF Owns
  <2>3. \A t1 \in Threads, o1 \in Objects :
          object'[t1][o1].fd # Unset /\ (object'[t1][o1].closed # "no" => object'[t1][o1].fd = Bad)
    BY <1>0, <1>1, <1>8 DEF Sound
  <2>4. /\ \A t1 \in Threads, o1 \in Objects : <<t1, o1>> # Free
        /\ <<Main, "main">> # Free
    BY DEF Free, Objects
  <2>5. \A t1 \in Threads, o1 \in Objects, d \in Descriptors : Owns(t1, o1, d)' => table'[d] = <<t1, o1>>
    <3>1. ASSUME NEW t1 \in Threads, NEW o1 \in Objects, NEW d \in Descriptors, Owns(t1, o1, d)'
          PROVE  table'[d] = <<t1, o1>>
      <4>1. CASE t1 = t /\ o1 = o
        BY <1>6, <2>2, <3>1, <4>1
      <4>2. CASE t1 # t \/ o1 # o
        <5>1. Owns(t1, o1, d)
          BY <2>1, <3>1, <4>2
        <5>2. table[d] = <<t1, o1>>
          BY <1>8, <5>1 DEF Sound
        <5>3. d # fd
          BY <1>0, <2>4, <5>2
        <5> QED
          BY <1>6, <5>2, <5>3
      <4> QED
        BY <4>1, <4>2
    <3> QED
      BY <3>1
  <2>6. \A d \in MainSockets : table'[d] = <<Main, "main">>
    BY <1>0, <1>6, <1>8, <2>4, SocketsAssumption DEF Sound
  <2>7. \A d \in Descriptors \ MainSockets :
          table'[d] # Free => \E t1 \in Threads, o1 \in Objects : Owns(t1, o1, d)'
    BY <1>0, <1>6, <1>8, <2>1, <2>2 DEF Sound
  <2> QED
    BY <2>3, <2>5, <2>6, <2>7 DEF Sound
<1> QED
  BY <1>3, <1>7, <1>8 DEF SocketsInv

(* A destructor closes the descriptor of its object and of no other.       *)
LEMMA DestroyKeeps ==
  ASSUME SocketsInv, NEW t \in Threads, NEW p \in Points, NEW o \in Objects, Destroy(t, o, p),
         Absent(p) \subseteq Absent(at[t]) \cup {o}
  PROVE  SocketsInv'
<1> DEFINE x == object[t][o]
<1>0. /\ table' \in Destroyed(x, table) /\ GoTo(t, p) /\ UNCHANGED <<kind, failed>>
      /\ object' = [object EXCEPT ![t][o] = NoObject]
  BY DEF Destroy
<1>a. PICK none : none = NoObject
  OBVIOUS
<1>b. SocketsTypeOK /\ none \in ObjectSet /\ Puts(t, o, none)
  BY <1>0, <1>a, ObjectFacts DEF SocketsInv, Puts
<1>c. Became(t, o, none)
  BY <1>b, SetProperties, Zenon
<1>1. /\ object' \in [Threads -> [Objects -> ObjectSet]]
      /\ object'[t][o] = NoObject
      /\ \A t1 \in Threads, o1 \in Objects : t1 # t \/ o1 # o => object'[t1][o1] = object[t1][o1]
  BY <1>a, <1>c DEF Became
<1>2. \A o1 \in Absent(p) : o1 \in Objects /\ object'[t][o1] = NoObject
  BY <1>1 DEF SocketsInv, Held, Absent, Objects
<1>3. Held'
  BY <1>0, <1>1, <1>2, HeldKeeps DEF SocketsInv
<1>4. table \in TableSet /\ x \in ObjectSet
  BY SocketsTypes DEF SocketsInv
<1>5. table' \in TableSet
  BY <1>0, <1>4, TableProperties
<1>7. SocketsTypeOK'
  BY <1>0, <1>1, <1>3, <1>5, SocketsTypesKeep, SocketsTypes DEF SocketsInv
<1>8. ASSUME Sound PROVE Sound'
  <2>1. x.fd \in Descriptors \cup {Bad} /\ (x.closed # "no" => x.fd = Bad)
    BY <1>4, <1>8 DEF Sound, ObjectSet
  <2>2. PICK c \in Closings(x) : table' = IF c THEN Closed(table, x.fd) ELSE table
    BY <1>0, <2>1, ObjectFacts DEF Destroyed, Numbers
  <2>3. /\ \A d \in Descriptors : table'[d] = IF Owns(t, o, d) THEN Free ELSE table[d]
    <3>1. CASE x.closed = "no"
      BY <2>2, <3>1 DEF Closings, Closed, Owns
    <3>2. CASE x.closed # "no"
      BY <2>1, <2>2, <3>2, ObjectFacts DEF Closed, Owns
    <3> QED
      BY <3>1, <3>2
  <2>4. \A t1 \in Threads, o1 \in Objects, d \in Descriptors :
          Owns(t1, o1, d)' <=> Owns(t1, o1, d) /\ (t1 # t \/ o1 # o)
    BY <1>1, ObjectFacts DEF Owns
  <2>5. \A t1 \in Threads, o1 \in Objects :
          object'[t1][o1].fd # Unset /\ (object'[t1][o1].closed # "no" => object'[t1][o1].fd = Bad)
    BY <1>1, <1>8, ObjectFacts DEF Sound
  <2>6. \A t1 \in Threads, o1 \in Objects, d \in Descriptors : Owns(t1, o1, d)' => table'[d] = <<t1, o1>>
    <3>1. ASSUME NEW t1 \in Threads, NEW o1 \in Objects, NEW d \in Descriptors, Owns(t1, o1, d)'
          PROVE  table'[d] = <<t1, o1>>
      <4>1. table[d] = <<t1, o1>> /\ (t1 # t \/ o1 # o)
        BY <1>8, <2>4, <3>1 DEF Sound
      <4>2. Owns(t, o, d) => table[d] = <<t, o>>
        BY <1>8 DEF Sound
      <4>3. ~Owns(t, o, d)
        BY <4>1, <4>2
      <4> QED
        BY <2>3, <4>1, <4>3
    <3> QED
      BY <3>1
  <2>7. \A d \in MainSockets : table'[d] = <<Main, "main">>
    <3>1. ASSUME NEW d \in MainSockets PROVE d \in Descriptors /\ ~Owns(t, o, d) /\ table[d] = <<Main, "main">>
      <4>1. d \in Descriptors /\ table[d] = <<Main, "main">> /\ <<Main, "main">> # <<t, o>>
        BY <1>8, SocketsAssumption DEF Sound, Objects
      <4> QED
        BY <1>8, <4>1 DEF Sound
    <3> QED
      BY <2>3, <3>1
  <2>8. \A d \in Descriptors \ MainSockets :
          table'[d] # Free => \E t1 \in Threads, o1 \in Objects : Owns(t1, o1, d)'
    <3>1. ASSUME NEW d \in Descriptors \ MainSockets, table'[d] # Free
          PROVE  \E t1 \in Threads, o1 \in Objects : Owns(t1, o1, d)'
      <4>1. ~Owns(t, o, d) /\ table[d] # Free
        BY <2>3, <3>1
      <4>2. PICK t1 \in Threads, o1 \in Objects : Owns(t1, o1, d)
        BY <1>8, <4>1 DEF Sound
      <4>3. t1 # t \/ o1 # o
        BY <4>1, <4>2
      <4> QED
        BY <2>4, <4>2, <4>3
    <3> QED
      BY <3>1
  <2> QED
    BY <2>5, <2>6, <2>7, <2>8 DEF Sound
<1> QED
  BY <1>0, <1>3, <1>7, <1>8 DEF SocketsInv
(* The objects that a thread does not have, point by point.                *)
LEMMA AbsentAt ==
  /\ Absent("discover") = Objects /\ Absent("start") = Objects /\ Absent("returned") = Objects
  /\ Absent("discovered") = {"second", "stream"}
  /\ Absent("waiting") = {"second", "stream"}
  /\ Absent("close first") = {"second", "stream"}
  /\ Absent("connected") = {"stream"}
  /\ Absent("close second") = {"stream"}
  /\ Absent("copying") = {}
  /\ Absent("close stream") = {}
BY DEF Absent

(* create_socket for TCP, with all that it may leave.                      *)
LEMMA CreateTcpKeeps ==
  ASSUME SocketsInv, NEW t \in Threads, NEW o \in Absent(at[t]),
         NEW next \in Points, NEW out \in Points,
         Absent(next) \subseteq Absent(at[t]) \ {o}, Absent(out) \subseteq Absent(at[t]) \ {o},
         CreateTcp(t, o, next, out), UNCHANGED kind
  PROVE  SocketsInv'
<1>1. CASE Set(t, o, Bad, "unset") /\ GoTo(t, out) /\ UNCHANGED <<table, failed>>
  BY <1>1, NothingOpened
<1>2. CASE /\ Unused # {} /\ Open(t, o)
           /\ Set(t, o, Lowest, "no") /\ GoTo(t, next) /\ UNCHANGED failed
  BY <1>2, OpeningKeeps
<1>3. CASE /\ Unused # {} /\ Open(t, o)
           /\ Set(t, o, Lowest, "unset") /\ GoTo(t, out) /\ failed' = TRUE
  <2>1. PICK fd : fd = Lowest
    OBVIOUS
  <2>2. PICK x : x = [fd |-> fd, closed |-> "unset"]
    OBVIOUS
  <2>3. fd \in Descriptors
    BY <1>3, <2>1, LowestProperties
  <2>4. x \in ObjectSet /\ object' = [object EXCEPT ![t][o] = x]
    BY <1>3, <2>1, <2>2, <2>3, ObjectFacts DEF Set
  <2>5. \A q : Absent(q) \subseteq Objects
    BY DEF Absent, Objects
  <2>6. o \in Objects
    BY <2>5
  <2>7. table \in TableSet /\ table' = [table EXCEPT ![fd] = <<t, o>>]
    BY <1>3, <2>1, SocketsTypes DEF Open, SocketsInv
  <2>8. table' \in TableSet
    BY <2>6, <2>7, TableProperties
  <2> QED
    BY <1>3, <2>4, <2>6, <2>8, FailureKeeps
<1> QED
  BY <1>1, <1>2, <1>3 DEF CreateTcp, NotClosed

(* create_socket for UDP.                                                  *)
LEMMA CreateUdpKeeps ==
  ASSUME SocketsInv, NEW t \in Threads, NEW o \in Absent(at[t]),
         NEW next \in Points, NEW out \in Points,
         Absent(next) \subseteq Absent(at[t]) \ {o}, Absent(out) \subseteq Absent(at[t]) \ {o},
         CreateUdp(t, o, next, out), UNCHANGED kind
  PROVE  SocketsInv'
<1>1. CASE Set(t, o, Bad, "no") /\ GoTo(t, out) /\ UNCHANGED <<table, failed>>
  BY <1>1, NothingOpened
<1>2. CASE Unused # {} /\ Open(t, o) /\ Set(t, o, Lowest, "no") /\ GoTo(t, next) /\ UNCHANGED failed
  BY <1>2, OpeningKeeps
<1>3. CASE Unused # {} /\ Open(t, o) /\ Set(t, o, Lowest, "no") /\ GoTo(t, out) /\ UNCHANGED failed
  BY <1>3, OpeningKeeps
<1> QED
  BY <1>1, <1>2, <1>3 DEF CreateUdp

(* The socket of silent_discover, and the one a thread waits on.           *)
LEMMA FirstKeeps ==
  ASSUME SocketsInv, NEW t \in Threads, Discover(t) \/ Start(t)
  PROVE  SocketsInv'
<1>1. CASE Discover(t)
  BY <1>1, AbsentAt, CreateUdpKeeps DEF Discover, At, Points, Objects
<1>2. CASE Start(t)
  <2>1. /\ "first" \in Absent(at[t])
        /\ Absent("waiting") \subseteq Absent(at[t]) \ {"first"}
        /\ Absent("close first") \subseteq Absent(at[t]) \ {"first"}
        /\ "waiting" \in Points /\ "close first" \in Points
    BY <1>2, AbsentAt DEF Start, At, Points, Objects
  <2>2. CASE CreateTcp(t, "first", "waiting", "close first")
    BY <1>2, <2>1, <2>2, CreateTcpKeeps DEF Start
  <2>3. CASE CreateUdp(t, "first", "waiting", "close first")
    BY <1>2, <2>1, <2>3, CreateUdpKeeps DEF Start
  <2> QED
    BY <1>2, <2>2, <2>3 DEF Start
<1> QED
  BY <1>1, <1>2

(* The objects of a thread, destroyed in the reverse order.                *)
LEMMA LeaveKeeps ==
  ASSUME SocketsInv, NEW t \in Threads, Leave(t)
  PROVE  SocketsInv'
<1>1. CASE At(t, "close stream") /\ Destroy(t, "stream", "close second")
  BY <1>1, AbsentAt, DestroyKeeps DEF At, Points, Objects
<1>2. CASE At(t, "close second") /\ Destroy(t, "second", "close first")
  BY <1>2, AbsentAt, DestroyKeeps DEF At, Points, Objects
<1>3. CASE At(t, "close first") /\ Destroy(t, "first", "returned")
  BY <1>3, AbsentAt, DestroyKeeps DEF At, Points, Objects
<1>4. CASE At(t, "discovered") /\ Destroy(t, "first", "start")
  BY <1>4, AbsentAt, DestroyKeeps DEF At, Points, Objects
<1>5. CASE At(t, "discovered") /\ Destroy(t, "first", "returned")
  BY <1>5, AbsentAt, DestroyKeeps DEF At, Points, Objects
<1> QED
  BY <1>1, <1>2, <1>3, <1>4, <1>5 DEF Leave, Rest

(* accept moves the new object to the thread's: what is left of the former *)
(* does not close the descriptor.                                          *)
LEMMA AcceptKeeps ==
  ASSUME SocketsInv, NEW t \in Threads, Accept(t)
  PROVE  SocketsInv'
<1> DEFINE new     == [fd |-> Lowest, closed |-> "no"]
           withNew == [table EXCEPT ![Lowest] = <<t, "second">>]
<1>1. /\ at[t] = "waiting" /\ Unused # {} /\ Set(t, "second", Lowest, "no")
      /\ table' \in Destroyed(LetGo(new), withNew)
      /\ GoTo(t, "connected") /\ UNCHANGED <<kind, failed>>
  BY DEF Accept, At, Set
<1>2. LetGo(new).closed = "yes"
  BY DEF LetGo
<1> HIDE DEF new, withNew
<1>3. \A x, tab : x.closed = "yes" => \A s \in Destroyed(x, tab) : s = tab
  <2>1. ASSUME NEW x, NEW tab, x.closed = "yes", NEW s \in Destroyed(x, tab) PROVE s = tab
    <3>1. PICK c \in Closings(x), d \in Numbers(x) : s = IF c THEN Closed(tab, d) ELSE tab
      BY <2>1 DEF Destroyed
    <3>2. x.closed # "unset" /\ ~(x.closed = "no")
      BY <2>1
    <3>3. c \in {x.closed = "no"}
      BY <3>2, Zenon DEF Closings
    <3>4. ~c
      BY <3>2, <3>3, Zenon
    <3> QED
      BY <3>1, <3>4
  <2> QED
    BY <2>1
<1>4. table' = withNew
  BY <1>1, <1>2, <1>3
<1>5. Open(t, "second")
  BY <1>4 DEF Open, withNew
<1> QED
  BY <1>1, <1>5, AbsentAt, OpeningKeeps DEF Points

(* accept fails, or wrap_socket does.                                      *)
LEMMA AcceptFailsKeeps ==
  ASSUME SocketsInv, NEW t \in Threads, AcceptFails(t)
  PROVE  SocketsInv'
<1>1. PICK fd : fd = Lowest
  OBVIOUS
<1>2. PICK x : x = Declared
  OBVIOUS
<1>3. PICK p : p = IF kind[t] = "upload" THEN "connected" ELSE "close second"
  OBVIOUS
<1>4. /\ at[t] = "waiting" /\ p \in Points /\ GoTo(t, p)
      /\ Absent(p) \subseteq Absent(at[t]) \ {"second"}
  BY <1>3, AbsentAt DEF AcceptFails, At, Points
<1>5. /\ x \in ObjectSet /\ object' = [object EXCEPT ![t]["second"] = x]
      /\ failed' = TRUE /\ UNCHANGED kind
  BY <1>2, ObjectFacts DEF AcceptFails
<1>6. table \in TableSet
  BY SocketsTypes DEF SocketsInv
<1>7. table' \in TableSet
  <2>1. CASE UNCHANGED table
    BY <1>6, <2>1
  <2>2. CASE table' \in Destroyed(x, [table EXCEPT ![fd] = <<t, "second">>])
    <3>1. "second" \in Objects
      BY DEF Objects
    <3>2. [table EXCEPT ![fd] = <<t, "second">>] \in TableSet
      BY <1>6, <3>1, TableProperties
    <3>3. \A tab \in TableSet : Destroyed(x, tab) \subseteq TableSet
      BY TableProperties
    <3> QED
      BY <2>2, <3>2, <3>3
  <2> QED
    BY <1>1, <1>2, <2>1, <2>2 DEF AcceptFails
<1> QED
  BY <1>4, <1>5, <1>7, FailureKeeps DEF Objects

(* The file is opened, or not.                                             *)
LEMMA OpenStreamKeeps ==
  ASSUME SocketsInv, NEW t \in Threads, OpenStream(t)
  PROVE  SocketsInv'
<1>1. CASE /\ Unused # {} /\ Open(t, "stream") /\ Set(t, "stream", Lowest, "no")
           /\ GoTo(t, "copying")
  BY <1>1, AbsentAt, OpeningKeeps DEF OpenStream, At, Points
<1>2. CASE GoTo(t, "close second") /\ UNCHANGED <<object, table>>
  BY <1>2, AbsentAt, QuietKeeps DEF OpenStream, At, Points
<1> QED
  BY <1>1, <1>2 DEF OpenStream

(* A thread gives up waiting, or has copied.                               *)
LEMMA WaitingEnds ==
  ASSUME SocketsInv, NEW t \in Threads, GiveUp(t) \/ EndOfCopy(t)
  PROVE  SocketsInv'
<1>1. CASE GiveUp(t)
  BY <1>1, AbsentAt, QuietKeeps DEF GiveUp, At, Points
<1>2. CASE EndOfCopy(t)
  BY <1>2, AbsentAt, QuietKeeps DEF EndOfCopy, At, Points
<1> QED
  BY <1>1, <1>2

(* The client's connection.                                                *)
LEMMA ConnectKeeps ==
  ASSUME SocketsInv, NEW t \in Threads, Connect(t)
  PROVE  SocketsInv'
BY AbsentAt, CreateTcpKeeps DEF Connect, At, Points

(* At the start no thread has an object, and only main's sockets are open. *)
LEMMA SocketsStart ==
  ASSUME SocketsInit
  PROVE  SocketsInv
<1>1. /\ kind \in [Threads -> ServerKinds \cup ClientKinds]
      /\ at \in [Threads -> Points]
      /\ failed = FALSE
  BY DEF SocketsInit, Points
<1>2. \A t \in Threads, o \in Objects : object[t][o] = NoObject
  BY DEF SocketsInit
<1>3. object \in [Threads -> [Objects -> ObjectSet]]
  BY ObjectFacts DEF SocketsInit
<1>4. \A d \in Descriptors : table[d] = IF d \in MainSockets THEN <<Main, "main">> ELSE Free
  BY DEF SocketsInit
<1>5. table \in TableSet
  BY DEF SocketsInit, TableSet, Free
<1>6. Held
  <2>1. \A q : Absent(q) \subseteq Objects
    BY DEF Absent, Objects
  <2> QED
    BY <1>2, <2>1 DEF Held
<1>7. SocketsTypeOK
  BY <1>1, <1>2, <1>3, <1>5, SocketsTypes
<1>8. \A t \in Threads, o \in Objects, d \in Descriptors : ~Owns(t, o, d)
  BY <1>2, ObjectFacts DEF Owns
<1>9. \A t \in Threads, o \in Objects :
        object[t][o].fd # Unset /\ (object[t][o].closed # "no" => object[t][o].fd = Bad)
  BY <1>2, ObjectFacts
<1>10. Sound
  BY <1>4, <1>8, <1>9, SocketsAssumption DEF Sound
<1> QED
  BY <1>6, <1>7, <1>10 DEF SocketsInv

(* The table is what main's sockets and the objects that will close it     *)
(* make it, for any number of threads of any kind and any limit.           *)
LEMMA SocketsInvariant == SocketsSpec => []SocketsInv
<1>1. SocketsInit => SocketsInv
  BY SocketsStart
<1>2. SocketsInv /\ [SocketsNext]_sockets_vars => SocketsInv'
  <2> SUFFICES ASSUME SocketsInv, [SocketsNext]_sockets_vars PROVE SocketsInv'
    OBVIOUS
  <2>1. ASSUME NEW t \in Threads, Step(t) PROVE SocketsInv'
    BY <2>1, FirstKeeps, LeaveKeeps, AcceptKeeps, AcceptFailsKeeps, OpenStreamKeeps,
       WaitingEnds, ConnectKeeps DEF Step
  <2>2. CASE UNCHANGED sockets_vars
    <3>1. Held' /\ SocketsTypeOK'
      BY <2>2 DEF SocketsInv, Held, SocketsTypeOK, sockets_vars
    <3>2. ASSUME Sound PROVE Sound'
      <4>1. \A t \in Threads, o \in Objects, d \in Descriptors : Owns(t, o, d)' <=> Owns(t, o, d)
        BY <2>2 DEF Owns, sockets_vars
      <4>2. \A t \in Threads, o \in Objects :
              object'[t][o].fd # Unset /\ (object'[t][o].closed # "no" => object'[t][o].fd = Bad)
        BY <2>2, <3>2 DEF Sound, sockets_vars
      <4> QED
        BY <2>2, <3>2, <4>1, <4>2 DEF Sound, sockets_vars
    <3> QED
      BY <2>2, <3>1, <3>2 DEF SocketsInv, sockets_vars
  <2> QED
    BY <2>1, <2>2 DEF SocketsNext
<1> QED
  BY <1>1, <1>2, PTL DEF SocketsSpec

(* Types, and a thread that returns leaves no object, whichever calls have *)
(* failed: every way out of Client::fetch, Client::upload and the server's *)
(* handlers passes the destructors of all that was declared.               *)
THEOREM SocketsTyped == SocketsSpec => []SocketsTypeOK
<1>1. SocketsInv => SocketsTypeOK
  BY DEF SocketsInv
<1> QED
  BY <1>1, SocketsInvariant, PTL

(* The descriptor that an object uses and will close is the one that was   *)
(* opened for it, and main's sockets stay open, until accept or getsockname*)
(* fails: ~tcp_socket, ~udp_socket and fake_close.                         *)
THEOREM DescriptorsOwn == SocketsSpec => []OwnDescriptors
<1>1. SocketsInv => OwnDescriptors
  BY DEF SocketsInv, Sound, OwnDescriptors
<1> QED
  BY <1>1, SocketsInvariant, PTL

(* Every descriptor that is open is main's or will be closed by an object  *)
(* that a thread still has.                                                *)
THEOREM DescriptorsReturned == SocketsSpec => []NothingLeaks
<1>1. SocketsInv => NothingLeaks
  BY DEF SocketsInv, Sound, NothingLeaks
<1> QED
  BY <1>1, SocketsInvariant, PTL
=============================================================================
