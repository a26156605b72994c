-------------------------- MODULE FilesListProofs --------------------------
(***************************************************************************)
(* Proofs about FilesList, for any set of names, any lengths and any size  *)
(* of a datagram.                                                          *)
(***************************************************************************)
EXTENDS FilesList, FiniteSetTheorems, TLAPS

(* A message is empty exactly if its length is 0; only the loop visits     *)
(* names, and a name that was put in a message has been visited.           *)
Shape ==
  /\ curr_data_len = 0 <=> data = <<>>
  /\ at # "loop" => todo = {}
  /\ Listed \subseteq asked \ todo

(* A list that fits in one datagram has lost nothing so far, and the names *)
(* to come fit in the message with those that are in it: the first name of *)
(* a message needs no newline.                                             *)
Short ==
  FitInOne(asked) =>
    /\ Lost = {}
    /\ at = "loop" =>
         curr_data_len + Cardinality(WithNewlines(todo))
           <= max_simple_data_size + (IF curr_data_len = 0 THEN 1 ELSE 0)

IInv ==
  /\ TypeOK
  /\ MessagesBounded
  /\ Shape
  /\ Short

(* The names of a message that has one name more.                          *)
LEMMA NamesAppended ==
  ASSUME NEW names \in Seq(Filenames), NEW n \in Filenames
  PROVE  NamesIn(Append(names, n)) = NamesIn(names) \cup {n}
<1> DEFINE more == Append(names, n)
<1>1. /\ Len(more) = Len(names) + 1
      /\ Len(names) \in Nat
      /\ more[Len(names) + 1] = n
      /\ \A k \in 1 .. Len(names) : more[k] = names[k]
  OBVIOUS
<1>2. 1 .. (Len(names) + 1) = (1 .. Len(names)) \cup {Len(names) + 1}
  BY <1>1
<1> HIDE DEF more
<1> QED
  BY <1>1, <1>2 DEF NamesIn

(* What has been sent when one message more goes out.                      *)
LEMMA SentAppended ==
  ASSUME NEW messages \in Seq([names : Seq(Filenames), length : Nat]),
         NEW m \in [names : Seq(Filenames), length : Nat]
  PROVE  SentNames(Append(messages, m)) = SentNames(messages) \cup NamesIn(m.names)
<1> DEFINE more == Append(messages, m)
<1>1. /\ Len(more) = Len(messages) + 1
      /\ Len(messages) \in Nat
      /\ more[Len(messages) + 1] = m
      /\ \A k \in 1 .. Len(messages) : more[k] = messages[k]
  OBVIOUS
<1>2. 1 .. (Len(messages) + 1) = (1 .. Len(messages)) \cup {Len(messages) + 1}
  BY <1>1
<1> HIDE DEF more
<1>3. ASSUME NEW x
      PROVE  (\E i \in 1 .. Len(more) : x \in NamesIn(more[i].names))
               <=> (\E i \in 1 .. Len(messages) : x \in NamesIn(messages[i].names)) \/ x \in NamesIn(m.names)
  BY <1>1, <1>2
<1>4. \A x : x \in SentNames(more) <=> x \in SentNames(messages) \/ x \in NamesIn(m.names)
  BY <1>3 DEF SentNames
<1> QED
  BY <1>4 DEF more

(* The empty message has no names, and before anything is sent none is sent*)
LEMMA NothingYet == NamesIn(<<>>) = {} /\ SentNames(<<>>) = {}
BY DEF NamesIn, SentNames

(* The characters of finitely many names are finitely many, and a name that*)
(* leaves takes its own and a newline with it.                             *)
LEMMA NewlinesCount ==
  ASSUME NEW names \in SUBSET Filenames
  PROVE  /\ Cardinality(WithNewlines(names)) \in Nat
         /\ \A n \in names :
              Cardinality(WithNewlines(names)) = Cardinality(WithNewlines(names \ {n})) + length(n) + 1
<1>1. ASSUME NEW some \in SUBSET Filenames PROVE IsFiniteSet(WithNewlines(some))
  <2> DEFINE box == Filenames \X (0 .. max_simple_data_size)
  <2>1. \A n \in some : length(n) \in 1 .. (max_simple_data_size - 1)
    BY FilesListAssumption
  <2>2. WithNewlines(some) \subseteq box
    BY <2>1, FilesListAssumption DEF WithNewlines
  <2>3. IsFiniteSet(Filenames) /\ IsFiniteSet(0 .. max_simple_data_size)
    BY FilesListAssumption, FS_Interval
  <2> QED
    BY <2>2, <2>3, FS_Product, FS_Subset
<1>2. Cardinality(WithNewlines(names)) \in Nat
  BY <1>1, FS_CardinalityType
<1>3. ASSUME NEW n \in names
      PROVE  Cardinality(WithNewlines(names)) = Cardinality(WithNewlines(names \ {n})) + length(n) + 1
  <2> DEFINE own   == {n} \X (0 .. length(n))
             other == WithNewlines(names \ {n})
  <2>1. length(n) \in Nat
    BY FilesListAssumption
  <2>2. IsFiniteSet(own) /\ Cardinality(own) = length(n) + 1
    <3>1. IsFiniteSet(0 .. length(n)) /\ Cardinality(0 .. length(n)) = length(n) + 1
      BY <2>1, FS_Interval
    <3>2. IsFiniteSet({n}) /\ Cardinality({n}) = 1
      BY FS_Singleton
    <3>3. IsFiniteSet(own) /\ Cardinality(own) = 1 * (length(n) + 1)
      BY <3>1, <3>2, FS_Product
    <3> QED
      BY <2>1, <3>3
  <2>3. IsFiniteSet(other)
    <3>1. names \ {n} \in SUBSET Filenames
      OBVIOUS
    <3> QED
      BY <1>1, <3>1
  <2>4. WithNewlines(names) = other \cup own
    BY DEF WithNewlines
  <2>5. other \cap own = {}
    BY DEF WithNewlines
  <2> HIDE DEF own, other
  <2>6. Cardinality(other \cup own) = Cardinality(other) + Cardinality(own) - Cardinality(other \cap own)
    BY <2>2, <2>3, FS_Union
  <2>7. Cardinality(other \cap own) = 0 /\ Cardinality(other) \in Nat
    BY <2>3, <2>5, FS_EmptySet, FS_CardinalityType
  <2>8. Cardinality(WithNewlines(names)) = Cardinality(other) + length(n) + 1
    BY <2>1, <2>2, <2>4, <2>6, <2>7
  <2> QED
    BY <2>8 DEF other
<1> QED
  BY <1>2, <1>3

(* The handler starts with nothing lost.                                   *)
LEMMA StepRequest ==
  ASSUME IInv, NEW names \in SUBSET Filenames, HandleFilesListRequest(names)
  PROVE  IInv'
<1> USE DEF IInv, HandleFilesListRequest
<1>1. Listed' = {}
  <2>1. Listed' = SentNames(sent') \cup (IF at' = "loop" THEN NamesIn(data') ELSE {})
    BY DEF Listed
  <2> QED
    BY <2>1, NothingYet
<1>2. Lost' = {}
  BY <1>1 DEF Lost
<1>3. Short'
  <2>1. Cardinality(WithNewlines(names)) \in Nat
    BY NewlinesCount
  <2> QED
    BY <1>2, <2>1, FilesListAssumption DEF Short, FitInOne
<1> QED
  BY <1>1, <1>3, FilesListAssumption DEF TypeOK, MessagesBounded, Shape

(* A name that fits joins the message; nothing is lost, and with its       *)
(* newline the message is no longer than a datagram.                       *)
LEMMA StepFill ==
  ASSUME IInv, NEW n \in Filenames, FillMessageWithFilename(n)
  PROVE  IInv'
<1> USE DEF IInv, FillMessageWithFilename, TypeOK
<1>1. Listed' = Listed \cup {n}
  <2>1. Listed' = SentNames(sent') \cup (IF at' = "loop" THEN NamesIn(data') ELSE {})
    BY DEF Listed
  <2>2. NamesIn(data') = NamesIn(data) \cup {n}
    BY NamesAppended
  <2> QED
    BY <2>1, <2>2 DEF Listed
<1>2. length(n) \in Nat \ {0}
  BY FilesListAssumption
<1>3. curr_data_len' \in Nat /\ 0 < curr_data_len' /\ curr_data_len' <= max_simple_data_size
  BY <1>2, FilesListAssumption DEF Fits, Taken
<1>4. Lost' = Lost
  BY <1>1 DEF Lost
<1>5. Short'
  <2>1. /\ Cardinality(WithNewlines(todo)) = Cardinality(WithNewlines(todo')) + length(n) + 1
        /\ Cardinality(WithNewlines(todo')) \in Nat
    <3>1. todo \in SUBSET Filenames /\ todo' \in SUBSET Filenames
      OBVIOUS
    <3> QED
      BY <3>1, NewlinesCount
  <2> QED
    BY <1>2, <1>3, <1>4, <2>1, FilesListAssumption DEF Short, Taken
<1>6. data' # <<>> /\ data' \in Seq(Filenames)
  OBVIOUS
<1> QED
  BY <1>1, <1>3, <1>5, <1>6 DEF MessagesBounded, Shape

(* A name that does not fit is lost, and a message is sent; a list that    *)
(* fits in one datagram has no such name.                                  *)
LEMMA StepFull ==
  ASSUME IInv, NEW n \in Filenames, SendFull(n)
  PROVE  IInv'
<1> USE DEF IInv, SendFull, TypeOK, NewMessage
<1>1. Message \in [names : Seq(Filenames), length : Nat] /\ Message.names = data
  BY DEF Message
<1>2. Listed' = Listed
  <2>1. Listed' = SentNames(sent') \cup (IF at' = "loop" THEN NamesIn(data') ELSE {})
    BY DEF Listed
  <2>2. SentNames(sent') = SentNames(sent) \cup NamesIn(data)
    BY <1>1, SentAppended
  <2> QED
    BY <2>1, <2>2, NothingYet DEF Listed
<1>3. ~FitInOne(asked)
  <2> SUFFICES ASSUME FitInOne(asked) PROVE FALSE
    OBVIOUS
  <2>1. /\ Cardinality(WithNewlines(todo)) = Cardinality(WithNewlines(todo \ {n})) + length(n) + 1
        /\ Cardinality(WithNewlines(todo \ {n})) \in Nat
    <3>1. todo \in SUBSET Filenames /\ todo \ {n} \in SUBSET Filenames
      OBVIOUS
    <3> QED
      BY <3>1, NewlinesCount
  <2>2. length(n) \in Nat /\ length(n) < max_simple_data_size /\ max_simple_data_size \in Nat
    BY FilesListAssumption
  <2>3. curr_data_len + Cardinality(WithNewlines(todo))
          <= max_simple_data_size + (IF curr_data_len = 0 THEN 1 ELSE 0)
    BY DEF Short
  <2> QED
    BY <2>1, <2>2, <2>3 DEF Fits
<1>6. Len(sent') = Len(sent) + 1 /\ sent' \in Seq([names : Seq(Filenames), length : Nat])
  BY <1>1
<1>7. Short'
  BY <1>3 DEF Short
<1>8. \A i \in 1 .. Len(sent') : sent'[i].length <= max_simple_data_size
  BY <1>1 DEF MessagesBounded, Message
<1> QED
  BY <1>2, <1>6, <1>7, <1>8, FilesListAssumption DEF MessagesBounded, Shape

(* What is left goes out.                                                  *)
LEMMA StepRest ==
  ASSUME IInv, SendRest
  PROVE  IInv'
<1> USE DEF IInv, SendRest, TypeOK, Rest
<1>1. Message \in [names : Seq(Filenames), length : Nat] /\ Message.names = data
  BY DEF Message
<1>2. Listed' = Listed
  <2>1. Listed' = SentNames(sent')
    BY DEF Listed
  <2>2. CASE curr_data_len > 0
    BY <1>1, <2>1, <2>2, SentAppended DEF Listed
  <2>3. CASE curr_data_len = 0
    BY <2>1, <2>3, NothingYet DEF Listed, Shape
  <2> QED
    BY <2>2, <2>3
<1>3. Lost' = Lost
  BY <1>2 DEF Lost
<1>4. sent' \in Seq([names : Seq(Filenames), length : Nat])
  <2>1. CASE curr_data_len > 0
    <3>1. sent' = Append(sent, Message)
      BY <2>1
    <3> DEFINE M == [names : Seq(Filenames), length : Nat]
    <3>2. sent \in Seq(M) /\ Message \in M
      BY <1>1
    <3> HIDE DEF M
    <3>3. sent' \in Seq(M)
      BY <3>1, <3>2
    <3> QED
      BY <3>3 DEF M
  <2>2. CASE curr_data_len = 0
    BY <2>2
  <2> QED
    BY <2>1, <2>2
<1>5. Short'
  BY <1>3 DEF Short
<1>6. \A i \in 1 .. Len(sent') : sent'[i].length <= max_simple_data_size
  BY <1>1 DEF MessagesBounded, Message
<1> QED
  BY <1>2, <1>4, <1>5, <1>6 DEF MessagesBounded, Shape

(* The invariant is inductive.                                             *)
LEMMA StepIInv == IInv /\ [Next]_vars => IInv'
<1> SUFFICES ASSUME IInv, [Next]_vars PROVE IInv'
  OBVIOUS
<1>1. CASE Return
  BY <1>1 DEF Return, IInv, TypeOK, MessagesBounded, Shape, Short, Lost, Listed
<1>2. CASE UNCHANGED vars
  BY <1>2 DEF vars, IInv, TypeOK, MessagesBounded, Shape, Short, Lost, Listed
<1> QED
  BY <1>1, <1>2, StepRequest, StepFill, StepFull, StepRest DEF Next

(* The invariant holds before the first request.                           *)
LEMMA InitIInv == Init => IInv
<1> SUFFICES ASSUME Init PROVE IInv
  OBVIOUS
<1>1. Listed = {}
  BY NothingYet DEF Listed, Init
<1>2. Lost = {}
  BY DEF Init, Lost
<1> QED
  BY <1>1, <1>2, FilesListAssumption DEF Init, IInv, TypeOK, MessagesBounded, Shape, Short
-----------------------------------------------------------------------------
(* The names in the message being filled are in no message that has been    *)
(* sent, and each is there once.                                           *)
Apart ==
  /\ \A k, l \in 1 .. Len(data) : data[k] = data[l] => k = l
  /\ SentNames(sent) \cap NamesIn(data) = {}

NamesInv ==
  /\ LengthsTrue
  /\ NamedOnce
  /\ at = "loop" => Apart

LEMMA NoCharacters == Characters(<<>>) = 0
<1>1. 1 .. Len(<<>>) = {}
  OBVIOUS
<1>2. UNION {CharactersOf(k, <<>>[k]) : k \in 1 .. Len(<<>>)} = {}
  BY <1>1
<1> QED
  BY <1>2, FS_EmptySet DEF Characters

(* One name more: its characters, and a newline unless it is the first.    *)
LEMMA CharactersAppended ==
  ASSUME NEW names \in Seq(Filenames), NEW n \in Filenames
  PROVE  /\ Characters(names) \in Nat
         /\ Characters(Append(names, n)) =
              Characters(names) + length(n) + (IF names = <<>> THEN 0 ELSE 1)
<1> DEFINE more == Append(names, n)
           last == Len(names) + 1
           old  == UNION {CharactersOf(k, names[k]) : k \in 1 .. Len(names)}
           new  == CharactersOf(last, n)
           all  == UNION {CharactersOf(k, more[k]) : k \in 1 .. Len(more)}
           first == IF last = 1 THEN 1 ELSE 0
<1>1. /\ Len(more) = last
      /\ Len(names) \in Nat
      /\ more[last] = n
      /\ \A k \in 1 .. Len(names) : more[k] = names[k] /\ names[k] \in Filenames
      /\ 1 .. last = (1 .. Len(names)) \cup {last}
  OBVIOUS
<1>2. length(n) \in Nat \ {0}
  BY FilesListAssumption
<1>3. all = old \cup new
  <2> HIDE DEF more, last
  <2>1. \A x : x \in all <=> \E k \in 1 .. last : x \in CharactersOf(k, more[k])
    BY <1>1
  <2>2. \A x : x \in old <=> \E k \in 1 .. Len(names) : x \in CharactersOf(k, names[k])
    OBVIOUS
  <2> HIDE DEF all, old
  <2> QED
    BY <1>1, <2>1, <2>2
<1>4. IsFiniteSet(old)
  <2> DEFINE box == (1 .. Len(names)) \X (0 .. max_simple_data_size)
  <2>1. ASSUME NEW k \in 1 .. Len(names) PROVE CharactersOf(k, names[k]) \subseteq box
    <3>1. length(names[k]) \in 1 .. (max_simple_data_size - 1)
      BY <1>1, FilesListAssumption
    <3> QED
      BY <3>1, FilesListAssumption DEF CharactersOf
  <2>2. old \subseteq box
    BY <2>1
  <2>3. IsFiniteSet(1 .. Len(names)) /\ IsFiniteSet(0 .. max_simple_data_size)
    BY <1>1, FilesListAssumption, FS_Interval
  <2> HIDE DEF old
  <2> QED
    BY <2>2, <2>3, FS_Product, FS_Subset
<1>5. IsFiniteSet(new) /\ Cardinality(new) = length(n) + 1 - first
  <2>1. first \in 0 .. 1
    OBVIOUS
  <2>2. IsFiniteSet(first .. length(n)) /\ Cardinality(first .. length(n)) = length(n) - first + 1
    <3> HIDE DEF first
    <3>1. first \in Int /\ length(n) \in Int /\ ~(first > length(n))
      BY <1>2, <2>1
    <3> QED
      BY <3>1, FS_Interval
  <2>3. IsFiniteSet({last}) /\ Cardinality({last}) = 1
    BY FS_Singleton
  <2>4. new = {last} \X (first .. length(n))
    BY DEF CharactersOf
  <2> HIDE DEF first, new, last
  <2>5. IsFiniteSet(new) /\ Cardinality(new) = 1 * (length(n) - first + 1)
    BY <2>2, <2>3, <2>4, FS_Product
  <2> QED
    BY <1>2, <2>1, <2>5
<1>6. old \cap new = {}
  BY <1>1 DEF CharactersOf
<1>7. Cardinality(old \cup new) = Cardinality(old) + Cardinality(new)
  <2>1. Cardinality(old \cup new) = Cardinality(old) + Cardinality(new) - Cardinality(old \cap new)
    BY <1>4, <1>5, FS_Union
  <2>2. Cardinality(old) \in Nat /\ Cardinality(new) \in Nat
    BY <1>4, <1>5, FS_CardinalityType
  <2>3. Cardinality(old \cap new) = 0
    BY <1>6, FS_EmptySet
  <2> HIDE DEF old, new
  <2> QED
    BY <2>1, <2>2, <2>3
<1>8. Cardinality(old) \in Nat
  BY <1>4, FS_CardinalityType
<1>9. names = <<>> <=> last = 1
  BY <1>1
<1>10. Characters(names) = Cardinality(old) /\ Characters(more) = Cardinality(old \cup new)
  BY <1>3 DEF Characters
<1> HIDE DEF old, new, more, all, last
<1>11. Characters(more) = Characters(names) + length(n) + (IF names = <<>> THEN 0 ELSE 1)
  BY <1>2, <1>5, <1>7, <1>8, <1>9, <1>10
<1> QED
  BY <1>8, <1>10, <1>11 DEF more

(* The messages sent when one more goes out are the ones sent before and   *)
(* the new one.                                                            *)
LEMMA MessageAppended ==
  ASSUME TypeOK,
         \A i \in 1 .. Len(sent) :
           sent[i].length = Characters(sent[i].names) /\ sent[i].length > 0,
         NamedOnce, Apart, curr_data_len = Characters(data), curr_data_len > 0,
         sent' = Append(sent, Message)
  PROVE  /\ \A i \in 1 .. Len(sent') :
              sent'[i].length = Characters(sent'[i].names) /\ sent'[i].length > 0
         /\ \A i, j \in 1 .. Len(sent') :
              \A k \in 1 .. Len(sent'[i].names) : \A l \in 1 .. Len(sent'[j].names) :
                sent'[i].names[k] = sent'[j].names[l] => i = j /\ k = l
<1> DEFINE last == Len(sent) + 1
<1>1. Message.names = data /\ Message.length = curr_data_len
  BY DEF Message
<1>2. /\ Len(sent) \in Nat
      /\ Len(sent') = last
      /\ sent'[last] = Message
      /\ \A i \in 1 .. Len(sent) : sent'[i] = sent[i]
      /\ 1 .. last = (1 .. Len(sent)) \cup {last}
  BY DEF TypeOK
<1> HIDE DEF last
<1>3. \A i \in 1 .. Len(sent') :
        sent'[i].length = Characters(sent'[i].names) /\ sent'[i].length > 0
  BY <1>1, <1>2
<1>4. ASSUME NEW i \in 1 .. Len(sent), NEW k \in 1 .. Len(sent[i].names), NEW l \in 1 .. Len(data)
      PROVE  sent[i].names[k] # data[l]
  <2>1. sent[i].names[k] \in SentNames(sent)
    BY DEF SentNames, NamesIn
  <2>2. data[l] \in NamesIn(data)
    BY DEF NamesIn
  <2> QED
    BY <2>1, <2>2 DEF Apart
<1>5. ASSUME NEW i \in 1 .. Len(sent'), NEW j \in 1 .. Len(sent'),
             NEW k \in 1 .. Len(sent'[i].names), NEW l \in 1 .. Len(sent'[j].names),
             sent'[i].names[k] = sent'[j].names[l]
      PROVE  i = j /\ k = l
  <2>1. CASE i \in 1 .. Len(sent) /\ j \in 1 .. Len(sent)
    BY <1>2, <1>5, <2>1 DEF NamedOnce
  <2>2. CASE i \in 1 .. Len(sent) /\ j = last
    BY <1>1, <1>2, <1>4, <1>5, <2>2
  <2>3. CASE i = last /\ j \in 1 .. Len(sent)
    BY <1>1, <1>2, <1>4, <1>5, <2>3
  <2>4. CASE i = last /\ j = last
    BY <1>1, <1>2, <1>5, <2>4 DEF Apart
  <2> QED
    BY <1>2, <2>1, <2>2, <2>3, <2>4
<1> QED
  BY <1>3, <1>5

(* A full message is not empty: a name fits in an empty one.               *)
LEMMA FullIsNotEmpty ==
  ASSUME TypeOK, NEW n \in Filenames, ~Fits(n)
  PROVE  curr_data_len > 0
BY FilesListAssumption DEF TypeOK, Fits

(* Lengths and names stay right in every step.                             *)
LEMMA StepNamesInv == IInv /\ IInv' /\ NamesInv /\ [Next]_vars => NamesInv'
<1> SUFFICES ASSUME IInv, IInv', NamesInv, [Next]_vars PROVE NamesInv'
  OBVIOUS
<1> USE DEF IInv
<1>1. Listed' \subseteq asked' \ todo'
  BY DEF Shape
<1>2. ASSUME NEW names \in SUBSET Filenames, HandleFilesListRequest(names) PROVE NamesInv'
  <2> USE <1>2 DEF HandleFilesListRequest
  <2>1. sent' = <<>> /\ data' = <<>> /\ curr_data_len' = 0
    OBVIOUS
  <2>2. LengthsTrue'
    <3>1. Characters(data') = 0
      BY <2>1, NoCharacters
    <3> QED
      BY <2>1, <3>1 DEF LengthsTrue
  <2>3. Apart'
    <3>1. SentNames(sent') = {}
      BY <2>1, NothingYet
    <3>2. SentNames(sent') \cap NamesIn(data') = {}
      BY <3>1
    <3>3. \A k, l \in 1 .. Len(data') : data'[k] = data'[l] => k = l
      BY <2>1
    <3> QED
      BY <3>2, <3>3 DEF Apart
  <2>4. NamedOnce'
    BY <1>1, <2>1 DEF NamedOnce
  <2> QED
    BY <2>2, <2>3, <2>4 DEF NamesInv
<1>3. ASSUME NEW n \in Filenames, FillMessageWithFilename(n) PROVE NamesInv'
  <2> USE <1>3 DEF FillMessageWithFilename
  <2>1. n \notin Listed
    BY DEF Shape
  <2>2. n \notin NamesIn(data) /\ n \notin SentNames(sent)
    BY <2>1 DEF Listed
  <2>3. data \in Seq(Filenames)
    BY DEF TypeOK
  <2>4. LengthsTrue'
    <3>1. Characters(data') = Characters(data) + length(n) + (IF data = <<>> THEN 0 ELSE 1)
      BY <2>3, CharactersAppended
    <3>2. curr_data_len \in Nat /\ length(n) \in Nat
      BY FilesListAssumption DEF TypeOK
    <3>3. curr_data_len' = Characters(data')
      BY <3>1, <3>2 DEF Taken, Shape, NamesInv, LengthsTrue
    <3> QED
      BY <3>3 DEF NamesInv, LengthsTrue
  <2>5. NamedOnce'
    BY <1>1 DEF NamesInv, NamedOnce
  <2>6. NamesIn(data') = NamesIn(data) \cup {n}
    BY <2>3, NamesAppended
  <2>7. SentNames(sent') = SentNames(sent)
    OBVIOUS
  <2>8. \A k, l \in 1 .. Len(data') : data'[k] = data'[l] => k = l
    <3>1. /\ Len(data') = Len(data) + 1
          /\ Len(data) \in Nat
          /\ data'[Len(data) + 1] = n
          /\ \A k \in 1 .. Len(data) : data'[k] = data[k]
      BY <2>3
    <3>2. \A k \in 1 .. Len(data) : data[k] # n
      BY <2>2 DEF NamesIn
    <3> QED
      BY <3>1, <3>2 DEF NamesInv, Apart
  <2>9. Apart'
    BY <2>2, <2>6, <2>7, <2>8 DEF NamesInv, Apart
  <2> QED
    BY <2>4, <2>5, <2>9 DEF NamesInv
<1>4. ASSUME NEW n \in Filenames, SendFull(n) PROVE NamesInv'
  <2> USE <1>4 DEF SendFull, NewMessage
  <2>1. curr_data_len > 0
    BY FullIsNotEmpty
  <2>2. sent' = Append(sent, Message) /\ data' = <<>> /\ curr_data_len' = 0
    OBVIOUS
  <2>3. /\ \A i \in 1 .. Len(sent') :
             sent'[i].length = Characters(sent'[i].names) /\ sent'[i].length > 0
        /\ \A i, j \in 1 .. Len(sent') :
             \A k \in 1 .. Len(sent'[i].names) : \A l \in 1 .. Len(sent'[j].names) :
               sent'[i].names[k] = sent'[j].names[l] => i = j /\ k = l
    BY <2>1, <2>2, MessageAppended DEF NamesInv, LengthsTrue
  <2>4. LengthsTrue'
    <3>1. Characters(data') = 0
      BY <2>2, NoCharacters
    <3> QED
      BY <2>2, <2>3, <3>1 DEF LengthsTrue
  <2>5. NamedOnce'
    BY <1>1, <2>3 DEF NamedOnce
  <2>6. NamesIn(data') = {}
    BY <2>2, NothingYet
  <2>7. Apart'
    BY <2>2, <2>6 DEF Apart
  <2> QED
    BY <2>4, <2>5, <2>7 DEF NamesInv
<1>5. CASE SendRest
  <2> USE <1>5 DEF SendRest
  <2>1. CASE curr_data_len > 0
    <3>1. sent' = Append(sent, Message)
      BY <2>1 DEF Rest
    <3>2. /\ \A i \in 1 .. Len(sent') :
               sent'[i].length = Characters(sent'[i].names) /\ sent'[i].length > 0
          /\ \A i, j \in 1 .. Len(sent') :
               \A k \in 1 .. Len(sent'[i].names) : \A l \in 1 .. Len(sent'[j].names) :
                 sent'[i].names[k] = sent'[j].names[l] => i = j /\ k = l
      BY <2>1, <3>1, MessageAppended DEF NamesInv, LengthsTrue
    <3>3. LengthsTrue'
      BY <3>2 DEF LengthsTrue, NamesInv
    <3>4. NamedOnce'
      BY <1>1, <3>2 DEF NamedOnce
    <3> QED
      BY <3>3, <3>4 DEF NamesInv
  <2>2. CASE curr_data_len = 0
    <3>1. sent' = sent
      BY <2>2 DEF Rest
    <3> QED
      BY <1>1, <3>1 DEF NamesInv, LengthsTrue, NamedOnce
  <2> QED
    BY <2>1, <2>2 DEF TypeOK
<1>6. CASE Return
  BY <1>1, <1>6 DEF Return, NamesInv, LengthsTrue, NamedOnce
<1>7. CASE UNCHANGED vars
  BY <1>1, <1>7 DEF vars, NamesInv, LengthsTrue, NamedOnce, Apart
<1> QED
  BY <1>2, <1>3, <1>4, <1>5, <1>6, <1>7 DEF Next

(* They are right before the first request.                                *)
LEMMA InitNamesInv == Init => NamesInv
<1> SUFFICES ASSUME Init PROVE NamesInv
  OBVIOUS
<1>1. Listed = {}
  BY NothingYet DEF Listed, Init
<1> QED
  BY <1>1, NoCharacters DEF Init, NamesInv, LengthsTrue, NamedOnce
-----------------------------------------------------------------------------
(* No message handle_files_list_request builds overruns its buffer or the  *)
(* datagram: the test "max > curr_data_len + length" leaves room for the   *)
(* newline that fill_message_with_filename adds.                           *)
THEOREM BufferKept == Spec => []MessagesBounded
<1>1. IInv => MessagesBounded
  BY DEF IInv
<1> QED
  BY <1>1, InitIInv, StepIInv, PTL DEF Spec

(* A list that fits in one datagram, newlines included, is complete: only  *)
(* a name that finds the message full is lost.                             *)
THEOREM ShortListsWhole == Spec => []ShortListComplete
<1>1. IInv => ShortListComplete
  BY DEF IInv, ShortListComplete, Short, Shape, Lost
<1> QED
  BY <1>1, InitIInv, StepIInv, PTL DEF Spec

(* A datagram is exactly as long as the names and newlines it carries, so  *)
(* no name is cut and nothing of an earlier message is sent again.         *)
THEOREM LengthsRight == Spec => []LengthsTrue
<1>1. NamesInv => LengthsTrue
  BY DEF NamesInv
<1> QED
  BY <1>1, InitIInv, StepIInv, InitNamesInv, StepNamesInv, PTL DEF Spec

(* The client is told of each name once, and only of names it asked for.   *)
THEOREM EachNameOnce == Spec => []NamedOnce
<1>1. NamesInv => NamedOnce
  BY DEF NamesInv
<1> QED
  BY <1>1, InitIInv, StepIInv, InitNamesInv, StepNamesInv, PTL DEF Spec
=============================================================================
