----------------------------- MODULE FilesList -----------------------------
(***************************************************************************)
(* The answer to a list request: handle_files_list_request packs the names *)
(* that contain the pattern into datagrams of bounded length, a newline    *)
(* between two names, while it holds files_in_storage_mutex, so that the   *)
(* set of names does not change under it. The order in which std::set has  *)
(* the names is any order.                                                 *)
(***************************************************************************)
EXTENDS Integers, FiniteSets, Sequences

CONSTANTS
  Filenames,
  length(_),             \* the number of characters of a name
  max_simple_data_size   \* what a datagram can carry

ASSUME FilesListAssumption ==
  /\ IsFiniteSet(Filenames)
  /\ max_simple_data_size \in Nat
  /\ \A n \in Filenames : length(n) \in 1 .. (max_simple_data_size - 1)

VARIABLES
  at,             \* idle, or in the loop, or after it
  asked,          \* the names in storage that contain the pattern
  todo,           \* those the loop has still to visit
  data,           \* the names in the message being filled
  curr_data_len,
  sent            \* the messages sent so far: names and length

vars == <<at, asked, todo, data, curr_data_len, sent>>

Init ==
  /\ at = "idle"
  /\ asked = {}
  /\ todo = {}
  /\ data = <<>>
  /\ curr_data_len = 0
  /\ sent = <<>>

Message == [names |-> data, length |-> curr_data_len]

HandleFilesListRequest(names) ==
  /\ at = "idle"
  /\ at' = "loop"
  /\ asked' = names
  /\ todo' = names
  /\ data' = <<>>
  /\ curr_data_len' = 0
  /\ sent' = <<>>

FitsExactly(n) == max_simple_data_size >= curr_data_len + length(n)   \* mutant: >= for >
Fits(n)        == max_simple_data_size > curr_data_len + length(n)

(* A newline goes before every name but the first of a message.            *)
NoNewline(n)   == length(n)            \* mutant: the newline is not counted
Taken(n)       == IF curr_data_len > 0 THEN length(n) + 1 ELSE length(n)

FillMessageWithFilename(n) ==
  /\ at = "loop"
  /\ n \in todo
  /\ Fits(n)
  /\ data' = Append(data, n)
  /\ curr_data_len' = curr_data_len + Taken(n)
  /\ todo' = todo \ {n}
  /\ UNCHANGED <<at, asked, sent>>

KeepMessage == UNCHANGED <<data, curr_data_len>>   \* mutant: sent, not emptied
NewMessage  == data' = <<>> /\ curr_data_len' = 0

(* The name that does not fit makes the message go out.                    *)
SendFull(n) ==
  /\ at = "loop"
  /\ n \in todo
  /\ ~Fits(n)
  /\ sent' = Append(sent, Message)
  /\ NewMessage
  /\ todo' = todo \ {n}
  /\ UNCHANGED <<at, asked>>

NoRest == sent                         \* mutant: only full messages go out
Rest   == IF curr_data_len > 0 THEN Append(sent, Message) ELSE sent

(* The loop is over: what is left goes out.                                *)
SendRest ==
  /\ at = "loop"
  /\ todo = {}
  /\ sent' = Rest
  /\ at' = "returned"
  /\ UNCHANGED <<asked, todo, data, curr_data_len>>

Return ==
  /\ at = "returned"
  /\ at' = "idle"
  /\ UNCHANGED <<asked, todo, data, curr_data_len, sent>>

Next ==
  \/ \E names \in SUBSET Filenames : HandleFilesListRequest(names)
  \/ \E n \in Filenames : FillMessageWithFilename(n) \/ SendFull(n)
  \/ SendRest
  \/ Return

Spec == Init /\ [][Next]_vars
-----------------------------------------------------------------------------
TypeOK ==
  /\ at \in {"idle", "loop", "returned"}
  /\ asked \in SUBSET Filenames
  /\ todo \in SUBSET asked
  /\ data \in Seq(Filenames)
  /\ curr_data_len \in Nat
  /\ sent \in Seq([names : Seq(Filenames), length : Nat])

(* message.data has max_simple_data_size + 1 characters, and strcpy ends a *)
(* name with a NUL: at every point of the loop the message, its newlines   *)
(* and the NUL fit, and so does what is sent.                              *)
MessagesBounded ==
  /\ curr_data_len <= max_simple_data_size
  /\ \A i \in 1 .. Len(sent) : sent[i].length <= max_simple_data_size

(* The characters of some names and of the newlines between them: the k-th *)
(* name's, after its newline, which is its character 0.                    *)
CharactersOf(k, n) == {k} \X ((IF k = 1 THEN 1 ELSE 0) .. length(n))

Characters(names) ==
  Cardinality(UNION {CharactersOf(k, names[k]) : k \in 1 .. Len(names)})

(* A datagram is as long as the names it carries: none is cut, and the     *)
(* receiver finds no characters of an earlier message behind them.         *)
LengthsTrue ==
  /\ curr_data_len = Characters(data)
  /\ \A i \in 1 .. Len(sent) :
       sent[i].length = Characters(sent[i].names) /\ sent[i].length > 0

NamesIn(names) == {names[k] : k \in 1 .. Len(names)}

SentNames(messages) == UNION {NamesIn(messages[i].names) : i \in 1 .. Len(messages)}

(* The names that are on their way to the client.                          *)
Listed == SentNames(sent) \cup (IF at = "loop" THEN NamesIn(data) ELSE {})

Lost == asked \ (todo \cup Listed)

(* The client is told of names that were asked for, of each of them once.  *)
NamedOnce ==
  /\ Listed \subseteq asked \ todo
  /\ \A i, j \in 1 .. Len(sent) : \A k \in 1 .. Len(sent[i].names) : \A l \in 1 .. Len(sent[j].names) :
       sent[i].names[k] = sent[j].names[l] => i = j /\ k = l

(* The characters of names of which each goes with a newline.              *)
WithNewlines(names) == UNION {{n} \X (0 .. length(n)) : n \in names}

FitInOne(names) == Cardinality(WithNewlines(names)) - 1 <= max_simple_data_size

(* A list whose names, with the newlines between them, fit in one datagram *)
(* is complete, in whatever order the names come and to the last character.*)
ShortListComplete == at = "returned" /\ FitInOne(asked) => Listed = asked

(* "Each client node enables ... fetching list of files currently in       *)
(* storage" (README.md:21): every name in storage that contains the pattern*)
(* is in one of the datagrams that go out.                                 *)
EveryNameListed == at = "returned" => Listed = asked
=============================================================================
