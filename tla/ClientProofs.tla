---------------------------- MODULE ClientProofs ----------------------------
(***************************************************************************)
(* Proofs about Client, for any number of threads, servers, copies,        *)
(* searches and draws: types, the output file that several fetches write,  *)
(* and which search the results in memory belong to.                       *)
(***************************************************************************)
EXTENDS Client, SequenceTheorems, TLAPS

(* The file as the last fetch to open it would write it.                   *)
Block(k) == [copy |-> Stream(opener), block |-> k]
Gap      == [copy |-> None, block |-> 0]

Right(k) == out[k] = Block(k)

(* A stream is open while its fetch copies, and a fetch is through when its*)
(* file is whole. No stream has more than its copy.                        *)
Streams ==
  /\ \A f \in Fetches : at[f] \notin {"copy", "close"} => received[f] = 0 /\ written[f] = 0
  /\ \A f \in Fetches : at[f] \in {"copy", "close"} => received[f] <= size(Stream(f)) /\ opener # None
  /\ \A f \in complete : at[f] = "returned"
  /\ opener # None => at[opener] \in {"copy", "close", "returned"}

(* As long as nobody wrote another copy into it, the file is a part of the *)
(* opener's copy with gaps, none of them where the opener has written.     *)
Output ==
  opener # None /\ ~mixed =>
    /\ Len(out) <= size(Stream(opener))
    /\ \A k \in 1 .. Len(out) : Right(k) \/ out[k] = Gap
    /\ written[opener] <= Len(out)
    /\ \A k \in 1 .. written[opener] : Right(k)
    /\ opener \in complete =>
         Len(out) = size(Stream(opener)) /\ \A k \in 1 .. Len(out) : Right(k)

(* Draws that were not undone are increasing, and while the number of a    *)
(* search is drawn there are no results.                                   *)
Draws ==
  /\ ~raced => \A k \in 1 .. Len(numbers) :
                 numbers[k] < generator /\ \A j \in 1 .. Len(numbers) : j < k => numbers[j] < numbers[k]
  /\ at[Main] \in {"read generator", "store generator"} => results = None

IInv == TypeOK /\ Streams /\ Output /\ Draws /\ OwnResults
-----------------------------------------------------------------------------
(* What a stream writes: its new blocks are its copy's, the others stay.   *)
Pieces == [copy : Copies \cup {None}, block : Nat]

LEMMA WrittenProperties ==
  ASSUME NEW f \in Fetches, NEW upto \in Nat, out \in Seq(Pieces), written[f] \in Nat, Stream(f) \in Copies
  PROVE  /\ Written(f, upto) \in Seq(Pieces)
         /\ Len(Written(f, upto)) = IF upto > written[f] /\ upto > Len(out) THEN upto ELSE Len(out)
         /\ \A k \in 1 .. Len(Written(f, upto)) :
              Written(f, upto)[k] = IF k > written[f] /\ k <= upto THEN [copy |-> Stream(f), block |-> k]
                                    ELSE IF k <= Len(out) THEN out[k] ELSE Gap
<1> DEFINE N == IF upto > written[f] /\ upto > Len(out) THEN upto ELSE Len(out)
           piece(k) == IF k > written[f] /\ k <= upto THEN [copy |-> Stream(f), block |-> k]
                       ELSE IF k <= Len(out) THEN out[k] ELSE Gap
           new == [k \in 1 .. N |-> piece(k)]
<1>1. Len(out) \in Nat /\ \A k \in 1 .. Len(out) : out[k] \in Pieces
  BY LenProperties
<1>2. N \in Nat
  BY <1>1
<1>3. \A k \in 1 .. N : piece(k) \in Pieces
  BY <1>1 DEF Pieces, Gap
<1>4. new \in [1 .. N -> Pieces]
  BY <1>3
<1> HIDE DEF new, N
<1>5. new \in Seq(Pieces)
  BY <1>2, <1>4, SeqDef
<1>8. Len(new) = N
  BY <1>2, <1>4, <1>5, LenProperties
<1>6. Written(f, upto) = new
  <2>1. upto \in (written[f] + 1) .. upto <=> upto > written[f]
    OBVIOUS
  <2>2. \A k \in 1 .. N : k \in (written[f] + 1) .. upto <=> k > written[f] /\ k <= upto
    BY <1>2
  <2> QED
    BY <1>2, <2>1, <2>2 DEF Written, Gap, new, N
<1>7. \A k \in 1 .. N : new[k] = piece(k)
  BY DEF new
<1> QED
  BY <1>5, <1>6, <1>7, <1>8 DEF N

(* A stream that has nothing new leaves the file as it is.                 *)
LEMMA NothingWritten ==
  ASSUME NEW f \in Fetches, out \in Seq(Pieces), written[f] \in Nat, Stream(f) \in Copies
  PROVE  Written(f, written[f]) = out
<1> DEFINE w == Written(f, written[f])
<1>1. /\ w \in Seq(Pieces)
      /\ Len(w) = IF written[f] > written[f] /\ written[f] > Len(out) THEN written[f] ELSE Len(out)
      /\ \A k \in 1 .. Len(w) :
           w[k] = IF k > written[f] /\ k <= written[f] THEN [copy |-> Stream(f), block |-> k]
                  ELSE IF k <= Len(out) THEN out[k] ELSE Gap
  BY WrittenProperties
<1> HIDE DEF w
<1>2. Len(w) = Len(out) /\ Len(out) \in Nat
  BY <1>1, LenProperties
<1>3. ASSUME NEW k \in 1 .. Len(w) PROVE w[k] = out[k]
  <2>1. ~(k > written[f] /\ k <= written[f]) /\ k <= Len(out)
    BY <1>2
  <2> QED
    BY <1>1, <2>1
<1>4. w = out
  BY <1>1, <1>2, <1>3, SeqEqual
<1> QED
  BY <1>4 DEF w
-----------------------------------------------------------------------------
(* Every variable keeps its type: the variables that an action may change. *)
SequenceTypes ==
  generator \in Nat /\ position \in [Threads -> Nat] /\ raced \in BOOLEAN
SearchTypes ==
  numbers \in Seq(Nat) /\ results \in Servers \cup {None} /\ answering \in Nat
ThreadTypes ==
  /\ running \in BOOLEAN
  /\ at \in [Threads -> Points]
  /\ server \in [Fetches -> Servers \cup {None}]
  /\ \A f \in Fetches : at[f] # "idle" => server[f] \in Servers
FetchTypes ==
  /\ received \in [Fetches -> Nat] /\ written \in [Fetches -> Nat]
  /\ \A f \in Fetches : written[f] <= received[f]
OutputTypes ==
  /\ out \in Seq(Pieces)
  /\ opener \in Fetches \cup {None}
  /\ mixed \in BOOLEAN
  /\ complete \in SUBSET Fetches

(* TypeOK, in the parts that an action may change one of.                  *)
LEMMA Types ==
  TypeOK <=> /\ SequenceTypes /\ SearchTypes /\ ThreadTypes /\ FetchTypes /\ OutputTypes
             /\ copy \in [Servers -> Copies]
BY DEF TypeOK, SequenceTypes, SearchTypes, ThreadTypes, FetchTypes, OutputTypes, Pieces

(* A thread goes to a point there is, and a fetch that is on its way has a *)
(* server to ask.                                                          *)
LEMMA GoToTypes ==
  ASSUME ThreadTypes, NEW t \in Threads, NEW p \in Points, GoTo(t, p), running' \in BOOLEAN,
         server' = server, t \in Fetches => server[t] \in Servers
  PROVE  ThreadTypes'
BY DEF ThreadTypes, GoTo, Threads

(* A fetch that has started has a stream, which is a copy of its server's. *)
LEMMA StreamCopy ==
  ASSUME TypeOK, NEW f \in Fetches, at[f] # "idle"
  PROVE  Stream(f) \in Copies
BY DEF TypeOK, Stream

(* Main, the fetches and the uploads are different threads, and a draw     *)
(* leads to a point there is.                                              *)
LEMMA ThreadFacts ==
  /\ Main \in Threads /\ Main \notin Fetches /\ Fetches \subseteq Threads /\ Uploads \subseteq Threads
  /\ \A f \in Fetches : f \notin Uploads /\ f # Main
  /\ \A t \in Threads : AfterDraw(t) \subseteq Points
BY ClientAssumption DEF Threads, AfterDraw, Points

(* Every step keeps the types.                                             *)
LEMMA StepTypes == TypeOK /\ [Next]_vars => TypeOK'
<1> SUFFICES ASSUME TypeOK, [Next]_vars PROVE TypeOK'
  OBVIOUS
<1>t. /\ SequenceTypes /\ SearchTypes /\ ThreadTypes /\ FetchTypes /\ OutputTypes
      /\ copy \in [Servers -> Copies]
  BY Types
<1>q. ASSUME SequenceTypes', SearchTypes', ThreadTypes', FetchTypes', OutputTypes', copy' = copy PROVE TypeOK'
  <2>1. (TypeOK <=> /\ SequenceTypes /\ SearchTypes /\ ThreadTypes /\ FetchTypes /\ OutputTypes
                    /\ copy \in [Servers -> Copies])'
    BY Types, PTL
  <2> QED
    BY <1>t, <1>q, <2>1
<1>u. /\ UNCHANGED sequence => SequenceTypes'
      /\ UNCHANGED search => SearchTypes'
      /\ UNCHANGED <<running, at, server>> => ThreadTypes'
      /\ UNCHANGED <<received, written>> => FetchTypes'
      /\ UNCHANGED output => OutputTypes'
      /\ UNCHANGED fetch => server' = server /\ received' = received /\ written' = written
  BY <1>t DEF SequenceTypes, SearchTypes, ThreadTypes, FetchTypes, OutputTypes, sequence, search, fetch, output
<1>g. ASSUME NEW t \in Threads, NEW p \in Points, GoTo(t, p), running' \in BOOLEAN, UNCHANGED server,
             t \in Fetches => server[t] \in Servers
      PROVE  ThreadTypes'
  BY <1>t, <1>g, GoToTypes
<1>a. ASSUME NEW f \in Fetches, NEW p \in Points, At(f, p), p # "idle" PROVE server[f] \in Servers
  BY <1>a, <1>t DEF At, ThreadTypes
<1>1. ASSUME Search PROVE TypeOK'
  <2>1. SearchTypes'
    BY <1>1, <1>t DEF Search, SearchTypes
  <2>2. ThreadTypes'
    BY <1>1, <1>g, <1>u, <1>t, ThreadFacts DEF Search, Points, ThreadTypes
  <2> QED
    BY <1>1, <1>q, <1>u, <2>1, <2>2 DEF Search, fetch
<1>2. ASSUME NEW f \in Fetches, Fetch(f) PROVE TypeOK'
  <2>1. ThreadTypes'
    BY <1>2, <1>t, ThreadFacts DEF Fetch, Listed, ThreadTypes, SearchTypes, Points, GoTo
  <2> QED
    BY <1>2, <1>q, <1>u, <2>1 DEF Fetch
<1>3. ASSUME NEW u \in Uploads, Upload(u) PROVE TypeOK'
  <2>1. ThreadTypes'
    BY <1>3, <1>g, <1>u, <1>t, ThreadFacts DEF Upload, Points, ThreadTypes
  <2> QED
    BY <1>3, <1>q, <1>u, <2>1 DEF Upload, fetch
<1>4. ASSUME Exit PROVE TypeOK'
  <2>1. ThreadTypes'
    BY <1>4, <1>t DEF Exit, ThreadTypes, fetch
  <2> QED
    BY <1>4, <1>q, <1>u, <2>1 DEF Exit, fetch
<1>5. ASSUME NEW t \in Threads, ReadGenerator(t) PROVE TypeOK'
  <2>1. ThreadTypes'
    BY <1>5, <1>a, <1>g, <1>u, <1>t DEF ReadGenerator, Points, ThreadTypes
  <2>2. SequenceTypes'
    BY <1>5, <1>t DEF ReadGenerator, SequenceTypes
  <2> QED
    BY <1>5, <1>q, <1>u, <2>1, <2>2 DEF ReadGenerator, fetch
<1>6. ASSUME NEW t \in Threads, StoreGenerator(t) PROVE TypeOK'
  <2>1. PICK p \in AfterDraw(t) :
          GoTo(t, p) /\ numbers' = IF p = "receive" THEN Append(numbers, position[t]) ELSE numbers
    BY <1>6 DEF StoreGenerator
  <2>2. ThreadTypes'
    BY <1>6, <1>a, <1>g, <1>u, <1>t, <2>1, ThreadFacts DEF StoreGenerator, Points, ThreadTypes
  <2>3. position[t] \in Nat
    BY <1>t DEF SequenceTypes
  <2>4. numbers' \in Seq(Nat)
    BY <1>t, <2>1, <2>3 DEF SearchTypes
  <2>5. raced' \in BOOLEAN
    BY <1>6 DEF StoreGenerator
  <2>10. generator' = position[t] + 1
    BY <1>6 DEF StoreGenerator
  <2>8. generator' \in Nat
    BY <2>3, <2>10
  <2>9. position' \in [Threads -> Nat]
    BY <1>6, <1>t DEF StoreGenerator, SequenceTypes
  <2>6. SequenceTypes'
    BY <2>5, <2>8, <2>9 DEF SequenceTypes
  <2>7. SearchTypes'
    BY <1>6, <1>t, <2>4 DEF StoreGenerator, SearchTypes
  <2> QED
    BY <1>6, <1>q, <1>u, <2>2, <2>6, <2>7 DEF StoreGenerator, fetch
<1>7. ASSUME NEW k \in 1 .. MaxSearches, NEW s \in Servers, ReceiveSearchRespond(k, s) PROVE TypeOK'
  <2>1. SearchTypes'
    BY <1>7, <1>t, ClientAssumption DEF ReceiveSearchRespond, SearchTypes
  <2> QED
    BY <1>7, <1>q, <1>u, <2>1 DEF ReceiveSearchRespond, fetch
<1>8. ASSUME WindowEnds PROVE TypeOK'
  <2>1. ThreadTypes'
    BY <1>8, <1>g, <1>u, <1>t, ThreadFacts DEF WindowEnds, Points, ThreadTypes
  <2> QED
    BY <1>8, <1>q, <1>u, <2>1 DEF WindowEnds, fetch
<1>9. ASSUME NEW u \in Uploads, UploadContinues(u) PROVE TypeOK'
  <2>1. server' = server /\ u \in Threads /\ u \notin Fetches
    BY <1>9, <1>u, ThreadFacts DEF UploadContinues
  <2>2. running' \in BOOLEAN
    BY <1>9, <1>t DEF UploadContinues, ThreadTypes
  <2>3. (\E p \in Points : GoTo(u, p)) \/ UNCHANGED at
    BY <1>9 DEF UploadContinues, Points
  <2>4. ThreadTypes'
    <3>1. CASE \E p \in Points : GoTo(u, p)
      BY <1>g, <2>1, <2>2, <3>1
    <3>2. CASE UNCHANGED at
      BY <1>t, <2>1, <2>2, <3>2 DEF ThreadTypes
    <3> QED
      BY <2>3, <3>1, <3>2
  <2> QED
    BY <1>9, <1>q, <1>u, <2>4 DEF UploadContinues
<1>10. ASSUME NEW f \in Fetches, CreateOut(f) PROVE TypeOK'
  <2>1. server' = server /\ running' \in BOOLEAN /\ server[f] \in Servers /\ f \in Threads
    BY <1>10, <1>a, <1>t, <1>u, ThreadFacts DEF CreateOut, ThreadTypes, Points
  <2>2. \E p \in Points : GoTo(f, p)
    BY <1>10 DEF CreateOut, Points
  <2>3. ThreadTypes'
    BY <1>g, <2>1, <2>2
  <2>5. <<>> \in Seq(Pieces)
    OBVIOUS
  <2>4. OutputTypes'
    BY <1>10, <1>t, <2>5 DEF CreateOut, Truncated, OutputTypes
  <2> QED
    BY <1>10, <1>q, <1>u, <2>3, <2>4 DEF CreateOut
<1>11. ASSUME NEW f \in Fetches, ReadBlock(f) PROVE TypeOK'
  <2>1. PICK upto \in written[f] .. received'[f] : Write(f, upto) /\ written' = [written EXCEPT ![f] = upto]
    BY <1>11 DEF ReadBlock
  <2>2. received' = [received EXCEPT ![f] = @ + 1]
    BY <1>11 DEF ReadBlock
  <2>3. received[f] \in Nat /\ written[f] \in Nat /\ received'[f] = received[f] + 1
    BY <1>t, <2>2 DEF FetchTypes
  <2>4. upto \in Nat /\ upto <= received[f] + 1
    BY <2>1, <2>3
  <2>5. FetchTypes'
    BY <1>t, <2>1, <2>2, <2>3, <2>4 DEF FetchTypes
  <2>6. Stream(f) \in Copies
    BY <1>11, StreamCopy DEF ReadBlock, At
  <2>7. out' \in Seq(Pieces)
    BY <1>t, <2>1, <2>3, <2>4, <2>6, WrittenProperties DEF Write, OutputTypes
  <2>8. OutputTypes'
    BY <1>11, <1>t, <2>1, <2>7 DEF ReadBlock, Write, OutputTypes
  <2> QED
    BY <1>11, <1>q, <1>u, <2>5, <2>8 DEF ReadBlock
<1>12. ASSUME NEW f \in Fetches, EndOfStream(f) PROVE TypeOK'
  <2>1. ThreadTypes'
    BY <1>12, <1>a, <1>g, <1>u, <1>t, ThreadFacts DEF EndOfStream, Points, ThreadTypes
  <2> QED
    BY <1>12, <1>q, <1>u, <2>1 DEF EndOfStream, fetch
<1>13. ASSUME NEW f \in Fetches, CloseOut(f) PROVE TypeOK'
  <2>1. ThreadTypes'
    BY <1>13, <1>a, <1>g, <1>t, ThreadFacts DEF CloseOut, Points, ThreadTypes
  <2>2. FetchTypes'
    BY <1>13, <1>t DEF CloseOut, FetchTypes
  <2>3. Stream(f) \in Copies /\ received[f] \in Nat /\ written[f] \in Nat
    BY <1>13, <1>t, StreamCopy DEF CloseOut, At, FetchTypes
  <2>4. out' \in Seq(Pieces)
    BY <1>13, <1>t, <2>3, WrittenProperties DEF CloseOut, Write, OutputTypes
  <2>5. OutputTypes'
    BY <1>13, <1>t, <2>4 DEF CloseOut, Write, OutputTypes
  <2> QED
    BY <1>13, <1>q, <1>u, <2>1, <2>2, <2>5 DEF CloseOut
<1>14. CASE UNCHANGED vars
  BY <1>14, <1>q, <1>u DEF vars, fetch, sequence, search, output
<1> QED
  BY <1>1, <1>2, <1>3, <1>4, <1>5, <1>6, <1>7, <1>8, <1>9, <1>10, <1>11, <1>12, <1>13, <1>14
     DEF Next, FetchStep
-----------------------------------------------------------------------------
(* A step that is not of a stream leaves streams and file as they are: the *)
(* fetches that it moves have none yet.                                    *)
Late == {"copy", "close", "returned"}

Away ==
  /\ UNCHANGED <<copy, received, written, output>>
  /\ \A g \in Fetches :
       \/ at'[g] = at[g] /\ server'[g] = server[g]
       \/ at[g] \notin Late /\ at'[g] \notin {"copy", "close"}

(* A step that is away from all streams keeps them and the file.           *)
LEMMA AwayKeeps ==
  ASSUME TypeOK, Streams, Output, Away
  PROVE  Streams' /\ Output'
<1>1. /\ UNCHANGED <<copy, received, written, out, opener, mixed, complete>>
      /\ opener \in Fetches \cup {None} /\ complete \subseteq Fetches
  BY DEF Away, output, TypeOK
<1>2. \A g \in Fetches : at[g] \in Late => at'[g] = at[g] /\ Stream(g)' = Stream(g)
  BY <1>1 DEF Away, Stream
<1>3. \A g \in Fetches : at'[g] \in {"copy", "close"} => at[g] = at'[g]
  BY DEF Away
<1>4. Streams'
  BY <1>1, <1>2, <1>3 DEF Streams, Late
<1>5. ASSUME opener # None PROVE opener \in Fetches /\ Stream(opener)' = Stream(opener)
  BY <1>1, <1>2, <1>5 DEF Streams, Late
<1>6. Output'
  BY <1>1, <1>5 DEF Output, Right, Block, Gap
<1> QED
  BY <1>4, <1>6

(* The steps that are not of a stream, all of which are away from it.      *)
LEMMA StepsAway ==
  ASSUME TypeOK, Next, \A f \in Fetches : ~FetchStep(f)
  PROVE  Away
<1>t. at \in [Threads -> Points]
  BY DEF TypeOK
<1>1. ASSUME NEW t \in Threads, NEW p \in Points \ {"copy", "close"}, at[t] \notin Late, GoTo(t, p),
             UNCHANGED <<copy, fetch, output>>
      PROVE  Away
  BY <1>t, <1>1, ThreadFacts DEF Away, GoTo, fetch
<1>2. ASSUME UNCHANGED <<at, copy, fetch, output>> PROVE Away
  BY <1>2 DEF Away, fetch
<1>3. ASSUME Search PROVE Away
  BY <1>1, <1>3, ThreadFacts DEF Search, At, Points, Late
<1>4. ASSUME NEW f \in Fetches, Fetch(f) PROVE Away
  BY <1>t, <1>4, ThreadFacts DEF Fetch, At, GoTo, Away, Late, TypeOK
<1>5. ASSUME NEW u \in Uploads, Upload(u) PROVE Away
  BY <1>1, <1>5, ThreadFacts DEF Upload, At, Points, Late
<1>6. ASSUME Exit PROVE Away
  BY <1>2, <1>6 DEF Exit
<1>7. ASSUME NEW t \in Threads, ReadGenerator(t) PROVE Away
  BY <1>1, <1>7 DEF ReadGenerator, At, Points, Late
<1>8. ASSUME NEW t \in Threads, StoreGenerator(t) PROVE Away
  <2>1. \E p \in Points \ {"copy", "close"} : GoTo(t, p)
    BY <1>8 DEF StoreGenerator, AfterDraw, Points
  <2>2. at[t] \notin Late /\ UNCHANGED <<copy, fetch, output>>
    BY <1>8 DEF StoreGenerator, At, Late
  <2> QED
    BY <1>1, <2>1, <2>2
<1>9. ASSUME NEW k \in 1 .. MaxSearches, NEW s \in Servers, ReceiveSearchRespond(k, s) PROVE Away
  BY <1>2, <1>9 DEF ReceiveSearchRespond
<1>10. ASSUME WindowEnds PROVE Away
  BY <1>1, <1>10, ThreadFacts DEF WindowEnds, At, Points, Late
<1>11. ASSUME NEW u \in Uploads, UploadContinues(u) PROVE Away
  <2>1. (\E p \in Points \ {"copy", "close"} : GoTo(u, p)) \/ UNCHANGED at
    BY <1>11 DEF UploadContinues, Points
  <2>2. at[u] \notin Late /\ UNCHANGED <<copy, fetch, output>> /\ u \in Threads
    BY <1>11, ThreadFacts DEF UploadContinues, At, Late
  <2> QED
    BY <1>1, <1>2, <2>1, <2>2
<1> QED
  BY <1>3, <1>4, <1>5, <1>6, <1>7, <1>8, <1>9, <1>10, <1>11 DEF Next

(* What a stream may write of its copy.                                    *)
LEMMA WriteKeeps ==
  ASSUME TypeOK, Streams, Output,
         NEW f \in Fetches, at[f] \in {"copy", "close"},
         NEW upto \in Nat, written[f] <= upto, upto <= size(Stream(f)),
         Write(f, upto), ~mixed'
  PROVE  /\ opener \in Fetches
         /\ Len(out') <= size(Stream(opener))
         /\ \A k \in 1 .. Len(out') : out'[k] = Block(k) \/ out'[k] = Gap
         /\ written[opener] <= Len(out')
         /\ \A k \in 1 .. written[opener] : out'[k] = Block(k)
         /\ f = opener => upto <= Len(out') /\ \A k \in 1 .. upto : out'[k] = Block(k)
         /\ opener \in complete =>
              Len(out') = size(Stream(opener)) /\ \A k \in 1 .. Len(out') : out'[k] = Block(k)
<1>1. opener \in Fetches /\ at[f] # "idle" /\ at[opener] # "idle" /\ ~mixed
  BY DEF Streams, TypeOK, Write
<1>2. Stream(f) \in Copies /\ size(Stream(opener)) \in Nat
  BY <1>1, StreamCopy, ClientAssumption
<1>3. /\ out \in Seq(Pieces) /\ Len(out) \in Nat
      /\ written[f] \in Nat /\ written[opener] \in Nat
  BY <1>1, LenProperties DEF TypeOK, Pieces
<1>4. /\ Len(out) <= size(Stream(opener))
      /\ \A k \in 1 .. Len(out) : out[k] = Block(k) \/ out[k] = Gap
      /\ written[opener] <= Len(out)
      /\ \A k \in 1 .. written[opener] : out[k] = Block(k)
      /\ opener \in complete =>
           Len(out) = size(Stream(opener)) /\ \A k \in 1 .. Len(out) : out[k] = Block(k)
  BY <1>1, ClientAssumption DEF Output, Right
<1>5. CASE upto = written[f]
  <2>1. out' = out
    BY <1>2, <1>3, <1>5, NothingWritten DEF Write
  <2> QED
    BY <1>1, <1>4, <1>5, <2>1
<1>6. CASE upto > written[f]
  <2>1. Stream(f) = Stream(opener)
    BY <1>6 DEF Write
  <2> DEFINE N == IF upto > Len(out) THEN upto ELSE Len(out)
  <2>2. /\ Len(out') = N
        /\ \A k \in 1 .. N :
             out'[k] = IF k > written[f] /\ k <= upto THEN Block(k)
                       ELSE IF k <= Len(out) THEN out[k] ELSE Gap
    BY <1>2, <1>3, <1>6, <2>1, WrittenProperties DEF Write, Block
  <2>3. N \in Nat /\ upto <= N /\ Len(out) <= N /\ N <= size(Stream(opener))
    BY <1>2, <1>3, <1>4, <2>1
  <2> HIDE DEF N
  <2>4. \A k \in 1 .. Len(out') : out'[k] = Block(k) \/ out'[k] = Gap
    BY <1>3, <1>4, <2>2, <2>3
  <2>5. \A k \in 1 .. N : k <= Len(out) /\ out[k] = Block(k) => out'[k] = Block(k)
    BY <1>3, <2>2, <2>3
  <2>6. \A k \in 1 .. written[opener] : out'[k] = Block(k)
    BY <1>3, <1>4, <2>3, <2>5
  <2>7. ASSUME f = opener PROVE \A k \in 1 .. upto : out'[k] = Block(k)
    <3>1. \A k \in 1 .. upto : k \in 1 .. N /\ (k > written[f] \/ k \in 1 .. written[opener])
      BY <1>3, <2>3, <2>7
    <3> QED
      BY <2>2, <2>6, <3>1
  <2>8. ASSUME opener \in complete
        PROVE  Len(out') = size(Stream(opener)) /\ \A k \in 1 .. Len(out') : out'[k] = Block(k)
    <3>1. N = Len(out)
      BY <1>2, <1>3, <1>4, <2>3, <2>8
    <3> QED
      BY <1>4, <2>2, <2>5, <2>8, <3>1, <1>3
  <2> QED
    BY <1>1, <1>3, <1>4, <2>2, <2>3, <2>4, <2>6, <2>7, <2>8
<1> QED
  BY <1>3, <1>5, <1>6
-----------------------------------------------------------------------------
(* The steps of a fetch's stream.                                          *)
LEMMA StepCreateOut ==
  ASSUME TypeOK, Streams, Output, NEW f \in Fetches, CreateOut(f)
  PROVE  Streams' /\ Output'
<1>1. /\ at[f] = "create" /\ f \in Threads /\ at \in [Threads -> Points]
      /\ UNCHANGED <<copy, server, received, written, complete>>
  BY ThreadFacts DEF CreateOut, At, fetch, TypeOK
<1>2. received[f] = 0 /\ written[f] = 0 /\ f \notin complete /\ f # None
  BY <1>1, ClientAssumption DEF Streams
<1>3. CASE GoTo(f, "returned") /\ UNCHANGED <<out, opener, mixed>>
  <2>1. Away
    BY <1>1, <1>3, ThreadFacts DEF Away, GoTo, Late, output
  <2> QED
    BY <2>1, AwayKeeps
<1>4. CASE GoTo(f, "copy") /\ out' = Truncated /\ opener' = f /\ mixed' = FALSE
  <2>1. Stream(f) \in Copies /\ size(Stream(f)) \in Nat
    BY <1>1, StreamCopy, ClientAssumption
  <2>2. \A g \in Fetches : Stream(g)' = Stream(g)
    BY <1>1 DEF Stream
  <2>3. at'[f] = "copy" /\ \A g \in Fetches \ {f} : at'[g] = at[g]
    BY <1>1, <1>4, ThreadFacts DEF GoTo
  <2>8. \A g \in Fetches : /\ at'[g] \notin {"copy", "close"} => received[g] = 0 /\ written[g] = 0
                           /\ at'[g] \in {"copy", "close"} => received[g] <= size(Stream(g))
    BY <1>2, <2>1, <2>3 DEF Streams
  <2>9. \A g \in complete : at'[g] = "returned"
    BY <1>2, <2>3 DEF Streams, TypeOK
  <2>4. Streams'
    BY <1>1, <1>2, <1>4, <2>2, <2>3, <2>8, <2>9 DEF Streams
  <2>5. Len(out') = 0 /\ opener' = f /\ opener' \notin complete' /\ written'[opener'] = 0
    BY <1>1, <1>2, <1>4 DEF Truncated
  <2>6. Stream(opener)' = Stream(f)
    BY <1>1, <1>4 DEF Stream
  <2>7. Output'
    BY <2>1, <2>5, <2>6 DEF Output
  <2> QED
    BY <2>4, <2>7
<1> QED
  BY <1>3, <1>4 DEF CreateOut

(* A stream's write-through fills gaps with the opener's blocks, or with   *)
(* another copy's, which mixed then remembers.                             *)
LEMMA StepReadBlock ==
  ASSUME TypeOK, Streams, Output, NEW f \in Fetches, ReadBlock(f)
  PROVE  Streams' /\ Output'
<1>1. PICK upto \in written[f] .. received'[f] : Write(f, upto) /\ written' = [written EXCEPT ![f] = upto]
  BY DEF ReadBlock
<1>2. /\ at[f] = "copy" /\ received[f] < size(Stream(f)) /\ received' = [received EXCEPT ![f] = @ + 1]
      /\ UNCHANGED <<at, copy, server, opener, complete>>
  BY DEF ReadBlock, At
<1>3. /\ received[f] \in Nat /\ written[f] \in Nat /\ received'[f] = received[f] + 1
      /\ received \in [Fetches -> Nat] /\ written \in [Fetches -> Nat]
  BY <1>2 DEF TypeOK
<1>4. Stream(f) \in Copies /\ size(Stream(f)) \in Nat
  BY <1>2, StreamCopy, ClientAssumption
<1>5. upto \in Nat /\ written[f] <= upto /\ upto <= size(Stream(f)) /\ received'[f] <= size(Stream(f))
  BY <1>1, <1>2, <1>3, <1>4
<1>6. /\ \A g \in Fetches : Stream(g)' = Stream(g)
      /\ \A g \in Fetches \ {f} : received'[g] = received[g] /\ written'[g] = written[g]
      /\ written'[f] = upto
  BY <1>1, <1>2, <1>3 DEF Stream
<1>7. Streams'
  BY <1>2, <1>5, <1>6 DEF Streams, TypeOK
<1>8. ASSUME ~mixed' PROVE Output'
  <2>1. /\ opener \in Fetches
        /\ Len(out') <= size(Stream(opener))
        /\ \A k \in 1 .. Len(out') : out'[k] = Block(k) \/ out'[k] = Gap
        /\ written[opener] <= Len(out')
        /\ \A k \in 1 .. written[opener] : out'[k] = Block(k)
        /\ f = opener => upto <= Len(out') /\ \A k \in 1 .. upto : out'[k] = Block(k)
        /\ opener \in complete =>
             Len(out') = size(Stream(opener)) /\ \A k \in 1 .. Len(out') : out'[k] = Block(k)
    BY <1>1, <1>2, <1>5, <1>8, WriteKeeps
  <2>2. /\ opener' = opener /\ complete' = complete /\ Stream(opener)' = Stream(opener)
        /\ written'[opener] = IF opener = f THEN upto ELSE written[opener]
    BY <1>2, <1>6, <2>1
  <2>3. \A k : Block(k)' = Block(k)
    BY <2>2 DEF Block
  <2>4. written'[opener] <= Len(out') /\ \A k \in 1 .. written'[opener] : out'[k] = Block(k)
    BY <2>1, <2>2
  <2> QED
    BY <2>1, <2>2, <2>3, <2>4 DEF Output, Right, Gap
<1>9. ASSUME mixed' PROVE Output'
  BY <1>9 DEF Output
<1> QED
  BY <1>7, <1>8, <1>9

(* The end of the connection writes nothing.                               *)
LEMMA StepEndOfStream ==
  ASSUME TypeOK, Streams, Output, NEW f \in Fetches, EndOfStream(f)
  PROVE  Streams' /\ Output'
<1>1. /\ at[f] = "copy" /\ f \in Threads /\ at \in [Threads -> Points]
      /\ at' = [at EXCEPT ![f] = "close"]
      /\ UNCHANGED <<copy, server, received, written, out, opener, mixed, complete>>
  BY ThreadFacts DEF EndOfStream, At, GoTo, fetch, output, TypeOK
<1>2. \A g \in Fetches : g \in Threads /\ Stream(g)' = Stream(g)
  BY <1>1, ThreadFacts DEF Stream
<1>3. /\ at'[f] = "close" /\ \A g \in Fetches \ {f} : at'[g] = at[g]
  BY <1>1, <1>2
<1>4. Streams'
  BY <1>1, <1>2, <1>3 DEF Streams, TypeOK
<1>5. \A k : Block(k)' = Block(k)
  BY <1>1 DEF Block, Stream
<1>6. Output'
  BY <1>1, <1>5 DEF Output, Right, Gap, Stream
<1> QED
  BY <1>4, <1>6

(* The destructor writes what is buffered, and a copy that is whole now is *)
(* whole in the file.                                                      *)
LEMMA StepCloseOut ==
  ASSUME TypeOK, Streams, Output, NEW f \in Fetches, CloseOut(f)
  PROVE  Streams' /\ Output'
<1>1. /\ at[f] = "close" /\ f \in Threads /\ at \in [Threads -> Points]
      /\ at' = [at EXCEPT ![f] = "returned"]
      /\ received' = [received EXCEPT ![f] = 0] /\ written' = [written EXCEPT ![f] = 0]
      /\ received \in [Fetches -> Nat] /\ written \in [Fetches -> Nat]
      /\ UNCHANGED <<copy, server, opener>>
  BY ThreadFacts DEF CloseOut, At, GoTo, TypeOK
<1>2. \A g \in Fetches : g \in Threads /\ Stream(g)' = Stream(g)
  BY <1>1, ThreadFacts DEF Stream
<1>3. /\ at'[f] = "returned" /\ received'[f] = 0 /\ written'[f] = 0
      /\ \A g \in Fetches \ {f} : at'[g] = at[g] /\ received'[g] = received[g] /\ written'[g] = written[g]
  BY <1>1, <1>2
<1>4. complete' \subseteq complete \cup {f}
  BY DEF CloseOut
<1>5. Streams'
  BY <1>1, <1>2, <1>3, <1>4 DEF Streams, TypeOK
<1>6. \A k : Block(k)' = Block(k)
  BY <1>1 DEF Block, Stream
<1>7. received[f] \in Nat /\ written[f] \in Nat /\ written[f] <= received[f]
  BY DEF TypeOK
<1>8. /\ received[f] <= size(Stream(f)) /\ opener # None /\ opener \in Fetches
      /\ Stream(opener)' = Stream(opener) /\ opener' = opener /\ size(Stream(opener)) \in Nat
  <2>1. received[f] <= size(Stream(f)) /\ opener # None
    BY <1>1 DEF Streams
  <2>2. opener \in Fetches /\ at[opener] # "idle"
    BY <2>1 DEF Streams, TypeOK
  <2> QED
    BY <1>1, <1>2, <2>1, <2>2, StreamCopy, ClientAssumption
<1>9. Len(out) \in Nat
  BY LenProperties DEF TypeOK
<1>10. ASSUME UNCHANGED <<out, mixed, complete>> PROVE Output'
  BY <1>3, <1>6, <1>8, <1>9, <1>10 DEF Output, Right, Gap
<1>11. ASSUME Write(f, received[f]),
              complete' = IF received[f] = size(Stream(f)) THEN complete \cup {f} ELSE complete,
              ~mixed'
       PROVE  Output'
  <2>1. /\ Len(out') <= size(Stream(opener))
        /\ \A k \in 1 .. Len(out') : out'[k] = Block(k) \/ out'[k] = Gap
        /\ written[opener] <= Len(out')
        /\ \A k \in 1 .. written[opener] : out'[k] = Block(k)
        /\ f = opener => received[f] <= Len(out') /\ \A k \in 1 .. received[f] : out'[k] = Block(k)
        /\ opener \in complete =>
             Len(out') = size(Stream(opener)) /\ \A k \in 1 .. Len(out') : out'[k] = Block(k)
    BY <1>1, <1>7, <1>8, <1>11, WriteKeeps
  <2>2. Len(out') \in Nat
    <3>1. TypeOK'
      BY StepTypes DEF Next, FetchStep
    <3> QED
      BY <3>1, LenProperties DEF TypeOK
  <2>3. written'[opener] <= Len(out') /\ \A k \in 1 .. written'[opener] : out'[k] = Block(k)
    BY <1>3, <1>8, <2>1, <2>2
  <2>4. ASSUME opener \in complete'
        PROVE  Len(out') = size(Stream(opener)) /\ \A k \in 1 .. Len(out') : out'[k] = Block(k)
    <3>1. CASE opener \in complete
      BY <2>1, <3>1
    <3>2. CASE opener = f /\ received[f] = size(Stream(f))
      BY <1>8, <2>1, <2>2, <3>2
    <3> QED
      BY <1>11, <2>4, <3>1, <3>2
  <2> QED
    BY <1>6, <1>8, <2>1, <2>3, <2>4 DEF Output, Right, Gap
<1>12. ASSUME mixed' PROVE Output'
  BY <1>12 DEF Output
<1> QED
  BY <1>5, <1>10, <1>11, <1>12 DEF CloseOut
-----------------------------------------------------------------------------
(* A draw that undoes no other is above all that were drawn before.        *)
Increasing ==
  \A k \in 1 .. Len(numbers) :
    numbers[k] < generator /\ \A j \in 1 .. Len(numbers) : j < k => numbers[j] < numbers[k]

(* A draw that undoes no other appends a number above all the others.      *)
LEMMA StoreIncreasing ==
  ASSUME TypeOK, Increasing, NEW t \in Threads, StoreGenerator(t), ~raced'
  PROVE  Increasing'
<1>1. PICK p \in AfterDraw(t) :
        GoTo(t, p) /\ numbers' = IF p = "receive" THEN Append(numbers, position[t]) ELSE numbers
  BY DEF StoreGenerator
<1>2. generator = position[t] /\ generator' = position[t] + 1
  BY DEF StoreGenerator
<1>3. numbers \in Seq(Nat) /\ generator \in Nat /\ Len(numbers) \in Nat
      /\ \A k \in 1 .. Len(numbers) : numbers[k] \in Nat
  BY LenProperties DEF TypeOK
<1>4. \A k \in 1 .. Len(numbers) :
        numbers[k] < generator /\ \A j \in 1 .. Len(numbers) : j < k => numbers[j] < numbers[k]
  BY DEF Increasing
<1>5. CASE p # "receive"
  BY <1>1, <1>2, <1>3, <1>4, <1>5 DEF Increasing
<1>6. CASE p = "receive"
  <2> DEFINE new == Append(numbers, generator)
  <2>1. numbers' = new
    BY <1>1, <1>2, <1>6
  <2>2. /\ Len(new) = Len(numbers) + 1
        /\ \A k \in 1 .. Len(numbers) : new[k] = numbers[k]
        /\ new[Len(numbers) + 1] = generator
    BY <1>3
  <2> HIDE DEF new
  <2>3. ASSUME NEW k \in 1 .. Len(new) PROVE new[k] < generator + 1
    <3>1. k \in 1 .. Len(numbers) \/ k = Len(numbers) + 1
      BY <1>3, <2>2
    <3> QED
      BY <1>3, <1>4, <2>2, <3>1
  <2>4. ASSUME NEW k \in 1 .. Len(new), NEW j \in 1 .. Len(new), j < k PROVE new[j] < new[k]
    <3>1. j \in 1 .. Len(numbers) /\ (k \in 1 .. Len(numbers) \/ k = Len(numbers) + 1)
      BY <1>3, <2>2, <2>4
    <3> QED
      BY <1>3, <1>4, <2>2, <2>4, <3>1
  <2> QED
    BY <1>2, <2>1, <2>3, <2>4 DEF Increasing
<1> QED
  BY <1>5, <1>6

(* Only Main sends searches, and only while it has no results.             *)
LEMMA StepDraws ==
  ASSUME TypeOK, Draws, OwnResults, Next
  PROVE  Draws' /\ OwnResults'
<1> DEFINE Drawing == at[Main] \in {"read generator", "store generator"}
<1>t. at \in [Threads -> Points] /\ Main \in Threads /\ (~raced => Increasing) /\ (Drawing => results = None)
      /\ numbers \in Seq(Nat) /\ Len(numbers) \in Nat
  BY ThreadFacts, LenProperties DEF TypeOK, Draws, Increasing
<1>d. ASSUME ~raced' => Increasing', Drawing' => results' = None PROVE Draws'
  BY <1>d DEF Draws, Increasing
<1>i. ASSUME UNCHANGED <<sequence, numbers>> PROVE ~raced' => Increasing'
  BY <1>i, <1>t DEF Increasing, sequence
<1>o. ASSUME UNCHANGED <<raced, search>> PROVE OwnResults'
  BY <1>o DEF OwnResults, search
<1>g. ASSUME NEW t \in Threads, NEW p, GoTo(t, p) PROVE at'[Main] = IF t = Main THEN p ELSE at[Main]
  BY <1>t, <1>g DEF GoTo
<1>1. ASSUME Search PROVE Draws' /\ OwnResults'
  BY <1>1, <1>d, <1>i DEF Search, OwnResults
<1>2. ASSUME NEW f \in Fetches, Fetch(f) PROVE Draws' /\ OwnResults'
  BY <1>2, <1>t, <1>d, <1>i, <1>o, <1>g, ThreadFacts DEF Fetch, search, sequence
<1>3. ASSUME NEW u \in Uploads, Upload(u) PROVE Draws' /\ OwnResults'
  BY <1>3, <1>t, <1>d, <1>i, <1>o, <1>g, ThreadFacts, ClientAssumption DEF Upload, search, sequence
<1>4. ASSUME Exit PROVE Draws' /\ OwnResults'
  BY <1>4, <1>t, <1>d, <1>i, <1>o DEF Exit, search, sequence
<1>5. ASSUME NEW t \in Threads, ReadGenerator(t) PROVE Draws' /\ OwnResults'
  <2>1. Increasing' <=> Increasing
    BY <1>5 DEF ReadGenerator, Increasing, search
  <2>2. Drawing' => Drawing
    BY <1>5, <1>g DEF ReadGenerator, At
  <2>3. UNCHANGED <<raced, search>> /\ results' = results
    BY <1>5 DEF ReadGenerator, search
  <2> QED
    BY <1>t, <1>d, <1>o, <2>1, <2>2, <2>3
<1>6. ASSUME NEW t \in Threads, StoreGenerator(t) PROVE Draws' /\ OwnResults'
  <2>1. PICK p \in AfterDraw(t) :
          GoTo(t, p) /\ numbers' = IF p = "receive" THEN Append(numbers, position[t]) ELSE numbers
    BY <1>6 DEF StoreGenerator
  <2>2. /\ UNCHANGED <<results, answering>> /\ (~raced' => ~raced)
        /\ at[t] = "store generator"
    BY <1>6 DEF StoreGenerator, At
  <2>3. Drawing' => Drawing
    BY <2>1, <1>g DEF AfterDraw
  <2>4. Draws'
    BY <1>t, <1>d, <1>6, <2>2, <2>3, StoreIncreasing
  <2>5. t = Main => results = None
    BY <1>t, <2>2
  <2>6. t # Main => numbers' = numbers
    BY <2>1 DEF AfterDraw
  <2> QED
    BY <2>2, <2>4, <2>5, <2>6 DEF OwnResults
<1>7. ASSUME NEW k \in 1 .. MaxSearches, NEW s \in Servers, ReceiveSearchRespond(k, s)
      PROVE  Draws' /\ OwnResults'
  <2>1. /\ at[Main] = "receive" /\ k \in 1 .. Len(numbers) /\ numbers[k] = numbers[Len(numbers)]
        /\ answering' = k /\ UNCHANGED <<at, sequence, numbers>>
    BY <1>7 DEF ReceiveSearchRespond, At, Expected
  <2>2. ASSUME ~raced PROVE k = Len(numbers)
    <3>1. \A j \in 1 .. Len(numbers) : numbers[j] \in Nat
      BY <1>t, ElementOfSeq
    <3>2. Len(numbers) \in 1 .. Len(numbers) /\ k <= Len(numbers)
      BY <1>t, <2>1
    <3>3. k < Len(numbers) => numbers[k] < numbers[Len(numbers)]
      BY <1>t, <2>1, <2>2, <3>2 DEF Increasing
    <3>4. ~(numbers[k] < numbers[Len(numbers)])
      BY <2>1, <3>1, <3>2
    <3> QED
      BY <2>1, <3>2, <3>3, <3>4, <1>t
  <2>3. OwnResults'
    BY <2>1, <2>2 DEF OwnResults, sequence
  <2>4. Draws'
    BY <1>t, <1>d, <1>i, <2>1
  <2> QED
    BY <2>3, <2>4
<1>8. ASSUME WindowEnds PROVE Draws' /\ OwnResults'
  <2>1. at'[Main] = "idle" /\ UNCHANGED <<sequence, search>>
    BY <1>8, <1>t, <1>g DEF WindowEnds
  <2> QED
    BY <1>d, <1>i, <1>o, <2>1 DEF search, sequence
<1>9. ASSUME NEW u \in Uploads, UploadContinues(u) PROVE Draws' /\ OwnResults'
  <2>1. u \in Threads /\ u # Main
    BY ThreadFacts, ClientAssumption
  <2>2. at'[Main] = at[Main]
    BY <1>9, <1>g, <2>1 DEF UploadContinues
  <2> QED
    BY <1>9, <1>t, <1>d, <1>i, <1>o, <2>2 DEF UploadContinues, search, sequence
<1>10. ASSUME NEW f \in Fetches, FetchStep(f) PROVE Draws' /\ OwnResults'
  <2>1. f \in Threads /\ f # Main
    BY ThreadFacts
  <2>2. at'[Main] = at[Main]
    BY <1>10, <1>g, <2>1 DEF FetchStep, CreateOut, ReadBlock, EndOfStream, CloseOut
  <2>3. UNCHANGED <<sequence, search>>
    BY <1>10 DEF FetchStep, CreateOut, ReadBlock, EndOfStream, CloseOut
  <2> QED
    BY <1>t, <1>d, <1>i, <1>o, <2>2, <2>3 DEF search, sequence
<1> QED
  BY <1>1, <1>2, <1>3, <1>4, <1>5, <1>6, <1>7, <1>8, <1>9, <1>10 DEF Next
-----------------------------------------------------------------------------
(* Every behaviour keeps the inductive invariant.                          *)
LEMMA ClientInvariant == Spec => []IInv
<1>1. Init => IInv
  <2> SUFFICES ASSUME Init PROVE IInv
    OBVIOUS
  <2>1. <<>> \in Seq(Nat) /\ <<>> \in Seq([copy : Copies \cup {None}, block : Nat])
    OBVIOUS
  <2>2. TypeOK
    <3>1. \A f \in Fetches : f \in Threads /\ at[f] = "idle" /\ written[f] <= received[f]
      BY ThreadFacts DEF Init
    <3> QED
      BY <2>1, <3>1 DEF Init, TypeOK, Points
  <2>3. Streams /\ Output
    BY ThreadFacts DEF Init, Streams, Output
  <2>4. Draws /\ OwnResults
    BY ThreadFacts DEF Init, Draws, OwnResults
  <2> QED
    BY <2>2, <2>3, <2>4 DEF IInv
<1>2. IInv /\ [Next]_vars => IInv'
  <2> SUFFICES ASSUME IInv, [Next]_vars PROVE IInv'
    OBVIOUS
  <2>1. TypeOK'
    BY StepTypes DEF IInv
  <2>2. CASE UNCHANGED vars
    <3>1. UNCHANGED <<copy, received, written, output, server, at>> /\ UNCHANGED <<sequence, search>>
      BY <2>2 DEF vars, fetch
    <3>2. Away
      BY <3>1 DEF Away
    <3>3. Streams' /\ Output'
      BY <3>2, AwayKeeps DEF IInv
    <3>4. Draws' /\ OwnResults'
      BY <3>1 DEF IInv, Draws, OwnResults, sequence, search
    <3> QED
      BY <2>1, <3>3, <3>4 DEF IInv
  <2>3. CASE Next
    <3>1. Draws' /\ OwnResults'
      BY <2>3, StepDraws DEF IInv
    <3>2. Streams' /\ Output'
      <4>1. ASSUME NEW f \in Fetches, FetchStep(f) PROVE Streams' /\ Output'
        BY <4>1, StepCreateOut, StepReadBlock, StepEndOfStream, StepCloseOut DEF IInv, FetchStep
      <4>2. ASSUME \A f \in Fetches : ~FetchStep(f) PROVE Streams' /\ Output'
        BY <2>3, <4>2, StepsAway, AwayKeeps DEF IInv
      <4> QED
        BY <4>1, <4>2
    <3> QED
      BY <2>1, <3>1, <3>2 DEF IInv
  <2> QED
    BY <2>2, <2>3
<1> QED
  BY <1>1, <1>2, PTL DEF Spec

(* A fetch thread has a server to ask, and the output file, the counts of  *)
(* the streams and the numbers drawn are what their types say.             *)
THEOREM TypesKept == Spec => []TypeOK
<1>1. IInv => TypeOK
  BY DEF IInv
<1> QED
  BY <1>1, ClientInvariant, PTL

(* The file is the copy of the fetch that opened it last, if that came     *)
(* whole and reached the disk and no other copy was written since.         *)
THEOREM LastFetchDecides == Spec => []LastFetchWhole
<1>1. IInv => LastFetchWhole
  <2> SUFFICES ASSUME IInv, opener \in complete, ~mixed
               PROVE  out = [k \in 1 .. size(Stream(opener)) |-> [copy |-> Stream(opener), block |-> k]]
    BY DEF LastFetchWhole
  <2>1. opener \in Fetches /\ opener # None /\ out \in Seq(Pieces)
    BY ClientAssumption DEF IInv, TypeOK, Pieces
  <2>2. Len(out) = size(Stream(opener)) /\ \A k \in 1 .. Len(out) : out[k] = Block(k)
    BY <2>1 DEF IInv, Output, Right
  <2>3. out = [k \in 1 .. Len(out) |-> out[k]]
    BY <2>1
  <2> QED
    BY <2>2, <2>3 DEF Block
<1> QED
  BY <1>1, ClientInvariant, PTL

(* As long as no draw undid another, the results in memory are of an       *)
(* answer to the last search.                                              *)
THEOREM ResultsAreOwn == Spec => []OwnResults
<1>1. IInv => OwnResults
  BY DEF IInv
<1> QED
  BY <1>1, ClientInvariant, PTL
=============================================================================
