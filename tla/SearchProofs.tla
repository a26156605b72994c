---------------------------- MODULE SearchProofs ----------------------------
(***************************************************************************)
(* Proofs about Search, for any servers, files and number of commands.     *)
(***************************************************************************)
EXTENDS Search, FiniteSetTheorems, TLAPS

(* Every datagram under way answers a command that was sent.               *)
Answers == \A a \in answers : a.message_seq \in 1 .. message_seq /\ a.kind = command[a.message_seq]

(* What the client remembers was named by a server in the last search.     *)
Results ==
  \A f \in DOMAIN last_search_results : \E a \in answers :
    /\ IsLastSearch(a.message_seq, message_seq)
    /\ a.server = last_search_results[f]
    /\ f \in a.files

Fetches == \A r \in fetched : r.after \in 0 .. message_seq

Sent == sent \subseteq 1 .. message_seq

(* A number that is waited for has been drawn; the rest are not used.      *)
Numbers ==
  /\ message_seq \in 0 .. MaxCommands
  /\ DOMAIN command = 1 .. MaxCommands
  /\ main # "idle" => message_seq \in 1 .. MaxCommands

IInv == Numbers /\ Sent /\ Answers /\ Results /\ Fetches /\ FetchFromLister

(* Nothing has been sent or found.                                         *)
LEMMA InitIInv == Init => IInv
<1> SUFFICES ASSUME Init
             PROVE  IInv
  OBVIOUS
<1>1. DOMAIN last_search_results = {}
  BY DEF Init, NoResults
<1>2. Numbers
  BY SearchAssumption DEF Init, Numbers
<1>3. Sent /\ Answers /\ Results /\ Fetches /\ FetchFromLister
  BY <1>1 DEF Init, Sent, Answers, Results, Fetches, FetchFromLister
<1> QED
  BY <1>2, <1>3 DEF IInv

(* A new command leaves the numbers of the earlier ones alone.             *)
LEMMA StepRequest ==
  ASSUME IInv, NEW kind \in Commands, Request(kind),
         IF kind = "search" THEN last_search_results' = NoResults ELSE UNCHANGED last_search_results
  PROVE  IInv'
<1>1. /\ message_seq < MaxCommands
      /\ message_seq' = message_seq + 1
      /\ command' = [command EXCEPT ![message_seq'] = kind]
      /\ sent' \in {sent, sent \cup {message_seq'}}
      /\ UNCHANGED <<answers, fetched>>
  BY DEF Request
<1>2. message_seq \in Nat /\ MaxCommands \in Nat /\ DOMAIN command = 1 .. MaxCommands
  BY SearchAssumption DEF IInv, Numbers
<1>3. message_seq' \in 1 .. MaxCommands
  BY <1>1, <1>2
<1>4. Numbers'
  BY <1>1, <1>2, <1>3 DEF Numbers
<1>5. \A n \in 1 .. message_seq : command'[n] = command[n]
  BY <1>1, <1>2
<1>6. command'[message_seq'] = kind
  BY <1>1, <1>2, <1>3
<1>7. Sent'
  BY <1>1, <1>2 DEF IInv, Sent
<1>8. Answers'
  BY <1>1, <1>2, <1>5 DEF IInv, Answers
<1>9. Fetches'
  BY <1>1, <1>2 DEF IInv, Fetches
<1>10. ASSUME NEW k \in 1 .. message_seq, NEW n \in 0 .. message_seq, IsLastSearch(k, n)
       PROVE  IsLastSearch(k, n)'
  BY <1>2, <1>5, <1>10 DEF IsLastSearch
<1>11. FetchFromLister'
  <2> SUFFICES ASSUME NEW r \in fetched
               PROVE  \E a \in answers : /\ IsLastSearch(a.message_seq, r.after)'
                                         /\ a.server = r.server /\ r.file \in a.files
    BY <1>1 DEF FetchFromLister
  <2>1. PICK a \in answers : /\ IsLastSearch(a.message_seq, r.after)
                             /\ a.server = r.server /\ r.file \in a.files
    BY DEF IInv, FetchFromLister
  <2>2. a.message_seq \in 1 .. message_seq /\ r.after \in 0 .. message_seq
    BY DEF IInv, Answers, Fetches
  <2> QED
    BY <2>1, <2>2, <1>10
<1>12. Results'
  <2>1. CASE kind = "search"
    <3>1. DOMAIN last_search_results' = {}
      BY <2>1 DEF NoResults
    <3> QED
      BY <3>1 DEF Results
  <2>2. CASE kind # "search"
    <3> SUFFICES ASSUME NEW f \in DOMAIN last_search_results
                 PROVE  \E a \in answers : /\ IsLastSearch(a.message_seq, message_seq)'
                                           /\ a.server = last_search_results[f] /\ f \in a.files
      BY <1>1, <2>2 DEF Results
    <3>1. PICK a \in answers : /\ IsLastSearch(a.message_seq, message_seq)
                               /\ a.server = last_search_results[f] /\ f \in a.files
      BY DEF IInv, Results
    <3>2. IsLastSearch(a.message_seq, message_seq)'
      BY <1>1, <1>2, <1>5, <1>6, <2>2, <3>1 DEF IsLastSearch
    <3> QED
      BY <3>1, <3>2
  <2> QED
    BY <2>1, <2>2
<1> QED
  BY <1>4, <1>7, <1>8, <1>9, <1>11, <1>12 DEF IInv

(* A fetch takes the server from the results, which are those of the last  *)
(* search.                                                                 *)
LEMMA StepFetch ==
  ASSUME IInv, NEW f \in Files, Fetch(f)
  PROVE  IInv'
<1>1. /\ f \in DOMAIN last_search_results
      /\ fetched' = fetched \cup {[file |-> f, server |-> last_search_results[f], after |-> message_seq]}
      /\ UNCHANGED <<main, message_seq, command, sent, last_search_results, answers>>
  BY DEF Fetch, requests
<1>2. message_seq \in 0 .. message_seq
  BY SearchAssumption DEF IInv, Numbers
<1>3. Fetches'
  BY <1>1, <1>2 DEF IInv, Fetches
<1>4. FetchFromLister'
  <2> SUFFICES ASSUME NEW r \in fetched'
               PROVE  \E a \in answers : /\ IsLastSearch(a.message_seq, r.after)
                                         /\ a.server = r.server /\ r.file \in a.files
    BY <1>1 DEF FetchFromLister, IsLastSearch
  <2>1. CASE r \in fetched
    BY <2>1 DEF IInv, FetchFromLister
  <2>2. CASE r = [file |-> f, server |-> last_search_results[f], after |-> message_seq]
    BY <1>1, <2>2 DEF IInv, Results
  <2> QED
    BY <1>1, <2>1, <2>2
<1>5. Numbers' /\ Sent' /\ Answers' /\ Results'
  BY <1>1 DEF IInv, Numbers, Sent, Answers, Results, IsLastSearch
<1> QED
  BY <1>3, <1>4, <1>5 DEF IInv

(* An answer that is taken carries the number of the last command.         *)
LEMMA StepReceive ==
  ASSUME IInv, NEW a \in answers, Receive(a)
  PROVE  IInv'
<1>1. /\ main = "receive"
      /\ last_search_results' = IF Expected(a) /\ a.kind = "search" THEN UpdateSearchResults(a)
                                                                     ELSE last_search_results
      /\ UNCHANGED <<message_seq, command, sent, answers, fetched>>
  BY DEF Receive, requests
<1>2. Numbers'
  BY <1>1 DEF IInv, Numbers
<1>3. Results'
  <2>1. CASE ~(Expected(a) /\ a.kind = "search")
    BY <1>1, <2>1 DEF IInv, Results, IsLastSearch
  <2>2. CASE Expected(a) /\ a.kind = "search"
    <3>1. IsLastSearch(a.message_seq, message_seq)
      BY <1>1, <2>2, SearchAssumption DEF IInv, Numbers, Expected, IsLastSearch
    <3>2. /\ DOMAIN last_search_results' = DOMAIN last_search_results \cup a.files
          /\ \A f \in a.files : last_search_results'[f] = a.server
          /\ \A f \in DOMAIN last_search_results \ a.files : last_search_results'[f] = last_search_results[f]
      BY <1>1, <2>2 DEF UpdateSearchResults
    <3> SUFFICES ASSUME NEW f \in DOMAIN last_search_results'
                 PROVE  \E b \in answers : /\ IsLastSearch(b.message_seq, message_seq)
                                           /\ b.server = last_search_results'[f] /\ f \in b.files
      BY <1>1 DEF Results, IsLastSearch
    <3>3. CASE f \in a.files
      BY <3>1, <3>2, <3>3
    <3>4. CASE f \in DOMAIN last_search_results \ a.files
      BY <3>2, <3>4 DEF IInv, Results
    <3> QED
      BY <3>2, <3>3, <3>4
  <2> QED
    BY <2>1, <2>2
<1>4. Sent' /\ Answers' /\ Fetches' /\ FetchFromLister'
  BY <1>1 DEF IInv, Sent, Answers, Fetches, FetchFromLister, IsLastSearch
<1> QED
  BY <1>2, <1>3, <1>4 DEF IInv

(* A new answer carries the number of a request that was sent.             *)
LEMMA StepAnswer ==
  ASSUME IInv, NEW s \in Servers, NEW n \in 1 .. MaxCommands, NEW files \in SUBSET Files, Answer(s, n, files)
  PROVE  IInv'
<1>1. /\ n \in sent
      /\ answers' = answers \cup {[kind |-> command[n], message_seq |-> n, server |-> s, files |-> files]}
      /\ UNCHANGED <<main, message_seq, command, sent, last_search_results, fetched>>
  BY DEF Answer, requests
<1>2. Answers'
  BY <1>1 DEF IInv, Sent, Answers
<1>3. Numbers' /\ Sent' /\ Fetches'
  BY <1>1 DEF IInv, Numbers, Sent, Fetches
<1>4. Results'
  BY <1>1 DEF IInv, Results, IsLastSearch
<1>5. FetchFromLister'
  BY <1>1 DEF IInv, FetchFromLister, IsLastSearch
<1> QED
  BY <1>2, <1>3, <1>4, <1>5 DEF IInv

(* The rest of the loop and the clock.                                     *)
LEMMA StepQuiet ==
  ASSUME IInv, IsTimeout \/ SetTimeout \/ ReceiveTimesOut \/ TimePasses \/ UNCHANGED vars
  PROVE  IInv'
<1>1. UNCHANGED <<message_seq, command, sent, last_search_results, answers, fetched>>
  BY DEF IsTimeout, SetTimeout, ReceiveTimesOut, TimePasses, vars, requests
<1>2. main' # "idle" => main # "idle"
  BY DEF IsTimeout, SetTimeout, ReceiveTimesOut, TimePasses, vars
<1>3. Numbers'
  BY <1>1, <1>2 DEF IInv, Numbers
<1>4. Sent' /\ Answers' /\ Fetches'
  BY <1>1 DEF IInv, Sent, Answers, Fetches
<1>5. Results' /\ FetchFromLister'
  BY <1>1 DEF IInv, Results, FetchFromLister, IsLastSearch
<1> QED
  BY <1>3, <1>4, <1>5 DEF IInv

(* A fetch asks a server that named the file in the last search.           *)
THEOREM FetchAsksLister == Spec => []FetchFromLister
<1>1. IInv => FetchFromLister
  BY DEF IInv
<1>2. IInv /\ [Next]_vars => IInv'
  <2> SUFFICES ASSUME IInv, [Next]_vars
               PROVE  IInv'
    OBVIOUS
  <2>1. CASE SearchFiles
    BY <2>1, StepRequest DEF SearchFiles, Commands
  <2>2. CASE Discover
    BY <2>2, StepRequest DEF Discover, Commands
  <2> QED
    BY <2>1, <2>2, StepFetch, StepReceive, StepAnswer, StepQuiet DEF Next, LoopStep
<1> QED
  BY <1>1, <1>2, InitIInv, PTL DEF Spec
-----------------------------------------------------------------------------
(* Division with a divisor that is not a number.                           *)
LEMMA Division ==
  ASSUME NEW a \in Nat, NEW k \in Nat \ {0}
  PROVE  /\ a \div k \in Nat
         /\ a % k \in 0 .. (k - 1)
         /\ a = k * (a \div k) + (a % k)
BY SMT

(* The quotient is the only number that leaves such a rest.                *)
LEMMA Quotient ==
  ASSUME NEW k \in Nat \ {0}, NEW p \in Nat, NEW s \in 0 .. (k - 1)
  PROVE  (k * p + s) \div k = p
<1> DEFINE a == k * p + s
           d == a \div k
           m == a % k
<1>1. k * p \in Nat
  BY SMT
<1>2. a \in Nat
  BY <1>1
<1>3. d \in Nat /\ m \in 0 .. (k - 1) /\ a = k * d + m
  BY <1>2, Division
<1> HIDE DEF d, m
<1>4. k * d \in Nat
  BY <1>3, SMT
<1>5. ~(d < p)
  <2> SUFFICES ASSUME d < p PROVE FALSE
    OBVIOUS
  <2>1. k * (d + 1) <= k * p
    BY <1>3, SMT
  <2>2. k * (d + 1) = k * d + k
    BY <1>3, SMT
  <2> QED
    BY <1>1, <1>3, <1>4, <2>1, <2>2
<1>6. ~(p < d)
  <2> SUFFICES ASSUME p < d PROVE FALSE
    OBVIOUS
  <2>1. k * (p + 1) <= k * d
    BY <1>3, SMT
  <2>2. k * (p + 1) = k * p + k
    BY SMT
  <2> QED
    BY <1>1, <1>3, <1>4, <2>1, <2>2
<1>7. d = p
  BY <1>3, <1>5, <1>6
<1> QED
  BY <1>7 DEF d

(* Unless the fraction is a whole second, what get_elapsed_time_timeval    *)
(* returns is what is left of the window, to the tick.                     *)
LEMMA RestOfWindow ==
  ASSUME NEW e \in Nat, Fraction(e) # Ticks
  PROVE  /\ Fraction(e) \in 1 .. (Ticks - 1)
         /\ Seconds(e) \in Int
         /\ e + Seconds(e) * Ticks + Fraction(e) = Timeout * Ticks
<1> DEFINE q == e \div Ticks
           r == e % Ticks
<1>1. Ticks \in Nat \ {0} /\ Timeout \in Nat
  BY SearchAssumption
<1>2. q \in Nat /\ r \in 0 .. (Ticks - 1) /\ e = Ticks * q + r
  BY <1>1, Division
<1>3. Fraction(e) = Ticks - r
  BY DEF Fraction
<1> HIDE DEF q, r
<1>4. r \in 1 .. (Ticks - 1)
  BY <1>1, <1>2, <1>3
<1>5. Ticks * (q + 1) = Ticks * q + Ticks /\ Ticks * q \in Nat
  BY <1>1, <1>2, SMT
<1>6. e + Ticks - 1 = Ticks * (q + 1) + (r - 1)
  BY <1>1, <1>2, <1>4, <1>5
<1>7. q + 1 \in Nat /\ (r - 1) \in 0 .. (Ticks - 1)
  BY <1>1, <1>2, <1>4
<1>8. (e + Ticks - 1) \div Ticks = q + 1
  BY <1>1, <1>6, <1>7, Quotient
<1>9. Seconds(e) = Timeout - (q + 1)
  BY <1>8 DEF Seconds
<1>10. (Timeout - (q + 1)) * Ticks = Timeout * Ticks - Ticks * q - Ticks /\ Timeout * Ticks \in Nat
  BY <1>1, <1>2, SMT
<1> QED
  BY <1>1, <1>2, <1>3, <1>4, <1>5, <1>9, <1>10

Clock ==
  /\ elapsed \in Nat
  /\ main = "receive" => wake \in Nat
  /\ WindowKept

(* Only SetTimeout sets an end of the wait, and the clock only goes on.    *)
LEMMA StepClock == Clock /\ [Next]_vars => Clock'
<1> SUFFICES ASSUME Clock, [Next]_vars
             PROVE  Clock'
  OBVIOUS
<1> USE DEF Clock, WindowKept
<1>1. ASSUME NEW kind, Request(kind) PROVE Clock'
  BY <1>1 DEF Request
<1>2. CASE SetTimeout
  <2>1. CASE Fraction(elapsed) = Ticks
    BY <1>2, <2>1 DEF SetTimeout
  <2>2. CASE Fraction(elapsed) # Ticks
    <3>1. /\ Fraction(elapsed) # 0
          /\ Seconds(elapsed) \in Int
          /\ elapsed + Seconds(elapsed) * Ticks + Fraction(elapsed) = Timeout * Ticks
      BY <2>2, RestOfWindow
    <3>2. elapsed' = elapsed /\ wake' \in {elapsed, Timeout * Ticks}
      BY <1>2, <2>2, <3>1 DEF SetTimeout
    <3>3. Timeout * Ticks \in Nat
      BY SearchAssumption, SMT
    <3> QED
      BY <3>2, <3>3
  <2> QED
    BY <2>1, <2>2
<1>3. CASE IsTimeout
  BY <1>3 DEF IsTimeout, clock
<1>4. CASE ReceiveTimesOut \/ (\E a \in answers : Receive(a))
  BY <1>4 DEF ReceiveTimesOut, Receive, clock
<1>5. CASE \E f \in Files : Fetch(f)
  BY <1>5 DEF Fetch, clock
<1>6. CASE \E s \in Servers, n \in 1 .. MaxCommands, files \in SUBSET Files : Answer(s, n, files)
  BY <1>6 DEF Answer, clock
<1>7. CASE TimePasses
  <2>1. elapsed' = elapsed + 1 /\ wake' = wake /\ main' = main
    BY <1>7 DEF TimePasses
  <2>2. Timeout * Ticks \in Nat
    BY SearchAssumption, SMT
  <2> QED
    BY <2>1, <2>2
<1>8. CASE UNCHANGED vars
  BY <1>8 DEF vars, clock
<1> QED
  BY <1>1, <1>2, <1>3, <1>4, <1>5, <1>6, <1>7, <1>8 DEF Next, LoopStep, SearchFiles, Discover

(* No receive of a window is set to last longer than the window, or for    *)
(* ever, whatever the timeout and however fine the clock.                  *)
THEOREM WindowsKept == Spec => []WindowKept
<1>1. Init => Clock
  BY DEF Init, Clock, WindowKept
<1>2. Clock => WindowKept
  BY DEF Clock
<1> QED
  BY <1>1, <1>2, StepClock, PTL DEF Spec
=============================================================================
