------------------------------- MODULE Search -------------------------------
(***************************************************************************)
(* The client's main thread: the commands search, discover and fetch, and  *)
(* the window of some seconds in which it takes the answers to the first   *)
(* two. Both use the same socket, one command after the other, so that     *)
(* answers to an earlier command are still in it, or come, when a later    *)
(* one waits. A fetch goes to the server that the last search named.       *)
(*                                                                         *)
(* Time is counted in ticks, so many to a second as the code has           *)
(* microseconds. The time between setting the socket's timeout and         *)
(* receiving is taken as 0: it adds to the wait.                           *)
(***************************************************************************)
EXTENDS Integers, FiniteSets, Functions

CONSTANTS
  Servers,
  Files,
  Timeout,       \* seconds
  Ticks,         \* in a second
  MaxCommands,   \* (bound) commands that are sent
  MaxAnswers,    \* (bound) different datagrams in the socket or under way
  MaxElapsed     \* (bound) ticks that a command is followed

ASSUME SearchAssumption ==
  /\ Timeout \in Nat
  /\ Ticks \in Nat \ {0}
  /\ MaxCommands \in Nat
  /\ MaxAnswers \in Nat
  /\ MaxElapsed \in Nat /\ MaxElapsed > Timeout * Ticks

Commands == {"search", "discover"}

VARIABLES
  main,                  \* idle, check, set, receive
  message_seq,           \* of the last command
  command,               \* what each number was sent for
  sent,                  \* the numbers whose request has gone out
  elapsed,               \* ticks since start_time
  wake,                  \* when recvfrom gives up
  last_search_results,   \* a server for each file
  answers,               \* datagrams, which may come any number of times
  fetched                \* history: the fetches started, with the command they come after

requests == <<message_seq, command, sent>>
clock    == <<elapsed, wake>>
vars     == <<main, requests, clock, last_search_results, answers, fetched>>

NoResults == [f \in {} |-> {}]
Forever  == MaxElapsed + 1

Init ==
  /\ main = "idle"
  /\ message_seq = 0
  /\ command = [n \in 1 .. MaxCommands |-> "none"]
  /\ sent = {}
  /\ elapsed = 0 /\ wake = 0
  /\ last_search_results = NoResults
  /\ answers = {}
  /\ fetched = {}
-----------------------------------------------------------------------------
(***************************************************************************)
(* The commands. A request that cannot be sent ends the command.           *)
(***************************************************************************)
Request(kind) ==
  /\ main = "idle"
  /\ message_seq < MaxCommands
  /\ message_seq' = message_seq + 1
  /\ command' = [command EXCEPT ![message_seq'] = kind]
  /\ elapsed' = 0 /\ wake' = 0
  /\ \/ main' = "check" /\ sent' = sent \cup {message_seq'}
     \/ UNCHANGED <<main, sent>>
  /\ UNCHANGED <<answers, fetched>>

SearchFiles ==
  /\ Request("search")
  /\ last_search_results' = NoResults

Discover ==
  /\ Request("discover")
  /\ UNCHANGED last_search_results

(* The thread gets a copy of the address.                                  *)
Fetch(f) ==
  /\ main = "idle"
  /\ f \in DOMAIN last_search_results
  /\ fetched' = fetched \cup {[file |-> f, server |-> last_search_results[f], after |-> message_seq]}
  /\ UNCHANGED <<main, requests, clock, last_search_results, answers>>
-----------------------------------------------------------------------------
(***************************************************************************)
(* The window: is_timeout, get_elapsed_time_timeval, setsockopt, recvfrom. *)
(***************************************************************************)
IsTimeout ==
  /\ main = "check"
  /\ main' = IF elapsed >= Timeout * Ticks THEN "idle" ELSE "set"
  /\ UNCHANGED <<requests, clock, last_search_results, answers, fetched>>

WithoutCeil(e) == Timeout - (e \div Ticks)           \* mutant: ceil forgotten
Seconds(e)     == Timeout - ((e + Ticks - 1) \div Ticks)
OneTickLess(e) == (Ticks - 1) - (e % Ticks)          \* mutant: off by one, and so 0 once
Fraction(e)    == Ticks - (e % Ticks)

(* setsockopt refuses a fraction that is a second, and the loop goes on. A *)
(* negative time is none, and no time at all is no limit.                  *)
SetTimeout ==
  /\ main = "set"
  /\ IF Fraction(elapsed) = Ticks
     THEN main' = "check" /\ UNCHANGED wake
     ELSE /\ main' = "receive"
          /\ wake' = IF Seconds(elapsed) < 0 THEN elapsed
                     ELSE IF Seconds(elapsed) = 0 /\ Fraction(elapsed) = 0 THEN Forever
                     ELSE elapsed + Seconds(elapsed) * Ticks + Fraction(elapsed)
  /\ UNCHANGED <<requests, elapsed, last_search_results, answers, fetched>>

ReceiveTimesOut ==
  /\ main = "receive"
  /\ elapsed >= wake
  /\ main' = "check"
  /\ UNCHANGED <<requests, clock, last_search_results, answers, fetched>>

(* message_validation, with the command and number that are waited for.    *)
AnyNumber(a) == a.kind = command[message_seq]    \* mutant: the number is not compared
Expected(a)  == a.kind = command[message_seq] /\ a.message_seq = message_seq

(* A file that several servers list is left with the last.                 *)
UpdateSearchResults(a) ==
  [f \in DOMAIN last_search_results \cup a.files |->
     IF f \in a.files THEN a.server ELSE last_search_results[f]]

Receive(a) ==
  /\ main = "receive"
  /\ main' = "check"
  /\ last_search_results' = IF Expected(a) /\ a.kind = "search" THEN UpdateSearchResults(a)
                                                                 ELSE last_search_results
  /\ UNCHANGED <<requests, clock, answers, fetched>>
-----------------------------------------------------------------------------
(* A server answers a request, in one datagram or several, whatever it has *)
(* at the time; none, if it has nothing that fits.                         *)
Answer(s, n, files) ==
  /\ Cardinality(answers) < MaxAnswers
  /\ n \in sent
  /\ (command[n] = "search") = (files # {})
  /\ answers' = answers \cup {[kind |-> command[n], message_seq |-> n, server |-> s, files |-> files]}
  /\ UNCHANGED <<main, requests, clock, last_search_results, fetched>>

TimePasses ==
  /\ main # "idle"
  /\ elapsed < MaxElapsed
  /\ elapsed' = elapsed + 1
  /\ UNCHANGED <<main, requests, wake, last_search_results, answers, fetched>>

LoopStep ==
  \/ IsTimeout
  \/ SetTimeout
  \/ ReceiveTimesOut
  \/ \E a \in answers : Receive(a)

Next ==
  \/ SearchFiles
  \/ Discover
  \/ \E f \in Files : Fetch(f)
  \/ LoopStep
  \/ \E s \in Servers, n \in 1 .. MaxCommands, files \in SUBSET Files : Answer(s, n, files)
  \/ TimePasses

Spec == Init /\ [][Next]_vars

(* The main thread is scheduled and the clock runs; no answer need come.   *)
FairSpec == Spec /\ WF_vars(LoopStep) /\ WF_vars(TimePasses)
-----------------------------------------------------------------------------
TypeOK ==
  /\ main \in {"idle", "check", "set", "receive"}
  /\ message_seq \in 0 .. MaxCommands
  /\ command \in [1 .. MaxCommands -> Commands \cup {"none"}]
  /\ sent \subseteq 1 .. MaxCommands
  /\ elapsed \in 0 .. MaxElapsed
  /\ wake \in 0 .. Forever
  /\ IsFiniteSet(answers)
  /\ \A a \in answers : a \in [kind : Commands, message_seq : 1 .. MaxCommands, server : Servers, files : SUBSET Files]
  /\ DOMAIN last_search_results \subseteq Files
  /\ Range(last_search_results) \subseteq Servers
  /\ \A r \in fetched : r \in [file : Files, server : Servers, after : 0 .. MaxCommands]

(* The number of the last search before command n, or of n itself.         *)
IsLastSearch(k, n) ==
  /\ k \in 1 .. n
  /\ command[k] = "search"
  /\ \A m \in (k + 1) .. n : command[m] # "search"

(* A fetch goes to a server that has named the file in its answer to the   *)
(* user's last search: not to one that answered an earlier search late, nor*)
(* to one from before that search, whatever answers are repeated, delayed  *)
(* or overtaken in between and whatever discoveries came after it.         *)
FetchFromLister ==
  \A r \in fetched : \E a \in answers :
    /\ IsLastSearch(a.message_seq, r.after)
    /\ a.server = r.server
    /\ r.file \in a.files

(* The client never blocks beyond the end of its window, and so not        *)
(* without limit: rounding never makes a timeout longer than the rest, nor *)
(* 0, which would mean none.                                               *)
WindowKept == main = "receive" => wake <= Timeout * Ticks \/ wake <= elapsed

(* Search and discover come to an end, whether no answers come or more than*)
(* can be read, although the loop spins while the fraction is a whole      *)
(* second.                                                                 *)
CommandEnds == main # "idle" ~> main = "idle"
=============================================================================
