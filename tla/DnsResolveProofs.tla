-------------------------- MODULE DnsResolveProofs --------------------------
(***************************************************************************)
(* Proofs of the safety properties of DnsResolve, for any number of names, *)
(* hosts, stray datagrams and signals.                                     *)
(***************************************************************************)
EXTENDS DnsResolve, SequenceTheorems, TLAPS

\* The socket of the lookup, if there is one, is the only one open; the inbox is
\* that of its socket, and empty between two lookups.
SocketInv ==
  /\ pc \in {"main", "end"} => open = {} /\ inbox = <<>>
  /\ pc \in {"select", "send", "receive"} => open = {arg} /\ arg \in 1..Domains
  /\ pc = "exception" => open \subseteq {arg} /\ arg \in 1..Domains
  /\ \A i \in DOMAIN inbox : inbox[i].for = arg

\* A lookup that is still to ask has not asked, nor has any after it.
QueryInv ==
  /\ OneQueryEach
  /\ \A i \in DOMAIN queries : queries[i][1] <= arg
  /\ pc \in {"select", "send", "receive"} /\ pending =>
       \A i \in DOMAIN queries : queries[i][1] # arg

\* Nothing but the resolver is anywhere as long as no stray datagram came.
ResolverInv ==
  strays = 0 =>
    /\ remote = resolver
    /\ \A q \in flight : q[2] = resolver
    /\ \A i \in DOMAIN inbox : inbox[i].from = resolver

Inv == TypeOK /\ SocketInv /\ QueryInv /\ ResultsMatch /\ ResolverInv /\ ResolverAsked

-----------------------------------------------------------------------------
(* Sequences *)

\* A sequence with one more element.
LEMMA Appended ==
  ASSUME NEW S, NEW s \in Seq(S), NEW e \in S
  PROVE  /\ Append(s, e) \in Seq(S)
         /\ Len(Append(s, e)) = Len(s) + 1
         /\ DOMAIN Append(s, e) = DOMAIN s \cup {Len(s) + 1}
         /\ Append(s, e)[Len(s) + 1] = e
         /\ \A i \in DOMAIN s : Append(s, e)[i] = s[i] /\ i <= Len(s)
<1>1. Len(s) \in Nat /\ DOMAIN s = 1..Len(s)
  OBVIOUS
<1>2. Append(s, e) \in Seq(S) /\ Len(Append(s, e)) = Len(s) + 1
  OBVIOUS
<1>3. 1..(Len(s) + 1) = 1..Len(s) \cup {Len(s) + 1}
  BY <1>1
<1> QED BY <1>1, <1>2, <1>3

\* A sequence without its first.
LEMMA Headless ==
  ASSUME NEW S, NEW s \in Seq(S), s # <<>>
  PROVE  /\ Head(s) \in S
         /\ Tail(s) \in Seq(S)
         /\ 1 \in DOMAIN s /\ Head(s) = s[1]
         /\ \A i \in DOMAIN Tail(s) : i + 1 \in DOMAIN s /\ Tail(s)[i] = s[i + 1]
<1>1. Len(s) \in Nat \ {0} /\ DOMAIN s = 1..Len(s)
  BY EmptySeq, LenProperties
<1> QED BY <1>1, HeadTailProperties

-----------------------------------------------------------------------------
(* The program *)

\* select() leaves sets of the socket.
LEMMA SelectSets ==
  ASSUME rfds \subseteq {sock}, wfds \subseteq {sock}, Select
  PROVE  rfds' \subseteq {sock} /\ wfds' \subseteq {sock}
BY DEF Select, select, FD_SET, FD_CLR, FD_ZERO, Bit, NaN, sock

LEMMA InterruptCounts ==
  ASSUME interrupts \in 0..MaxInterrupts, Interrupted \/ Uninterrupted
  PROVE  interrupts' \in 0..MaxInterrupts
BY DnsAssumption DEF Interrupted, Uninterrupted

\* A step that only goes on within a lookup, or to its select() again.
LEMMA GoesOn ==
  ASSUME Inv, pc \in {"select", "send", "receive"}, pc' \in {"select", "send", "receive"},
         rfds' \subseteq {sock}, wfds' \subseteq {sock},
         interrupts' \in 0..MaxInterrupts, failed' \in BOOLEAN,
         UNCHANGED <<arg, open, pending, remote, results, queries, flight, inbox, lost, strays,
                     repeats>>
  PROVE  Inv'
BY DEF Inv, TypeOK, SocketInv, QueryInv, OneQueryEach, ResultsMatch, ResolverInv, ResolverAsked,
       Running

LEMMA LookupStep ==
  ASSUME Inv, Lookup
  PROVE  Inv'
<1>1. /\ arg \in Nat /\ Domains \in Nat /\ arg' = arg + 1 /\ arg' \in 1..Domains
      /\ pc = "main" /\ pc' = "select"
  BY DnsAssumption DEF Lookup, Inv, TypeOK
<1>2. open' = {arg'} /\ inbox' = <<>>
  BY DEF Lookup, Inv, SocketInv
<1>3. TypeOK'
  BY <1>1, <1>2, DnsAssumption DEF Lookup, Inv, TypeOK, Running, network, signals
<1>4. SocketInv'
  BY <1>1, <1>2 DEF SocketInv
<1>5. \A i \in DOMAIN queries : queries[i][1] \in Nat /\ queries[i][1] <= arg
  BY DEF Inv, TypeOK, QueryInv
<1>6. QueryInv'
  BY <1>1, <1>5 DEF Lookup, Inv, QueryInv, OneQueryEach
<1>7. ResultsMatch'
  BY <1>1 DEF Lookup, Inv, ResultsMatch
<1>8. ResolverInv' /\ ResolverAsked'
  BY <1>2 DEF Lookup, Inv, ResolverInv, ResolverAsked
<1> QED BY <1>3, <1>4, <1>6, <1>7, <1>8 DEF Inv

LEMMA ThrowsStep ==
  ASSUME Inv, LookupThrows
  PROVE  Inv'
<1>1. /\ arg \in Nat /\ Domains \in Nat /\ arg' = arg + 1 /\ arg' \in 1..Domains
      /\ pc = "main" /\ pc' = "exception" /\ open = {} /\ inbox = <<>>
      /\ open' \subseteq {arg'}
  BY DnsAssumption DEF LookupThrows, Inv, TypeOK, SocketInv
<1>2. UNCHANGED <<pending, rfds, wfds, remote, results, queries, flight, inbox, lost, strays,
                  repeats, interrupts, failed>>
  BY DEF LookupThrows, network, signals
<1>3. TypeOK'
  BY <1>1, <1>2 DEF Inv, TypeOK
<1>4. SocketInv'
  BY <1>1, <1>2 DEF SocketInv
<1>5. \A i \in DOMAIN queries : queries[i][1] \in Nat /\ queries[i][1] <= arg
  BY DEF Inv, TypeOK, QueryInv
<1>6. QueryInv'
  BY <1>1, <1>2, <1>5 DEF Inv, QueryInv, OneQueryEach
<1>7. ResultsMatch' /\ ResolverInv' /\ ResolverAsked'
  BY <1>1, <1>2 DEF Inv, ResultsMatch, ResolverInv, ResolverAsked
<1> QED BY <1>3, <1>4, <1>6, <1>7 DEF Inv

LEMMA FinishedStep ==
  ASSUME Inv, Finished
  PROVE  Inv'
BY DEF Finished, network, signals, Inv, TypeOK, SocketInv, QueryInv, OneQueryEach, ResultsMatch,
       ResolverInv, ResolverAsked

\* The query goes out: the first and last of its lookup, to remote.
LEMMA SendToStep ==
  ASSUME Inv, SendTo
  PROVE  Inv'
<1>1. /\ pc = "send" /\ pending /\ pc' = "receive" /\ pending' = FALSE
      /\ queries' = Append(queries, <<arg, remote>>)
      /\ flight' = flight \cup {<<arg, remote>>}
      /\ UNCHANGED <<arg, open, rfds, wfds, remote, results, inbox, lost, strays, repeats,
                     interrupts, failed>>
  BY DEF SendTo, signals
<1>2. arg \in 1..Domains /\ <<arg, remote>> \in (1..Domains) \X Hosts
  BY <1>1 DEF Inv, TypeOK, SocketInv
<1>3. queries \in Seq((1..Domains) \X Hosts)
  BY DEF Inv, TypeOK
<1>4. TypeOK'
  BY <1>1, <1>2, <1>3, Appended DEF Inv, TypeOK, Running
<1>5. SocketInv'
  BY <1>1 DEF Inv, SocketInv
<1> DEFINE n == Len(queries) + 1
<1>6. /\ DOMAIN queries' = DOMAIN queries \cup {n}
      /\ queries'[n] = <<arg, remote>>
      /\ \A i \in DOMAIN queries : queries'[i] = queries[i]
  BY <1>1, <1>2, <1>3, Appended
<1> HIDE DEF n
<1>7. \A i \in DOMAIN queries : queries[i][1] # arg /\ queries[i][1] <= arg
  BY <1>1 DEF Inv, QueryInv
<1>8. QueryInv'
  BY <1>1, <1>2, <1>6, <1>7 DEF Inv, QueryInv, OneQueryEach
<1>9. ResultsMatch'
  BY <1>1 DEF Inv, ResultsMatch
<1>10. ResolverInv' /\ ResolverAsked'
  BY <1>1, <1>6 DEF Inv, ResolverInv, ResolverAsked
<1> QED BY <1>4, <1>5, <1>8, <1>9, <1>10 DEF Inv

\* The datagram that recvfrom() returns is the first of the inbox.
LEMMA Received ==
  ASSUME Inv, Receives(Head(inbox))
  PROVE  /\ pc = "receive" /\ inbox # <<>> /\ inbox \in Seq(Datagram)
         /\ Head(inbox) \in Datagram /\ remote' = Head(inbox).from /\ remote' \in Hosts
         /\ Head(inbox).for = arg
         /\ strays = 0 => Head(inbox).from = resolver
<1>1. pc = "receive" /\ inbox # <<>> /\ inbox \in Seq(Datagram) /\ remote' = Head(inbox).from
  BY DEF Receives, Inv, TypeOK
<1>2. Head(inbox) \in Datagram /\ 1 \in DOMAIN inbox /\ Head(inbox) = inbox[1]
  BY <1>1, Headless
<1> QED BY <1>1, <1>2 DEF Datagram, Inv, SocketInv, ResolverInv

LEMMA AnswerStep ==
  ASSUME Inv, Answer
  PROVE  Inv'
<1>1. /\ Receives(Head(inbox)) /\ open' = open \ {arg} /\ inbox' = <<>> /\ pc' = "main"
      /\ results' = Append(results, Head(inbox))
      /\ UNCHANGED <<arg, pending, rfds, wfds, queries, flight, lost, strays, repeats,
                     interrupts, failed>>
  BY DEF Answer, signals
<1>2. /\ pc = "receive" /\ open = {arg} /\ arg \in 1..Domains /\ open' = {}
      /\ Head(inbox) \in Datagram /\ Head(inbox).for = arg /\ remote' = Head(inbox).from
      /\ remote' \in Hosts
      /\ strays = 0 => Head(inbox).from = resolver
  BY <1>1, Received DEF Inv, SocketInv
<1>3. results \in Seq(Datagram) /\ Len(results) = arg - 1
  BY <1>2 DEF Inv, TypeOK, ResultsMatch
<1>4. /\ results' \in Seq(Datagram)
      /\ Len(results') = arg /\ DOMAIN results' = DOMAIN results \cup {arg}
      /\ results'[arg] = Head(inbox)
      /\ \A i \in DOMAIN results : results'[i] = results[i]
  <2>1. Len(results) + 1 = arg
    BY <1>2, <1>3
  <2> QED BY <1>1, <1>2, <1>3, <2>1, Appended
<1>5. TypeOK'
  BY <1>1, <1>2, <1>4 DEF Inv, TypeOK, Running
<1>6. SocketInv'
  BY <1>1, <1>2 DEF SocketInv
<1>7. QueryInv'
  BY <1>1 DEF Inv, QueryInv, OneQueryEach
<1>8. ResultsMatch'
  BY <1>1, <1>2, <1>4 DEF Inv, ResultsMatch
<1>9. ResolverInv' /\ ResolverAsked'
  BY <1>1, <1>2, <1>4 DEF Inv, ResolverInv, ResolverAsked
<1> QED BY <1>5, <1>6, <1>7, <1>8, <1>9 DEF Inv

LEMMA EmptyStep ==
  ASSUME Inv, EmptyDatagram
  PROVE  Inv'
<1>1. /\ Receives(Head(inbox)) /\ inbox' = Tail(inbox) /\ pc' = "select"
      /\ UNCHANGED <<arg, open, pending, rfds, wfds, results, queries, flight, lost, strays,
                     repeats, interrupts, failed>>
  BY DEF EmptyDatagram, signals
<1>2. /\ pc = "receive" /\ inbox # <<>> /\ inbox \in Seq(Datagram) /\ remote' \in Hosts
      /\ remote' = Head(inbox).from /\ (strays = 0 => Head(inbox).from = resolver)
  BY <1>1, Received
<1>3. /\ inbox' \in Seq(Datagram)
      /\ \A i \in DOMAIN inbox' : i + 1 \in DOMAIN inbox /\ inbox'[i] = inbox[i + 1]
  BY <1>1, <1>2, Headless
<1>4. TypeOK'
  BY <1>1, <1>2, <1>3 DEF Inv, TypeOK, Running
<1>5. SocketInv'
  BY <1>1, <1>2, <1>3 DEF Inv, SocketInv
<1>6. QueryInv' /\ ResultsMatch'
  BY <1>1, <1>2 DEF Inv, QueryInv, OneQueryEach, ResultsMatch
<1>7. ResolverInv' /\ ResolverAsked'
  BY <1>1, <1>2, <1>3 DEF Inv, ResolverInv, ResolverAsked
<1> QED BY <1>4, <1>5, <1>6, <1>7 DEF Inv

-----------------------------------------------------------------------------
(* The network *)

\* A datagram that arrives is for the lookup that is running.
LEMMA ArrivesKeeps ==
  ASSUME Inv, NEW k \in 1..Domains, NEW h \in Hosts, NEW e \in BOOLEAN, Arrives(k, h, e),
         UNCHANGED <<loop, queries, signals, lost>>, flight' \subseteq flight,
         strays' \in strays..MaxStray, repeats' \in 0..MaxRepeats, strays' = 0 => h = resolver
  PROVE  Inv'
<1> DEFINE d == [from |-> h, empty |-> e, for |-> k]
<1>1. /\ UNCHANGED <<pc, arg, open, pending, rfds, wfds, remote, results, queries, lost,
                     interrupts, failed>>
      /\ strays \in Nat /\ strays' \in 0..MaxStray /\ (strays' = 0 => strays = 0)
  BY DnsAssumption DEF loop, signals, Inv, TypeOK
<1>2. d \in Datagram /\ inbox \in Seq(Datagram)
  BY DEF Datagram, Inv, TypeOK
<1>3. IF pc \in Running /\ k \in open THEN inbox' = Append(inbox, d) ELSE inbox' = inbox
  BY Zenon DEF Arrives
<1>4. pc \in Running /\ k \in open => pc \in {"select", "send", "receive"} /\ k = arg
  BY DEF Inv, SocketInv, Running
<1>5. /\ inbox' \in Seq(Datagram)
      /\ \A i \in DOMAIN inbox' : \/ i \in DOMAIN inbox /\ inbox'[i] = inbox[i]
                                  \/ inbox'[i] = d /\ k = arg
      /\ pc \in {"main", "end"} => inbox' = inbox
  <2> HIDE DEF d
  <2>1. CASE pc \in Running /\ k \in open
    <3>1. inbox' = Append(inbox, d)
      BY <1>3, <2>1
    <3>2. k = arg /\ pc \notin {"main", "end"}
      BY <1>4, <2>1
    <3> QED BY <1>2, <3>1, <3>2, Appended
  <2>2. CASE ~(pc \in Running /\ k \in open)
    <3>1. inbox' = inbox
      BY <1>3, <2>2
    <3>2. \A i \in DOMAIN inbox' : i \in DOMAIN inbox /\ inbox'[i] = inbox[i]
      BY ONLY <3>1
    <3> QED BY <1>2, <3>1, <3>2
  <2> QED BY <2>1, <2>2
<1> HIDE DEF d
<1>6. TypeOK'
  BY <1>1, <1>5 DEF Inv, TypeOK
<1>7. SocketInv'
  BY <1>1, <1>5 DEF Inv, SocketInv, d
<1>8. QueryInv' /\ ResultsMatch'
  BY <1>1 DEF Inv, QueryInv, OneQueryEach, ResultsMatch
<1>9. ResolverInv' /\ ResolverAsked'
  BY <1>1, <1>5 DEF Inv, ResolverInv, ResolverAsked, d
<1> QED BY <1>6, <1>7, <1>8, <1>9 DEF Inv

LEMMA NetworkStep ==
  ASSUME Inv, Network(Reply) \/ Network(Lose) \/ Network(Stray)
  PROVE  Inv'
<1>1. /\ flight \subseteq (1..Domains) \X Hosts /\ strays \in 0..MaxStray /\ MaxStray \in Nat
      /\ repeats \in 0..MaxRepeats /\ MaxRepeats \in Nat
  BY DnsAssumption DEF Inv, TypeOK
<1>2. UNCHANGED <<loop, queries, signals>>
  BY DEF Network
<1>3. CASE Network(Reply)
  <2>1. PICK q \in flight :
          /\ Arrives(q[1], q[2], FALSE)
          /\ \/ flight' = flight \ {q} /\ UNCHANGED repeats
             \/ repeats < MaxRepeats /\ repeats' = repeats + 1 /\ UNCHANGED flight
          /\ UNCHANGED <<lost, strays>>
    BY <1>3 DEF Network, Reply
  <2>2. q[1] \in 1..Domains /\ q[2] \in Hosts
    BY <1>1, <2>1
  <2>3. strays' \in strays..MaxStray /\ repeats' \in 0..MaxRepeats /\ flight' \subseteq flight
        /\ (strays' = 0 => q[2] = resolver)
    BY <1>1, <2>1 DEF Inv, ResolverInv
  <2> QED BY <1>2, <2>1, <2>2, <2>3, ArrivesKeeps
<1>4. CASE Network(Lose)
  <2>1. PICK q \in flight : flight' = flight \ {q} /\ lost' = lost \cup {q[1]}
                            /\ UNCHANGED <<inbox, strays, repeats>>
    BY <1>4 DEF Network, Lose
  <2>2. q[1] \in 1..Domains
    BY <1>1, <2>1
  <2> QED BY <1>2, <2>1, <2>2 DEF loop, signals, Inv, TypeOK, SocketInv, QueryInv, OneQueryEach,
             ResultsMatch, ResolverInv, ResolverAsked
<1>5. CASE Network(Stray)
  <2>1. /\ strays < MaxStray /\ strays' = strays + 1 /\ open # {}
        /\ UNCHANGED <<flight, lost, repeats>>
        /\ \E h \in Hosts, empty \in BOOLEAN : Arrives(arg, h, empty)
    BY <1>5 DEF Network, Stray
  <2>2. arg \in 1..Domains
    BY <2>1 DEF Inv, TypeOK, SocketInv, Running
  <2>3. strays' \in strays..MaxStray /\ strays' # 0 /\ repeats' \in 0..MaxRepeats
    BY <1>1, <2>1
  <2> QED BY <1>2, <2>1, <2>2, <2>3, ArrivesKeeps
<1> QED BY <1>3, <1>4, <1>5

-----------------------------------------------------------------------------
(* The invariant *)

LEMMA InitInv == Init => Inv
<1> SUFFICES ASSUME Init PROVE Inv
  OBVIOUS
<1>1. TypeOK
  <2>1. results \in Seq(Datagram) /\ inbox \in Seq(Datagram)
        /\ queries \in Seq((1..Domains) \X Hosts)
    BY DEF Init
  <2>2. pc \in Running \cup {"end", "exception"} /\ remote \in Hosts /\ pending \in BOOLEAN
    BY DnsAssumption DEF Init, Running
  <2>3. arg \in 0..Domains /\ strays \in 0..MaxStray /\ repeats \in 0..MaxRepeats /\ interrupts \in 0..MaxInterrupts
    BY DnsAssumption DEF Init
  <2>4. /\ open \subseteq 1..Domains /\ lost \subseteq 1..Domains
        /\ rfds \subseteq {sock} /\ wfds \subseteq {sock}
        /\ flight \subseteq (1..Domains) \X Hosts
    BY DEF Init
  <2>5. failed \in BOOLEAN
    BY DEF Init
  <2> QED BY <2>1, <2>2, <2>3, <2>4, <2>5 DEF TypeOK
<1>2. SocketInv
  BY DEF Init, SocketInv
<1>3. QueryInv
  BY DEF Init, QueryInv, OneQueryEach
<1>4. ResultsMatch
  BY DEF Init, ResultsMatch
<1>5. ResolverInv /\ ResolverAsked
  BY DEF Init, ResolverInv, ResolverAsked
<1> QED BY <1>1, <1>2, <1>3, <1>4, <1>5 DEF Inv

LEMMA NextInv == Inv /\ [Next]_vars => Inv'
<1> SUFFICES ASSUME Inv, [Next]_vars PROVE Inv'
  OBVIOUS
<1>1. CASE UNCHANGED vars
  BY <1>1 DEF vars, loop, network, signals, Inv, TypeOK, SocketInv, QueryInv, OneQueryEach,
              ResultsMatch, ResolverInv, ResolverAsked
<1>2. /\ rfds \subseteq {sock} /\ wfds \subseteq {sock} /\ failed \in BOOLEAN
      /\ interrupts \in 0..MaxInterrupts
  BY DEF Inv, TypeOK
<1>3. CASE Select
  <2>1. pc = "select" /\ pc' = "send" /\ (Interrupted \/ Uninterrupted)
        /\ UNCHANGED <<arg, open, pending, remote, results, queries, network, failed>>
    BY <1>3 DEF Select
  <2> QED BY <1>2, <1>3, <2>1, SelectSets, InterruptCounts, GoesOn DEF network
<1>4. CASE SendToFails
  <2>1. failed' \in BOOLEAN
    BY <1>4 DEF SendToFails
  <2> QED BY <1>2, <1>4, <2>1, GoesOn DEF SendToFails, network
<1>5. CASE NothingToSend \/ NothingReceived
  BY <1>2, <1>5, GoesOn DEF NothingToSend, NothingReceived, network, signals
<1> QED BY <1>1, <1>3, <1>4, <1>5, LookupStep, ThrowsStep, FinishedStep, SendToStep, AnswerStep,
           EmptyStep, NetworkStep DEF Next, Program

LEMMA SpecInv == Spec => []Inv
BY InitInv, NextInv, PTL DEF Spec

-----------------------------------------------------------------------------
(* Theorems *)

\* The state has its types in every reachable state.
THEOREM TypeCorrect == Spec => []TypeOK
BY SpecInv, PTL DEF Inv

\* No lookup sends two queries.
THEOREM NothingAskedTwice == Spec => []OneQueryEach
BY SpecInv, PTL DEF Inv, QueryInv

\* Each result is from a datagram to the socket of its own lookup, in order.
THEOREM ResultsInOrder == Spec => []ResultsMatch
BY SpecInv, PTL DEF Inv

\* No lookup leaves its socket open.
THEOREM NoSocketLeft == Spec => []SocketsClosed
<1>1. Inv => SocketsClosed
  BY DEF Inv, TypeOK, SocketInv, SocketsClosed, Running
<1> QED BY <1>1, SpecInv, PTL

\* Without strays, the resolver alone is asked and answers.
THEOREM OnlyResolver == Spec => []ResolverAsked
BY SpecInv, PTL DEF Inv

-----------------------------------------------------------------------------
(* Lookups *)

Active == {"select", "send", "receive"}

\* A lookup that is still to ask has no query in the network, and without strays
\* no datagram has come for it.
AskedInv ==
  /\ \A q \in flight : q[1] <= arg
  /\ pc \in Active /\ pending =>
       /\ \A q \in flight : q[1] # arg
       /\ strays = 0 => inbox = <<>>

\* The state of Lookups.
Status ==
  CASE pc = "main" -> "idle" [] pc = "end" -> "ended" [] pc = "exception" -> "failed"
    [] OTHER -> IF pending THEN "open" ELSE "asked"
Answers == [i \in DOMAIN results |-> results[i].from]

LEMMA InitAsked == Init => AskedInv
BY DEF Init, AskedInv, Active

\* A reply to a query that another lookup has sent comes to nobody; one to the query
\* of this lookup comes after the query.
LEMMA ReplyAsked ==
  ASSUME Inv, AskedInv, Network(Reply)
  PROVE  AskedInv'
<1>1. PICK q \in flight : Arrives(q[1], q[2], FALSE) /\ flight' \subseteq flight
                          /\ UNCHANGED strays
  BY DEF Network, Reply
<1>2. UNCHANGED <<pc, arg, open, pending>>
  BY DEF Network, loop
<1>3. pc \in Active /\ pending => inbox' = inbox
  <2> SUFFICES ASSUME pc \in Active, pending PROVE q[1] \notin open
    BY <1>1 DEF Arrives
  <2> QED BY DEF Inv, SocketInv, AskedInv, Active
<1> QED BY <1>1, <1>2, <1>3 DEF AskedInv

LEMMA NextAsked ==
  ASSUME Inv, AskedInv, [Next]_vars
  PROVE  AskedInv'
<1>1. CASE Lookup
  <2>1. arg' = arg + 1 /\ arg \in Nat /\ UNCHANGED flight /\ inbox' = <<>>
    BY <1>1, DnsAssumption DEF Lookup, Inv, TypeOK
  <2>2. \A q \in flight : q[1] \in Nat /\ q[1] <= arg
    BY DEF Inv, TypeOK, AskedInv
  <2> QED BY <2>1, <2>2 DEF AskedInv
<1>2. CASE LookupThrows
  <2>1. arg' = arg + 1 /\ arg \in Nat /\ UNCHANGED flight /\ pc' = "exception"
    BY <1>2, DnsAssumption DEF LookupThrows, network, Inv, TypeOK
  <2>2. \A q \in flight : q[1] \in Nat /\ q[1] <= arg
    BY DEF Inv, TypeOK, AskedInv
  <2> QED BY <2>1, <2>2 DEF AskedInv, Active
<1>3. CASE SendTo
  <2>1. arg \in Nat /\ UNCHANGED arg /\ pending' = FALSE
        /\ flight' = flight \cup {<<arg, remote>>}
    BY <1>3, DnsAssumption DEF SendTo, Inv, TypeOK
  <2> QED BY <2>1 DEF AskedInv
<1>4. CASE EmptyDatagram
  <2>1. inbox # <<>> /\ pc = "receive" /\ UNCHANGED <<arg, pending, flight, strays>>
    BY <1>4 DEF EmptyDatagram, Receives
  <2> QED BY <2>1 DEF AskedInv, Active
<1>5. CASE Finished \/ Answer
  BY <1>5 DEF Finished, Answer, network, AskedInv, Active
<1>6. CASE Select \/ SendToFails \/ NothingToSend \/ NothingReceived
  <2>1. pc \in Active /\ UNCHANGED <<arg, pending, flight, inbox, strays>>
    BY <1>6 DEF Select, SendToFails, NothingToSend, NothingReceived, network, Active
  <2> QED BY <2>1 DEF AskedInv
<1>7. CASE Network(Lose)
  BY <1>7 DEF Network, Lose, loop, AskedInv
<1>8. CASE Network(Stray)
  <2>1. strays' # 0 /\ UNCHANGED <<pc, arg, pending, flight>>
    BY <1>8, DnsAssumption DEF Network, Stray, loop, Inv, TypeOK
  <2> QED BY <2>1 DEF AskedInv
<1>9. CASE UNCHANGED vars
  BY <1>9 DEF vars, loop, network, AskedInv
<1> QED BY <1>1, <1>2, <1>3, <1>4, <1>5, <1>6, <1>7, <1>8, <1>9, ReplyAsked DEF Next, Program

LEMMA SpecAsked == Spec => [](Inv /\ AskedInv)
<1>1. Init => Inv /\ AskedInv
  BY InitInv, InitAsked
<1>2. Inv /\ AskedInv /\ [Next]_vars => (Inv /\ AskedInv)'
  BY NextInv, NextAsked
<1> QED BY <1>1, <1>2, PTL DEF Spec

\* What Lookups sees of each block of the loop.
LEMMA StatusIs ==
  /\ pc = "main" => Status = "idle"
  /\ pc = "end" => Status = "ended"
  /\ pc = "exception" => Status = "failed"
  /\ pc \in Active => Status = IF pending THEN "open" ELSE "asked"
BY DEF Status, Active

\* A step that goes on within a lookup is none of Lookups.
Stutters == UNCHANGED <<arg, Status, queries, Answers>> /\ (strays > 0)' = (strays > 0)

LEMMA LoopStutters ==
  ASSUME Select \/ SendToFails \/ NothingToSend \/ EmptyDatagram \/ NothingReceived
  PROVE  Stutters
<1>1. pc \in Active /\ pc' \in Active /\ UNCHANGED <<arg, pending, queries, results, strays>>
  BY DEF Select, SendToFails, NothingToSend, EmptyDatagram, NothingReceived, Receives, network,
         Active
<1>2. UNCHANGED Status
  BY <1>1 DEF Status, Active
<1> QED BY <1>1, <1>2 DEF Stutters, Answers

LEMMA LookupStarts ==
  ASSUME Inv, Lookup
  PROVE  Asking!Start
<1>1. /\ pc = "main" /\ arg < Domains /\ arg' = arg + 1
      /\ pc' = "select" /\ pending' = TRUE /\ UNCHANGED <<results, queries, strays>>
  BY DEF Lookup
<1>2. Status = "idle" /\ Status' = "open"
  BY <1>1 DEF Status
<1> QED BY <1>1, <1>2 DEF Asking!Start, Status

LEMMA ThrowFails ==
  ASSUME LookupThrows
  PROVE  Asking!Fail
<1>1. /\ pc = "main" /\ arg < Domains /\ arg' = arg + 1
      /\ pc' = "exception" /\ UNCHANGED <<results, queries, strays>>
  BY DEF LookupThrows, network
<1>2. Status = "idle" /\ Status' = "failed"
  BY <1>1 DEF Status
<1> QED BY <1>1, <1>2 DEF Asking!Fail, Status

LEMMA FinishedEnds ==
  ASSUME Finished
  PROVE  Asking!End
<1>1. /\ pc = "main" /\ arg = Domains /\ pc' = "end" /\ UNCHANGED <<arg, results, queries, strays>>
  BY DEF Finished, network
<1>2. Status = "idle" /\ Status' = "ended"
  BY <1>1 DEF Status
<1> QED BY <1>1, <1>2 DEF Asking!End, Status

\* sendto() is the question: to the resolver, unless a stray datagram has put its
\* sender into remote.
LEMMA SendToAsks ==
  ASSUME Inv, SendTo
  PROVE  remote \in Hosts /\ Asking!Ask(remote)
<1>1. /\ pc = "send" /\ pending /\ pc' = "receive" /\ pending' = FALSE
      /\ queries' = Append(queries, <<arg, remote>>) /\ UNCHANGED <<arg, results, strays>>
  BY DEF SendTo
<1>2. Status = "open" /\ Status' = "asked"
  BY <1>1 DEF Status
<1>3. remote \in Hosts /\ (remote = resolver \/ strays > 0)
  BY DEF Inv, TypeOK, ResolverInv
<1> QED BY <1>1, <1>2, <1>3 DEF Asking!Ask, Status

\* recvfrom() is the answer, of the resolver and to the question, unless there was
\* a stray datagram.
LEMMA AnswerConcludes ==
  ASSUME Inv, AskedInv, Answer
  PROVE  \E host \in Hosts : Asking!Conclude(host)
<1> DEFINE h == Head(inbox).from
<1>1. /\ Receives(Head(inbox)) /\ pc' = "main" /\ results' = Append(results, Head(inbox))
      /\ UNCHANGED <<arg, queries, strays>>
  BY DEF Answer
<1>2. /\ pc = "receive" /\ inbox # <<>> /\ Head(inbox) \in Datagram
      /\ strays = 0 => h = resolver
  BY <1>1, Received
<1>3. h \in Hosts /\ strays \in Nat /\ results \in Seq(Datagram) /\ pending \in BOOLEAN
  BY <1>2, DnsAssumption DEF Datagram, Inv, TypeOK
<1>4. Status \in {"open", "asked"} /\ Status' = "idle" /\ (~pending => Status = "asked")
  BY <1>1, <1>2 DEF Status
<1>5. strays = 0 => ~pending
  BY <1>2 DEF AskedInv, Active
<1>6. Answers' = Append(Answers, h)
  <2>1. /\ Len(results) \in Nat /\ DOMAIN results = 1..Len(results)
        /\ DOMAIN results' = 1..(Len(results) + 1)
        /\ \A i \in 1..Len(results) : results'[i] = results[i]
        /\ results'[Len(results) + 1] = Head(inbox)
    BY <1>1, <1>2, <1>3
  <2>2. Answers = [i \in 1..Len(results) |-> results[i].from]
        /\ Answers' = [i \in 1..(Len(results) + 1) |-> results'[i].from]
    BY <2>1 DEF Answers
  <2>3. Answers \in Seq(Hosts) /\ Len(Answers) = Len(results)
    <3>0. \A i \in 1..Len(results) : results[i] \in Datagram
      BY <1>3, <2>1, ElementOfSeq
    <3>1. \A i \in 1..Len(results) : results[i].from \in Hosts
      BY <3>0 DEF Datagram
    <3>2. Answers \in [1..Len(results) -> Hosts]
      BY <2>2, <3>1
    <3> QED BY <2>1, <3>2
  <2>4. /\ Append(Answers, h) \in Seq(Hosts) /\ Len(Append(Answers, h)) = Len(results) + 1
        /\ \A i \in 1..Len(results) : Append(Answers, h)[i] = results[i].from
        /\ Append(Answers, h)[Len(results) + 1] = h
    BY <1>3, <2>1, <2>2, <2>3
  <2> QED BY <2>1, <2>2, <2>4
<1> HIDE DEF h
<1>7. \/ Status = "asked" /\ h = resolver
      \/ Status \in {"open", "asked"} /\ strays > 0
  BY <1>2, <1>3, <1>4, <1>5 DEF h
<1>8. Asking!Conclude(h)
  BY <1>1, <1>4, <1>6, <1>7 DEF Asking!Conclude, Status, Answers
<1> QED BY <1>3, <1>8, Zenon DEF Asking!Conclude

\* Of the network, Lookups sees the first stray datagram only.
LEMMA NetworkDisturbs ==
  ASSUME Inv, Network(Reply) \/ Network(Lose) \/ Network(Stray)
  PROVE  Stutters \/ Asking!Disturb
<1>1. UNCHANGED <<arg, pc, pending, queries, results>>
  BY DEF Network, loop
<1>2. UNCHANGED strays \/ (strays \in Nat /\ strays' = strays + 1)
  <2>1. strays \in Nat
    BY DnsAssumption DEF Inv, TypeOK
  <2> QED BY <2>1 DEF Network, Reply, Lose, Stray
<1>3. CASE UNCHANGED strays
  BY <1>1, <1>3 DEF Stutters, Status, Answers
<1>4. CASE strays \in Nat /\ strays' = strays + 1
  <2>1. (strays > 0)'
    BY <1>4
  <2> QED BY <1>1, <2>1 DEF Asking!Disturb
<1> QED BY <1>2, <1>3, <1>4

\* DnsResolve implements Lookups: whatever the network loses, delays or repeats, and
\* whatever signals and failures do to the loop, each lookup asks at most once, and
\* without strays takes only an answer of the resolver, and only after its question.
THEOREM ImplementsLookups == Spec => LookupsSpec
<1>1. Init => Asking!Init
  BY DEF Init, Asking!Init
<1>2. ASSUME Inv, AskedInv, [Next]_vars
      PROVE  [Asking!Next]_Asking!vars
  <2>1. CASE Stutters
    BY <2>1 DEF Stutters, Status, Answers, Asking!vars
  <2>2. CASE UNCHANGED vars
    <3>1. Stutters
      BY <2>2 DEF vars, loop, network, Stutters, Status, Answers
    <3> QED BY <2>1, <3>1
  <2>3. CASE Lookup \/ LookupThrows \/ Finished
    BY <1>2, <2>3, LookupStarts, ThrowFails, FinishedEnds DEF Asking!Next
  <2>4. CASE SendTo
    BY <1>2, <2>4, SendToAsks DEF Asking!Next
  <2>5. CASE Answer
    BY <1>2, <2>5, AnswerConcludes DEF Asking!Next
  <2>6. CASE Network(Reply) \/ Network(Lose) \/ Network(Stray)
    BY <1>2, <2>1, <2>6, NetworkDisturbs DEF Asking!Next
  <2> QED BY <1>2, <2>1, <2>2, <2>3, <2>4, <2>5, <2>6, LoopStutters DEF Next, Program
<1> QED BY <1>1, <1>2, SpecAsked, PTL DEF Spec, LookupsSpec, Asking!Spec
=============================================================================
