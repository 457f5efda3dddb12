----------------------------- MODULE DnsResolve -----------------------------
(***************************************************************************)
(* main() and lookup() of examples/dnsresolve.js, on the UDP Socket of     *)
(* examples/socket.js and a network that delays, loses, repeats and        *)
(* reorders datagrams, some of which are not answers at all.               *)
(*                                                                         *)
(* A datagram is its sender and whether it is empty: lookup() looks at     *)
(* nothing else before it takes the last four bytes for the address.       *)
(***************************************************************************)
EXTENDS FdSet, Sequences, FiniteSets

CONSTANTS
  Domains,        \* number of names on the command line
  Hosts,          \* hosts that can reach the socket
  resolver,       \* the first name server of resolv.conf
  MaxStray,       \* bound: datagrams that answer no query
  MaxRepeats,     \* bound: answers that come once more
  MaxInterrupts   \* bound: signals that interrupt select()

ASSUME DnsAssumption ==
  /\ Domains \in Nat /\ MaxStray \in Nat /\ MaxRepeats \in Nat
  /\ MaxInterrupts \in Nat
  /\ resolver \in Hosts

VARIABLES
  pc,         \* "main", "select", "send", "receive"; or how main() ended
  arg,        \* the name being looked up; 0 before the first
  open,       \* sockets open: the number of the lookup that made each
  pending,    \* outLen > 0
  rfds, wfds,
  remote,     \* the sockaddr_in that is sent to and that recvfrom() fills
  results,    \* one per lookup that returned: the datagram it was made from
  queries,    \* queries that the kernel took: <<lookup, host>>, in order
  flight,     \* those of them that the network still has
  inbox,      \* datagrams that the open socket has got, in order
  lost,       \* lookups of which the network lost the query
  strays, repeats, interrupts,
  failed      \* a sendto() has failed

loop == <<pc, arg, open, pending, rfds, wfds, remote, results>>
network == <<flight, inbox, lost, strays, repeats>>
signals == <<interrupts, failed>>
vars == <<loop, queries, network, signals>>

sock == 3
Datagram == [from : Hosts, empty : BOOLEAN, for : 1..Domains]
Running == {"main", "select", "send", "receive"}

-----------------------------------------------------------------------------
(* lookup() *)

\* The next name: a socket, bound to any port (bind() is given no number for one),
\* fresh fd_sets, and the query in outBuf.
Lookup ==
  /\ pc = "main" /\ arg < Domains
  /\ arg' = arg + 1
  /\ open' = open \cup {arg'}
  /\ pending' = TRUE
  /\ rfds' = {} /\ wfds' = {}
  /\ remote' = resolver
  /\ inbox' = <<>>
  /\ pc' = "select"
  /\ UNCHANGED <<results, queries, flight, lost, strays, repeats, signals>>

\* No descriptor, which FD_CLR has no byte for; or a name too long for outBuf,
\* when the socket is open.
LookupThrows ==
  /\ pc = "main" /\ arg < Domains
  /\ arg' = arg + 1
  /\ open' \in {open, open \cup {arg'}}
  /\ pc' = "exception"
  /\ UNCHANGED <<pending, rfds, wfds, remote, results, queries, network, signals>>

Finished ==
  /\ pc = "main" /\ arg = Domains
  /\ pc' = "end"
  /\ UNCHANGED <<arg, open, pending, rfds, wfds, remote, results, queries, network, signals>>

Interrupted == interrupts < MaxInterrupts /\ interrupts' = interrupts + 1
Uninterrupted == interrupts' = interrupts

\* There is always room for one datagram to go out.
Select ==
  /\ pc = "select"
  /\ LET w == FD_CLR(sock, FD_ZERO(wfds))
         rset == FD_SET(sock, FD_ZERO(rfds))
         wset == IF pending THEN FD_SET(sock, w) ELSE w
         Readable == IF inbox # <<>> THEN {sock} ELSE {}
     IN  \E intr \in BOOLEAN :
           LET sets == select(rset, wset, Readable, {sock}, intr)
           IN  /\ IF intr THEN Interrupted ELSE Uninterrupted
               /\ rfds' = sets[1] /\ wfds' = sets[2]
  /\ pc' = "send"
  /\ UNCHANGED <<arg, open, pending, remote, results, queries, network, failed>>

\* A mutant of SendTo: outLen is not reset.
SendToAgain ==
  /\ pc = "send" /\ FD_ISSET(sock, wfds) /\ pending
  /\ Len(queries) < 3
  /\ queries' = Append(queries, <<arg, remote>>)
  /\ flight' = flight \cup {<<arg, remote>>}
  /\ pc' = "receive"
  /\ UNCHANGED <<arg, open, pending, rfds, wfds, remote, results, inbox, lost, strays, repeats, signals>>

\* The kernel takes the query: outLen = 0.
SendTo ==
  /\ pc = "send" /\ FD_ISSET(sock, wfds) /\ pending
  /\ pending' = FALSE
  /\ queries' = Append(queries, <<arg, remote>>)
  /\ flight' = flight \cup {<<arg, remote>>}
  /\ pc' = "receive"
  /\ UNCHANGED <<arg, open, rfds, wfds, remote, results, inbox, lost, strays, repeats, signals>>

\* A mutant of SendToFails: outLen is reset whatever sendto() returns.
SendToFailsDrops ==
  /\ pc = "send" /\ FD_ISSET(sock, wfds) /\ pending
  /\ failed' = TRUE
  /\ pending' = FALSE
  /\ pc' = "receive"
  /\ UNCHANGED <<arg, open, rfds, wfds, remote, results, queries, network, interrupts>>

\* The query stays in outBuf, to be tried at the next turn, however often.
SendToFails ==
  /\ pc = "send" /\ FD_ISSET(sock, wfds) /\ pending
  /\ failed' = TRUE
  /\ pc' = "receive"
  /\ UNCHANGED <<arg, open, pending, rfds, wfds, remote, results, queries, network, interrupts>>

NothingToSend ==
  /\ pc = "send" /\ ~(FD_ISSET(sock, wfds) /\ pending)
  /\ pc' = "receive"
  /\ UNCHANGED <<arg, open, pending, rfds, wfds, remote, results, queries, network, signals>>

\* recvfrom(), which blocks until there is a datagram, puts its sender into remote.
Receives(d) ==
  /\ pc = "receive" /\ FD_ISSET(sock, rfds)
  /\ inbox # <<>> /\ d = Head(inbox)
  /\ remote' = d.from

\* A mutant of Answer: the socket is not closed.
AnswerOpen ==
  /\ Receives(Head(inbox))
  /\ ~Head(inbox).empty
  /\ inbox' = <<>>
  /\ results' = Append(results, Head(inbox))
  /\ pc' = "main"
  /\ UNCHANGED <<arg, open, pending, rfds, wfds, queries, flight, lost, strays, repeats, signals>>

\* The first datagram with anything in it is the answer.
Answer ==
  /\ Receives(Head(inbox))
  /\ ~Head(inbox).empty
  /\ open' = open \ {arg}
  /\ inbox' = <<>>
  /\ results' = Append(results, Head(inbox))
  /\ pc' = "main"
  /\ UNCHANGED <<arg, pending, rfds, wfds, queries, flight, lost, strays, repeats, signals>>

EmptyDatagram ==
  /\ Receives(Head(inbox))
  /\ Head(inbox).empty
  /\ inbox' = Tail(inbox)
  /\ pc' = "select"
  /\ UNCHANGED <<arg, open, pending, rfds, wfds, results, queries, flight, lost, strays,
                 repeats, signals>>

\* A mutant of NothingReceived: the lookup gives up after a timeout.
NothingReceivedStops ==
  /\ pc = "receive" /\ ~FD_ISSET(sock, rfds)
  /\ open' = open \ {arg}
  /\ pc' = "main"
  /\ UNCHANGED <<arg, pending, rfds, wfds, remote, results, queries, network, signals>>

NothingReceived ==
  /\ pc = "receive" /\ ~FD_ISSET(sock, rfds)
  /\ pc' = "select"
  /\ UNCHANGED <<arg, open, pending, rfds, wfds, remote, results, queries, network, signals>>

-----------------------------------------------------------------------------
(* The network *)

\* A mutant of Arrives: all lookups have the same port.
ArrivesAtPort(k, host, empty) ==
  inbox' = IF pc \in Running /\ open # {}
           THEN Append(inbox, [from |-> host, empty |-> empty, for |-> k]) ELSE inbox

\* A datagram for the socket of lookup k, if that is still open.
Arrives(k, host, empty) ==
  inbox' = IF pc \in Running /\ k \in open
           THEN Append(inbox, [from |-> host, empty |-> empty, for |-> k]) ELSE inbox

\* The host that was asked answers, for once or again.
Reply ==
  \E q \in flight :
    /\ Arrives(q[1], q[2], FALSE)
    /\ \/ flight' = flight \ {q} /\ UNCHANGED repeats
       \/ repeats < MaxRepeats /\ repeats' = repeats + 1 /\ UNCHANGED flight
    /\ UNCHANGED <<lost, strays>>

Lose ==
  \E q \in flight :
    /\ flight' = flight \ {q}
    /\ lost' = lost \cup {q[1]}
    /\ UNCHANGED <<inbox, strays, repeats>>

\* Any host sends anything to the socket.
Stray ==
  /\ strays < MaxStray
  /\ strays' = strays + 1
  /\ open # {}
  /\ \E h \in Hosts, empty \in BOOLEAN : Arrives(arg, h, empty)
  /\ UNCHANGED <<flight, lost, repeats>>

Network(A) == A /\ UNCHANGED <<loop, queries, signals>>

-----------------------------------------------------------------------------

Init ==
  /\ pc = "main"
  /\ arg = 0
  /\ open = {}
  /\ pending = FALSE
  /\ rfds = {} /\ wfds = {}
  /\ remote = resolver
  /\ results = <<>> /\ queries = <<>>
  /\ flight = {} /\ inbox = <<>> /\ lost = {}
  /\ strays = 0 /\ repeats = 0 /\ interrupts = 0 /\ failed = FALSE

Program ==
  \/ Lookup \/ LookupThrows \/ Finished
  \/ Select \/ SendTo \/ SendToFails \/ NothingToSend
  \/ Answer \/ EmptyDatagram \/ NothingReceived

Next == Program \/ Network(Reply) \/ Network(Lose) \/ Network(Stray)

Spec == Init /\ [][Next]_vars

\* The process runs, and the network does something with every query.
FairSpec == Spec /\ WF_vars(Program) /\ WF_vars(Network(Reply) \/ Network(Lose))

-----------------------------------------------------------------------------
(* Properties *)

\* The state has its types.
TypeOK ==
  /\ pc \in Running \cup {"end", "exception"}
  /\ arg \in 0..Domains
  /\ open \subseteq 1..Domains
  /\ pending \in BOOLEAN
  /\ rfds \subseteq {sock} /\ wfds \subseteq {sock}
  /\ remote \in Hosts
  /\ results \in Seq(Datagram)
  /\ queries \in Seq((1..Domains) \X Hosts) /\ flight \subseteq (1..Domains) \X Hosts
  /\ inbox \in Seq(Datagram)
  /\ lost \subseteq 1..Domains
  /\ strays \in 0..MaxStray /\ repeats \in 0..MaxRepeats
  /\ interrupts \in 0..MaxInterrupts /\ failed \in BOOLEAN

\* One lookup sends at most one query: nothing is asked twice, however often
\* select() returns, sendto() fails or a datagram is empty.
OneQueryEach == \A i, j \in DOMAIN queries : queries[i][1] = queries[j][1] => i = j

\* Lookups return in order, each from a datagram that came to its own socket: a
\* late answer to an earlier lookup is never taken for that of a later one.
ResultsMatch ==
  /\ \A i \in DOMAIN results : results[i].for = i
  /\ Len(results) = IF pc \in {"main", "end"} THEN arg ELSE arg - 1

\* The socket of the running lookup is the only one open, and none is left when
\* main() ends as it should.
SocketsClosed == open = IF pc \in {"main", "end"} THEN {} ELSE open \cap {arg}

\* Without a stray datagram, the query goes to the resolver, and the address comes
\* from it: remote, which recvfrom() overwrites, is still the resolver then.
ResolverAsked ==
  strays = 0 =>
    /\ \A i \in DOMAIN queries : queries[i][2] = resolver
    /\ \A i \in DOMAIN results : results[i].from = resolver

\* A lookup ends, unless its query or the answer was lost: it never asks again. Nor
\* does it end when a signal interrupts select() and the query, tried just then,
\* cannot be sent: it blocks in recvfrom(), for an answer to no question. And when
\* sendto() never stops failing, as without a route, the loop goes round for ever.
LookupEnds ==
  \/ []<><<SendToFails>>_vars
  \/ \A k \in 1..Domains :
       arg = k ~> \/ Len(results) >= k \/ pc = "exception"
                  \/ k \in lost
                  \/ interrupts > 0 /\ failed

\* The lookups are those of Lookups: one question, then one answer to it, as long
\* as no host sends what it was not asked for. The resolver's answers do no harm
\* when they are repeated or late, as each lookup has a socket of its own.
Asking == INSTANCE Lookups WITH
  current <- arg,
  status <- CASE pc = "main" -> "idle" [] pc = "end" -> "ended" [] pc = "exception" -> "failed"
              [] OTHER -> IF pending THEN "open" ELSE "asked",
  questions <- queries,
  answers <- [i \in DOMAIN results |-> results[i].from],
  disturbed <- strays > 0
LookupsSpec == Asking!Spec
=============================================================================
