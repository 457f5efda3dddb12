------------------------------ MODULE Lookups ------------------------------
(***************************************************************************)
(* What a resolver promises of its lookups, without sockets, datagrams and *)
(* select(): they are done one after the other, each asks one question of  *)
(* the resolver and is concluded by one answer of the resolver, after the  *)
(* question.  Once the network has delivered a datagram that answers       *)
(* nothing, any host may answer, and also be asked, and an answer may come *)
(* before the question.                                                    *)
(***************************************************************************)
EXTENDS Naturals, Sequences

CONSTANTS Domains, Hosts, resolver

VARIABLES
  current,    \* the lookup that was started last, or 0
  status,     \* of it: "open" before its question, then "asked"; "idle" between
              \* two lookups; or "ended", "failed"
  questions,  \* <<lookup, host>>, in order
  answers,    \* the host that each lookup was answered by
  disturbed   \* the network has delivered an answer to no question

vars == <<current, status, questions, answers, disturbed>>

Init ==
  /\ current = 0
  /\ status = "idle"
  /\ questions = <<>> /\ answers = <<>>
  /\ disturbed = FALSE

Start ==
  /\ status = "idle" /\ current < Domains
  /\ current' = current + 1
  /\ status' = "open"
  /\ UNCHANGED <<questions, answers, disturbed>>

\* A lookup asks once: after that it is no longer open.
Ask(host) ==
  /\ status = "open"
  /\ host = resolver \/ disturbed
  /\ questions' = Append(questions, <<current, host>>)
  /\ status' = "asked"
  /\ UNCHANGED <<current, answers, disturbed>>

Conclude(host) ==
  /\ \/ status = "asked" /\ host = resolver
     \/ status \in {"open", "asked"} /\ disturbed
  /\ answers' = Append(answers, host)
  /\ status' = "idle"
  /\ UNCHANGED <<current, questions, disturbed>>

\* A lookup that cannot be made ends the program.
Fail ==
  /\ status = "idle" /\ current < Domains
  /\ current' = current + 1
  /\ status' = "failed"
  /\ UNCHANGED <<questions, answers, disturbed>>

End ==
  /\ status = "idle" /\ current = Domains
  /\ status' = "ended"
  /\ UNCHANGED <<current, questions, answers, disturbed>>

Disturb ==
  /\ disturbed' = TRUE
  /\ UNCHANGED <<current, status, questions, answers>>

Next ==
  \/ Start \/ Fail \/ End \/ Disturb
  \/ \E host \in Hosts : Ask(host) \/ Conclude(host)

Spec == Init /\ [][Next]_vars
=============================================================================
