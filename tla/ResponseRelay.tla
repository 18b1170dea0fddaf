--------------------------- MODULE ResponseRelay -----------------------------
(***************************************************************************)
(* What handlers and peers may rely on in a server, without sockets, tasks *)
(* or buffers: responses are settled in the order in which the handlers    *)
(* handed them over, each is sent to the peer that asked or reported as    *)
(* failed, and only one that was reported may still go out later, before   *)
(* any that follows it.                                                    *)
(***************************************************************************)
EXTENDS Naturals, Sequences, FiniteSets

CONSTANT Peers

VARIABLES requester,  \* who asked: the peer of each request
          log,        \* responses handed over, in this order
          settled,    \* how many of them were sent or reported
          reported,   \* those whose send failed
          out         \* what was sent

vars == <<requester, log, settled, reported, out>>

Init ==
  /\ requester = <<>> /\ log = <<>> /\ settled = 0
  /\ reported = {} /\ out = <<>>

Ask(p) ==
  /\ requester' = Append(requester, p)
  /\ UNCHANGED <<log, settled, reported, out>>

Answers(q) == {i \in DOMAIN log : log[i].req = q}

\* Whether it will fit into a datagram is known to neither side.
Answer(q, fits) ==
  /\ q \in DOMAIN requester
  /\ log' = Append(log, [req |-> q, num |-> Cardinality(Answers(q)) + 1,
                         fits |-> fits, to |-> requester[q]])
  /\ UNCHANGED <<requester, settled, reported, out>>

Datagram(item) == [frames |-> <<item>>, to |-> item.to]
IsOut(i) == \E d \in DOMAIN out : out[d] = Datagram(log[i])

Settle ==
  /\ settled < Len(log)
  /\ settled' = settled + 1

Send ==
  /\ Settle
  /\ log[settled + 1].fits
  /\ out' = Append(out, Datagram(log[settled + 1]))
  /\ UNCHANGED <<requester, log, reported>>

Report ==
  /\ Settle
  /\ reported' = reported \cup {log[settled + 1]}
  /\ UNCHANGED <<requester, log, out>>

SendLate(i) ==
  /\ i \in 1 .. settled
  /\ log[i] \in reported /\ log[i].fits
  /\ \A j \in i .. settled : ~IsOut(j)
  /\ out' = Append(out, Datagram(log[i]))
  /\ UNCHANGED <<requester, log, settled, reported>>

Next ==
  \/ \E p \in Peers : Ask(p)
  \/ \E q \in DOMAIN requester, f \in BOOLEAN : Answer(q, f)
  \/ Send \/ Report
  \/ \E i \in DOMAIN log : SendLate(i)

Spec == Init /\ [][Next]_vars
=============================================================================
