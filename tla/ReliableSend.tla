---------------------------- MODULE ReliableSend ----------------------------
(***************************************************************************)
(* What send_reliably promises, without message IDs, tables or channels: a *)
(* submitted message goes out at most Limit times, the first thing heard   *)
(* about it is what counts, and it gets one outcome, which that justifies. *)
(* No copy follows the outcome and at most one follows what was heard.     *)
(***************************************************************************)
EXTENDS Naturals

CONSTANTS Sends, Limit

VARIABLES copies,   \* copies sent
          heard,    \* "None", or the first reply or failure that was heard
          outcome   \* "none", then "pending", then the result

vars == <<copies, heard, outcome>>

Init ==
  /\ copies = [s \in Sends |-> 0]
  /\ heard = [s \in Sends |-> "None"]
  /\ outcome = [s \in Sends |-> "none"]

\* Outcome r may be returned with c copies sent and h heard.
Justifies(h, c, r) ==
  \/ h = "Ack" /\ r = "Ok"
  \/ h = "Reset" /\ r = "Reset"
  \/ h = "Reused" /\ r = "InternalError"
  \/ c = Limit /\ r = "NoReply"
  \/ r = "TransmissionError"

(* A submission may displace pending sends that use the same key.          *)
Submit(s, displaced) ==
  /\ outcome[s] = "none"
  /\ outcome' = [outcome EXCEPT ![s] = "pending"]
  /\ \A o \in displaced : outcome[o] = "pending" /\ heard[o] = "None"
  /\ heard' = [o \in Sends |-> IF o \in displaced THEN "Reused" ELSE heard[o]]
  /\ UNCHANGED copies

Copy(s) ==
  /\ outcome[s] = "pending" /\ heard[s] = "None"
  /\ copies[s] < Limit
  /\ copies' = [copies EXCEPT ![s] = @ + 1]
  /\ UNCHANGED <<heard, outcome>>

Hear(s, t) ==
  /\ outcome[s] = "pending" /\ heard[s] = "None"
  /\ heard' = [heard EXCEPT ![s] = t]
  /\ UNCHANGED <<copies, outcome>>

Conclude(s, r, extra) ==
  /\ outcome[s] = "pending"
  /\ extra = 1 => heard[s] # "None" /\ copies[s] < Limit
  /\ copies' = [copies EXCEPT ![s] = @ + extra]
  /\ Justifies(heard[s], copies'[s], r)
  /\ outcome' = [outcome EXCEPT ![s] = r]
  /\ UNCHANGED heard

Results == {"Ok", "Reset", "NoReply", "InternalError", "TransmissionError"}

Next ==
  \/ \E s \in Sends, displaced \in SUBSET Sends : Submit(s, displaced)
  \/ \E s \in Sends : Copy(s)
  \/ \E s \in Sends, t \in {"Ack", "Reset"} : Hear(s, t)
  \/ \E s \in Sends, r \in Results, extra \in {0, 1} : Conclude(s, r, extra)

Spec == Init /\ [][Next]_vars
=============================================================================
