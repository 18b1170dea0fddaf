---------------------------- MODULE Observations -----------------------------
(***************************************************************************)
(* What a client of an observable resource may rely on, without registry,  *)
(* channels, sequence numbers or locks: per path and client one            *)
(* observation at a time is on, a later request of the same client         *)
(* replaces or cancels it, an observation that was ended or is over never  *)
(* comes back, and what an observer is told is the state of that moment.   *)
(***************************************************************************)
EXTENDS Naturals

CONSTANTS Requests, Clients, Paths, Nobody

VARIABLES version,        \* the state of the resource
          client, path,   \* of a request, once it was made
          mode,           \* "none", then "on", "ending" and "over"
          told            \* the state that the client was told last

vars == <<version, client, path, mode, told>>

Init ==
  /\ version = 0
  /\ client = [r \in Requests |-> Nobody]
  /\ path = [r \in Requests |-> Nobody]
  /\ mode = [r \in Requests |-> "none"]
  /\ told = [r \in Requests |-> 0]

Change ==
  /\ version' = version + 1
  /\ UNCHANGED <<client, path, mode, told>>

(* A request is answered with the state of that moment.                    *)
Answer(r, c, p) ==
  /\ client[r] = Nobody
  /\ client' = [client EXCEPT ![r] = c]
  /\ path' = [path EXCEPT ![r] = p]
  /\ told' = [told EXCEPT ![r] = version]
  /\ UNCHANGED <<version, mode>>

(* It starts an observation or cancels one: what was on for its client and *)
(* path is ended in the same step.                                         *)
Enter(r, m) ==
  /\ client[r] # Nobody /\ mode[r] = "none"
  /\ mode' = [o \in Requests |->
                IF o = r THEN m
                ELSE IF mode[o] = "on" /\ path[o] = path[r] /\ client[o] = client[r]
                THEN "ending" ELSE mode[o]]
  /\ UNCHANGED <<version, client, path, told>>

(* The resource gives a path up, with all who observe it.                  *)
GiveUp(p) ==
  /\ mode' = [o \in Requests |->
                IF mode[o] = "on" /\ path[o] = p THEN "ending" ELSE mode[o]]
  /\ UNCHANGED <<version, client, path, told>>

Observed(r) == mode[r] \in {"on", "ending"}

(* A notification, which may still go out while the observation is ending. *)
Tell(r) ==
  /\ Observed(r)
  /\ told' = [told EXCEPT ![r] = version]
  /\ UNCHANGED <<version, client, path, mode>>

(* It is over: it was ended, or a notification could not be delivered.     *)
Leave(r) ==
  /\ Observed(r)
  /\ mode' = [mode EXCEPT ![r] = "over"]
  /\ UNCHANGED <<version, client, path, told>>

Next ==
  \/ Change
  \/ \E r \in Requests, c \in Clients, p \in Paths : Answer(r, c, p)
  \/ \E r \in Requests : Enter(r, "on") \/ Enter(r, "over")
  \/ \E p \in Paths : GiveUp(p)
  \/ \E r \in Requests : Tell(r) \/ Leave(r)

Spec == Init /\ [][Next]_vars
=============================================================================
