-------------------------- MODULE RequestLifecycle --------------------------
(***************************************************************************)
(* What a council promises to the client that asked: every seat is heard   *)
(* or missed, once; one verdict is given after all of them are accounted   *)
(* for, and it is full only when every seat was heard; then the request is *)
(* over and nothing about it changes any more.                             *)
(***************************************************************************)
CONSTANTS Requests, Seats

VARIABLES
  phase,    \* where the request stands
  heard,    \* seats whose view counts in the answer
  missed,   \* seats whose view does not: late, failed or timed out
  verdict   \* the answer: none yet, full, partial, or none could be given

vars == <<phase, heard, missed, verdict>>

Phases   == {"none", "open", "decided", "over"}
VerdictKinds == {"none", "full", "partial", "unanswered"}

TypeOK ==
  /\ phase \in [Requests -> Phases]
  /\ heard \in [Requests -> SUBSET Seats]
  /\ missed \in [Requests -> SUBSET Seats]
  /\ verdict \in [Requests -> VerdictKinds]

Init ==
  /\ phase   = [r \in Requests |-> "none"]
  /\ heard   = [r \in Requests |-> {}]
  /\ missed  = [r \in Requests |-> {}]
  /\ verdict = [r \in Requests |-> "none"]

Accept(r) ==
  /\ phase[r] = "none"
  /\ phase' = [phase EXCEPT ![r] = "open"]
  /\ UNCHANGED <<heard, missed, verdict>>

Hear(r, s) ==
  /\ phase[r] = "open"
  /\ s \notin heard[r] \cup missed[r]
  /\ heard' = [heard EXCEPT ![r] = @ \cup {s}]
  /\ UNCHANGED <<phase, missed, verdict>>

Miss(r, s) ==
  /\ phase[r] = "open"
  /\ s \notin heard[r] \cup missed[r]
  /\ missed' = [missed EXCEPT ![r] = @ \cup {s}]
  /\ UNCHANGED <<phase, heard, verdict>>

Decide(r) ==
  /\ phase[r] = "open"
  /\ heard[r] \cup missed[r] = Seats
  /\ \E v \in {IF heard[r] = Seats THEN "full" ELSE "partial", "unanswered"} :
       verdict' = [verdict EXCEPT ![r] = v]
  /\ phase' = [phase EXCEPT ![r] = "decided"]
  /\ UNCHANGED <<heard, missed>>

Close(r) ==
  /\ phase[r] = "decided"
  /\ phase' = [phase EXCEPT ![r] = "over"]
  /\ UNCHANGED <<heard, missed, verdict>>

Next == \E r \in Requests :
          \/ Accept(r) \/ Decide(r) \/ Close(r)
          \/ \E s \in Seats : Hear(r, s) \/ Miss(r, s)

Spec == Init /\ [][Next]_vars
=============================================================================
