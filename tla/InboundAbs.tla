----------------------------- MODULE InboundAbs -----------------------------
(***************************************************************************)
(* What the inbound queue promises a sender: messages are lined up in the  *)
(* order they were stored, settled one by one from the front, each once    *)
(* and for good, and answered at most once, if they were processed.        *)
(***************************************************************************)
CONSTANTS Messages, Sender

VARIABLES
  ahead,    \* per stored message: those before it in the line of its sender
  outcome,  \* per message: none yet, PROCESSED or DEAD
  answered  \* the messages whose sender has been told

avars == <<ahead, outcome, answered>>

AInit ==
  /\ DOMAIN ahead = {}
  /\ outcome = [m \in Messages |-> "none"]
  /\ answered = {}

\* A message is stored, once, behind those of its sender that are there already.
Accept(m) ==
  /\ m \notin DOMAIN ahead
  /\ ahead' = [n \in DOMAIN ahead \cup {m} |->
                 IF n = m THEN {k \in DOMAIN ahead : Sender[k] = Sender[m]} ELSE ahead[n]]
  /\ UNCHANGED <<outcome, answered>>

\* The first unsettled message of a sender is settled.
Settle(m) ==
  /\ m \in DOMAIN ahead /\ outcome[m] = "none"
  /\ \A n \in ahead[m] : outcome[n] # "none"
  /\ \E result \in {"PROCESSED", "DEAD"} : outcome' = [outcome EXCEPT ![m] = result]
  /\ UNCHANGED <<ahead, answered>>

\* The sender is told of a processed message.
Answer(m) ==
  /\ outcome[m] = "PROCESSED" /\ m \notin answered
  /\ answered' = answered \cup {m}
  /\ UNCHANGED <<ahead, outcome>>

ANext == \E m \in Messages : Accept(m) \/ Settle(m) \/ Answer(m)

Spec == AInit /\ [][ANext]_avars
=============================================================================
