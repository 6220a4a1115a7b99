---------------------------- MODULE Conversation ----------------------------
(***************************************************************************)
(* What the assistant promises a business: a description of a sale or an   *)
(* expense only proposes; the ledger is written by a later confirmation of *)
(* the newest proposal, once; what is said takes effect in the order it    *)
(* was said, or not at all.                                                *)
(***************************************************************************)
EXTENDS Integers, Sequences

CONSTANTS NULL

VARIABLES
  line,       \* what the business has said, in order
  proposals,  \* proposals by the position of the message they came from
  posted      \* the proposals the ledger holds a transaction of

avars == <<line, proposals, posted>>

Pending == {p \in DOMAIN proposals : proposals[p].status = "PENDING"}

\* A message none of whose successors has taken effect yet.
Current(m) ==
  /\ m \in DOMAIN line
  /\ \A p \in DOMAIN proposals : /\ p < m
                                 /\ proposals[p].confirmedBy # NULL => proposals[p].confirmedBy < m

AInit == line = <<>> /\ DOMAIN proposals = {} /\ posted = {}

Say ==
  /\ Len(line') = Len(line) + 1
  /\ \A i \in DOMAIN line : line'[i] = line[i]
  /\ UNCHANGED <<proposals, posted>>

\* A new proposal takes the place of the pending one.
Propose(m) ==
  /\ Current(m) /\ line[m] = "propose"
  /\ proposals' = [p \in DOMAIN proposals \cup {m} |->
                     IF p = m THEN [status |-> "PENDING", confirmedBy |-> NULL]
                     ELSE IF p \in Pending THEN [proposals[p] EXCEPT !.status = "CANCELLED"]
                     ELSE proposals[p]]
  /\ UNCHANGED <<line, posted>>

\* The pending proposal and its ledger transaction, in one step.
Confirm(m) ==
  /\ Current(m) /\ line[m] = "confirm"
  /\ \E p \in Pending :
       /\ proposals' = [proposals EXCEPT ![p] = [status |-> "CONFIRMED", confirmedBy |-> m]]
       /\ posted' = posted \cup {p}
  /\ UNCHANGED line

Cancel(m) ==
  /\ Current(m) /\ line[m] = "cancel"
  /\ \E p \in Pending : proposals' = [proposals EXCEPT ![p].status = "CANCELLED"]
  /\ UNCHANGED <<line, posted>>

ANext == Say \/ \E m \in DOMAIN line : Propose(m) \/ Confirm(m) \/ Cancel(m)

Spec == AInit /\ [][ANext]_avars
=============================================================================
