----------------------------- MODULE IntakeAbs ------------------------------
(***************************************************************************)
(* What the intake promises WhatsApp: a delivery is taken on once, settled *)
(* once and for good, as accepted only when every message in it is stored  *)
(* and as quarantined only when it could never be processed, and only then *)
(* acknowledged.  A stored message keeps the content it came with.         *)
(***************************************************************************)
EXTENDS Naturals

CONSTANTS
  Bodies, Messages,
  Carried,      \* the messages of each body, as a set
  Processable,  \* the bodies that pass validation
  NULL

VARIABLES
  outcome,   \* per body: none, pending, accepted or quarantined
  content,   \* per message: the body it was stored from, or NULL
  settled    \* bodies whose receipt was acknowledged

avars == <<outcome, content, settled>>

AInit ==
  /\ outcome = [b \in Bodies |-> "none"]
  /\ content = [m \in Messages |-> NULL]
  /\ settled = {}

TakeOn(b) ==
  /\ outcome[b] = "none"
  /\ outcome' = [outcome EXCEPT ![b] = "pending"]
  /\ UNCHANGED <<content, settled>>

Keep(b, m) ==
  /\ m \in Carried[b] /\ b \in Processable /\ content[m] = NULL
  /\ content' = [content EXCEPT ![m] = b]
  /\ UNCHANGED <<outcome, settled>>

Conclude(b) ==
  /\ outcome[b] = "pending"
  /\ \/ /\ b \in Processable /\ \A m \in Carried[b] : content[m] # NULL
        /\ outcome' = [outcome EXCEPT ![b] = "accepted"]
     \/ /\ b \notin Processable
        /\ outcome' = [outcome EXCEPT ![b] = "quarantined"]
  /\ UNCHANGED <<content, settled>>

Acknowledge(b) ==
  /\ outcome[b] \in {"accepted", "quarantined"}
  /\ settled' = settled \cup {b}
  /\ UNCHANGED <<outcome, content>>

ANext == \E b \in Bodies : \/ TakeOn(b) \/ Conclude(b) \/ Acknowledge(b)
                           \/ \E m \in Messages : Keep(b, m)

Spec == AInit /\ [][ANext]_avars
=============================================================================
