------------------------------ MODULE Draining ------------------------------
(***************************************************************************)
(* The graceful shutdown of one process (GracefulShutdownService): work    *)
(* that asks for leave and is tracked, a drain that waits for it or for a  *)
(* timeout, and the readiness and recovery checks that look at the flag.   *)
(* The code runs on one thread: what happens between two awaits is one     *)
(* action.                                                                 *)
(***************************************************************************)
EXTENDS Naturals, FiniteSets

CONSTANTS
  Works,   \* invocations of processMessage
  Drains   \* invocations of drain: one per signal, and beforeApplicationShutdown

VARIABLES
  draining,   \* the flag
  inFlight,   \* the counter
  waiters,    \* drains waiting for the counter to reach zero
  work,       \* per work: new, running, refused or over
  drain       \* per drain: new, waiting, or what it returned

drainingVars == <<draining, inFlight, waiters, work, drain>>

DrainingInit ==
  /\ draining = FALSE /\ inFlight = 0 /\ waiters = {}
  /\ work = [w \in Works |-> "new"]
  /\ drain = [d \in Drains |-> "new"]

\* canStartWork.
CanStart == ~draining

\* processMessage asks for leave and is counted before it first awaits.
StartWork(w) ==
  /\ work[w] = "new"
  /\ IF CanStart
     THEN work' = [work EXCEPT ![w] = "running"] /\ inFlight' = inFlight + 1
     ELSE work' = [work EXCEPT ![w] = "refused"] /\ inFlight' = inFlight
  /\ UNCHANGED <<draining, waiters, drain>>

\* Mutant: off by one.
LastOut_Before(left) == left = 1

\* Whether the work that ends is the last one.
LastOut(left) == left = 0

\* The finally block of track: by return or by exception alike.
EndWork(w) ==
  /\ work[w] = "running"
  /\ work' = [work EXCEPT ![w] = "over"]
  /\ inFlight' = inFlight - 1
  /\ IF LastOut(inFlight - 1)
     THEN /\ waiters' = {}
          /\ drain' = [d \in Drains |-> IF d \in waiters /\ drain[d] = "waiting"
                                        THEN "drained" ELSE drain[d]]
     ELSE UNCHANGED <<waiters, drain>>
  /\ UNCHANGED draining

\* drain: no work may start from here on.
BeginDrain(d) ==
  /\ drain[d] = "new"
  /\ draining' = TRUE
  /\ IF inFlight = 0
     THEN drain' = [drain EXCEPT ![d] = "drained"] /\ waiters' = waiters
     ELSE drain' = [drain EXCEPT ![d] = "waiting"] /\ waiters' = waiters \cup {d}
  /\ UNCHANGED <<inFlight, work>>

\* The timeout wins the race; the waiter stays behind, and resolving it later
\* changes nothing.
DrainTimeout(d) ==
  /\ drain[d] = "waiting"
  /\ drain' = [drain EXCEPT ![d] = "timedOut"]
  /\ UNCHANGED <<draining, inFlight, waiters, work>>

DrainingNext ==
  \/ \E w \in Works : StartWork(w) \/ EndWork(w)
  \/ \E d \in Drains : BeginDrain(d) \/ DrainTimeout(d)

DrainingSpec == DrainingInit /\ [][DrainingNext]_drainingVars

-----------------------------------------------------------------------------
(* Properties.                                                             *)

\* The counter and the flags are of their types, and only waiting or timed out
\* drains are on the list (GracefulShutdownService).
DrainingTypes ==
  /\ draining \in BOOLEAN /\ inFlight \in Nat
  /\ work \in [Works -> {"new", "running", "refused", "over"}]
  /\ drain \in [Drains -> {"new", "waiting", "drained", "timedOut"}]
  /\ \A d \in Drains : drain[d] = "waiting" => d \in waiters
  /\ \A d \in waiters : drain[d] \in {"waiting", "timedOut"}

\* A drain that reports that all work is done is right, now and for the rest of the
\* process: nothing runs, and nothing will be started.
DrainHonest ==
  \A d \in Drains : drain[d] = "drained" => \A w \in Works : work[w] # "running"

\* A drain that still waits has work to wait for: no wake-up is lost.
NoLostWakeup ==
  \A d \in Drains : drain[d] = "waiting" => \E w \in Works : work[w] = "running"

\* However many signals arrive and work ends, a drain waits exactly as long as there
\* is work: its success means that nothing runs or will run, and a shutdown never
\* sits out its timeout over work that has ended (GracefulShutdownService).
DrainsMatchWork == DrainHonest /\ NoLostWakeup
=============================================================================
