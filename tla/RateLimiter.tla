---------------------------- MODULE RateLimiter -----------------------------
(***************************************************************************)
(* The fixed-window limiter in front of the login, the webhook and the     *)
(* developer endpoint (SecurityRateLimiterService): one row per key in the *)
(* database, shared by all processes, or a bounded map in the memory of a  *)
(* process whose database connection is not initialized.                   *)
(*                                                                         *)
(* A call is an HTTP request that has to pass one limit after another.     *)
(***************************************************************************)
EXTENDS Naturals, Sequences, FiniteSets

CONSTANTS
  Calls, HostOf,    \* requests, and the process each is served by
  Processes,
  Keys,             \* rate-limit keys, up to their hash
  Limit, Window,    \* the limit of each key, and the length of its window
  Routes,           \* per endpoint: the keys a request has to pass, in order
  MaxMemoryKeys,    \* maxMemoryKeys
  CleanupEvery,     \* operations of a process between two clean-ups
  MaxTime,          \* bound: the last instant of a behaviour
  MaxArrivals       \* bound: the requests of a behaviour

DATABASE == "database"
Stores == {DATABASE} \cup Processes

ASSUME LimiterAssumption ==
  /\ DATABASE \notin Processes
  /\ HostOf \in [Calls -> Processes]
  /\ Limit \in [Keys -> Nat \ {0}] /\ Window \in [Keys -> Nat \ {0}]
  /\ Routes \subseteq (Seq(Keys) \ {<<>>})
  /\ MaxMemoryKeys \in Nat /\ CleanupEvery \in Nat \ {0} /\ MaxTime \in Nat
  /\ MaxArrivals \in Nat

VARIABLES
  now,         \* the clock
  online,      \* per process: whether its DataSource is initialized
  limits,      \* rows of security_rate_limits, by key
  windows,     \* per process: its map of windows in memory, by key
  operations,  \* per process: database operations since its last clean-up
  call,        \* per call: where it is, the limits it has still to pass, the count it got
  passed,      \* per store and key: the instants of the admissions, in order
  arrivals     \* requests so far

limiterVars == <<now, online, limits, windows, operations, call, passed, arrivals>>

IdleCall == [pc |-> "idle", keys |-> <<>>, count |-> 0]

LimiterInit ==
  /\ now = 0
  /\ online = [p \in Processes |-> TRUE]
  /\ limits = [k \in {} |-> 0]
  /\ windows = [p \in Processes |-> [k \in {} |-> 0]]
  /\ operations = [p \in Processes |-> 0]
  /\ call = [c \in Calls |-> IdleCall]
  /\ arrivals = 0
  /\ passed = [s \in Stores |-> [k \in Keys |-> <<>>]]

AtStep(c, pc) == call[c].pc = pc
Key(c) == Head(call[c].keys)

\* A table with the row of a key replaced or added, and one without expired rows.
With(table, k, row) == [j \in DOMAIN table \cup {k} |-> IF j = k THEN row ELSE table[j]]
Live(table) == [k \in {j \in DOMAIN table : table[j].expires > now} |-> table[k]]

\* Mutant: a new window starts from zero.
Counted_FromZero(table, k) ==
  IF k \in DOMAIN table /\ table[k].expires > now
  THEN [table[k] EXCEPT !.count = @ + 1]
  ELSE [count |-> 0, expires |-> now + Window[k]]

\* The row of a key after one more request: a running window counts it, admitted or
\* not, and is never prolonged; without one, a window starts.
Counted(table, k) ==
  IF k \in DOMAIN table /\ table[k].expires > now
  THEN [table[k] EXCEPT !.count = @ + 1]
  ELSE [count |-> 1, expires |-> now + Window[k]]

\* What a call does with the count it got for its first limit.
Decided(c, count) ==
  IF count > Limit[Key(c)] THEN [call[c] EXCEPT !.pc = "refused", !.keys = <<>>]
  ELSE [pc |-> IF Len(call[c].keys) = 1 THEN "through" ELSE "limit",
        keys |-> Tail(call[c].keys), count |-> count]

Recorded(store, k, count) ==
  IF count > Limit[k] THEN passed ELSE [passed EXCEPT ![store][k] = Append(@, now)]

\* assertDatabaseAllowed: one upsert, and a clean-up after every CleanupEvery.
DatabaseHit(c) ==
  LET p == HostOf[c]
      k == Key(c)
      row == Counted(limits, k) IN
  /\ AtStep(c, "limit") /\ online[p]
  /\ limits' = With(limits, k, row)
  /\ operations' = [operations EXCEPT ![p] = (@ + 1) % CleanupEvery]
  /\ call' = [call EXCEPT ![c] = IF operations'[p] = 0
                                 THEN [@ EXCEPT !.pc = "clean", !.count = row.count]
                                 ELSE Decided(c, row.count)]
  /\ passed' = Recorded(DATABASE, k, row.count)
  /\ UNCHANGED <<now, online, windows, arrivals>>

CleanUp(c) ==
  /\ AtStep(c, "clean")
  /\ limits' = Live(limits)
  /\ call' = [call EXCEPT ![c] = Decided(c, call[c].count)]
  /\ UNCHANGED <<now, online, windows, operations, passed, arrivals>>

\* A statement fails, counted or not: the request is answered with an error.
LimiterFails(c) ==
  /\ call[c].pc \in {"limit", "clean"} /\ online[HostOf[c]]
  /\ limits' \in {limits} \cup (IF AtStep(c, "limit")
                                THEN {With(limits, Key(c), Counted(limits, Key(c)))}
                                ELSE {Live(limits)})
  /\ call' = [call EXCEPT ![c] = [IdleCall EXCEPT !.pc = "refused"]]
  /\ UNCHANGED <<now, online, windows, operations, passed, arrivals>>

\* Whether a map of running windows has no room for a key.
MemoryFull(live, k) ==
  k \notin DOMAIN live /\ Cardinality(DOMAIN live) >= MaxMemoryKeys

\* assertMemoryAllowed: expired windows go first; at the cap a new key is refused.
MemoryHit(c) ==
  LET p == HostOf[c]
      k == Key(c)
      live == Live(windows[p]) IN
  /\ AtStep(c, "limit") /\ ~online[p]
  /\ IF MemoryFull(live, k)
     THEN /\ windows' = [windows EXCEPT ![p] = live]
          /\ call' = [call EXCEPT ![c] = [IdleCall EXCEPT !.pc = "refused"]]
          /\ passed' = passed
     ELSE /\ windows' = [windows EXCEPT ![p] = With(live, k, Counted(live, k))]
          /\ call' = [call EXCEPT ![c] = Decided(c, Counted(live, k).count)]
          /\ passed' = Recorded(p, k, Counted(live, k).count)
  /\ UNCHANGED <<now, online, limits, operations, arrivals>>

\* The connection of a process is closed, at its shutdown.
Disconnect(p) ==
  /\ online[p]
  /\ online' = [online EXCEPT ![p] = FALSE]
  /\ call' = [c \in Calls |-> IF HostOf[c] = p /\ AtStep(c, "clean")
                              THEN [IdleCall EXCEPT !.pc = "refused"] ELSE call[c]]
  /\ UNCHANGED <<now, limits, windows, operations, passed, arrivals>>

Tick ==
  /\ now < MaxTime
  /\ now' = now + 1
  /\ UNCHANGED <<online, limits, windows, operations, call, passed, arrivals>>

\* A login passes the limit of its address and then that of its account; a webhook
\* event or a developer's request passes one.
Arrive(c) ==
  /\ AtStep(c, "idle") /\ arrivals < MaxArrivals /\ arrivals' = arrivals + 1
  /\ \E route \in Routes : call' = [call EXCEPT ![c] = [IdleCall EXCEPT !.pc = "limit", !.keys = route]]
  /\ UNCHANGED <<now, online, limits, windows, operations, passed>>

\* The endpoint serves the request, or answers 429 or 500.
Leave(c) ==
  /\ call[c].pc \in {"through", "refused"}
  /\ call' = [call EXCEPT ![c] = IdleCall]
  /\ UNCHANGED <<now, online, limits, windows, operations, passed, arrivals>>

LimiterNext ==
  \/ \E c \in Calls : \/ DatabaseHit(c) \/ CleanUp(c) \/ LimiterFails(c) \/ MemoryHit(c)
                      \/ Arrive(c) \/ Leave(c)
  \/ \E p \in Processes : Disconnect(p)
  \/ Tick

LimiterSpec == LimiterInit /\ [][LimiterNext]_limiterVars

-----------------------------------------------------------------------------

RateRow == [count : Nat \ {0}, expires : Nat]

\* Rows count what they admit, per key, a process remembers a bounded number of
\* them, and a call waits for limits it has still to pass (security_rate_limits,
\* RateWindow, maxMemoryKeys).
LimiterTypes ==
  /\ now \in 0..MaxTime /\ arrivals \in 0..MaxArrivals
  /\ online \in [Processes -> BOOLEAN]
  /\ DOMAIN limits \subseteq Keys /\ \A k \in DOMAIN limits : limits[k] \in RateRow
  /\ DOMAIN windows = Processes
  /\ \A p \in Processes :
       /\ DOMAIN windows[p] \subseteq Keys
       /\ IsFiniteSet(DOMAIN windows[p]) /\ Cardinality(DOMAIN windows[p]) <= MaxMemoryKeys
       /\ \A k \in DOMAIN windows[p] : windows[p][k] \in RateRow
  /\ operations \in [Processes -> 0..(CleanupEvery - 1)]
  /\ call \in [Calls -> [pc : {"idle", "limit", "clean", "through", "refused"},
                         keys : Seq(Keys), count : Nat]]
  /\ \A c \in Calls : call[c].pc \in {"limit", "clean"} => call[c].keys # <<>>
  /\ passed \in [Stores -> [Keys -> Seq(Nat)]]

\* Across the boundary of two windows, in any stretch shorter than the length of a
\* window, a store admits a key at most twice its limit: of the requests admitted,
\* any one and the one twice the limit later are a window apart.
TwicePerWindow ==
  \A s \in Stores, k \in Keys :
    LET log == passed[s][k] IN
    \A i \in DOMAIN log : i + 2 * Limit[k] <= Len(log) => log[i] + Window[k] <= log[i + 2 * Limit[k]]

-----------------------------------------------------------------------------
(* The inductive invariant behind it (AccessProofs).                       *)

Table(s) == IF s = DATABASE THEN limits ELSE windows[s]

\* What a table tells of the admissions of a key.  A running window has counted its
\* own, so that those it does not account for came before it, and of these all but
\* the last Limit[k] a window's length before it; without one the same holds of now.
Accounted(table, k, log) ==
  /\ \A i \in DOMAIN log : log[i] <= now
  /\ IF k \in DOMAIN table /\ table[k].expires > now
     THEN LET held == IF table[k].count < Limit[k] THEN table[k].count ELSE Limit[k] IN
          /\ table[k].expires <= now + Window[k]
          /\ \A i \in DOMAIN log :
               /\ i + held <= Len(log) => log[i] + Window[k] <= table[k].expires
               /\ i + Limit[k] + held <= Len(log) => log[i] + 2 * Window[k] <= table[k].expires
     ELSE \A i \in DOMAIN log : i + Limit[k] <= Len(log) => log[i] + Window[k] <= now

LimiterInv ==
  /\ LimiterTypes /\ TwicePerWindow
  /\ \A s \in Stores, k \in Keys : Accounted(Table(s), k, passed[s][k])
=============================================================================
