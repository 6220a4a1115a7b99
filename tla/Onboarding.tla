----------------------------- MODULE Onboarding -----------------------------
(***************************************************************************)
(* The first message of a WhatsApp number creates a business and its chart *)
(* of three accounts (OnboardingService.resolveOrCreateBusiness).  Calls   *)
(* race on the unique phone number; the loser refetches the winner.        *)
(*                                                                         *)
(* A call's own rows stay with it until it commits.  Calls share no memory *)
(* and may belong to different processes.                                  *)
(***************************************************************************)
EXTENDS Naturals, FiniteSets, Sequences

CONSTANTS
  Resolvers,      \* calls of resolveOrCreateBusiness, one after another per name
  Phones, PhoneOf,  \* WhatsApp numbers, and the number of each call
  NoBusiness,
  MaxBreaks       \* bound: failed statements of a behaviour

ASSUME PhoneAssumption == PhoneOf \in [Resolvers -> Phones] /\ NoBusiness \notin Resolvers
ASSUME BreakAssumption == MaxBreaks \in Nat

\* A business is named after the call that created it.
VARIABLES
  businesses,  \* committed rows of businesses: phone by business
  charts,      \* committed rows of accounts: codes by business
  resolver,    \* per call: where it is, the codes of its own accounts, its answer
  breaks       \* failed statements so far

onboardingVars == <<businesses, charts, resolver, breaks>>

Seeds == <<"100", "400", "500">>
SeedCodes == {"100", "400", "500"}

OnboardingInit ==
  /\ businesses = [r \in {} |-> NoBusiness]
  /\ charts = [r \in {} |-> {}]
  /\ resolver = [r \in Resolvers |->
                   [pc |-> "new", codes |-> {}, business |-> NoBusiness, created |-> FALSE]]
  /\ breaks = 0

Owners(phone) == {r \in DOMAIN businesses : businesses[r] = phone}

Is(r, pc) == resolver[r].pc = pc
Move(r, pc) == resolver' = [resolver EXCEPT ![r].pc = pc]
Reply(r, b, made) ==
  resolver' = [resolver EXCEPT ![r] = [@ EXCEPT !.pc = "answered", !.codes = {},
                                       !.business = b, !.created = made]]
\* The first lookup.
Look(r) ==
  /\ Is(r, "new")
  /\ \/ \E b \in Owners(PhoneOf[r]) : Reply(r, b, FALSE)
     \/ Owners(PhoneOf[r]) = {} /\ Move(r, "insert")
  /\ UNCHANGED <<businesses, charts, breaks>>

\* Mutant: the phone number is not unique.
PhoneTaken_Never(r) == {}

\* Committed businesses of the number, which UQ_businesses_wa_phone refuses again.
PhoneTaken(r) == Owners(PhoneOf[r])

\* Uncommitted rows of the number: the insert waits for their transaction.
Rivals(r) ==
  {s \in Resolvers \ {r} : resolver[s].pc \in {"seed", "commit"} /\ PhoneOf[s] = PhoneOf[r]}

\* The business row, inside the transaction; a duplicate goes to the catch block.
InsertBusiness(r) ==
  /\ Is(r, "insert") /\ (PhoneTaken(r) = {} => Rivals(r) = {})
  /\ Move(r, IF PhoneTaken(r) = {} THEN "seed" ELSE "refetch")
  /\ UNCHANGED <<businesses, charts, breaks>>

\* A call with the next account of the chart.
Seeded(call) ==
  LET n == Cardinality(call.codes) + 1 IN
  [call EXCEPT !.codes = @ \cup {Seeds[n]}, !.pc = IF n = Len(Seeds) THEN "commit" ELSE "seed"]

InsertSeed(r) ==
  /\ Is(r, "seed")
  /\ resolver' = [resolver EXCEPT ![r] = Seeded(@)]
  /\ UNCHANGED <<businesses, charts, breaks>>

\* COMMIT publishes the business with its accounts.
Publish(r) ==
  /\ businesses' = [b \in DOMAIN businesses \cup {r} |->
                      IF b = r THEN PhoneOf[r] ELSE businesses[b]]
  /\ charts' = [b \in DOMAIN charts \cup {r} |-> IF b = r THEN resolver[r].codes ELSE charts[b]]

CommitBusiness(r) ==
  /\ Is(r, "commit") /\ Publish(r)
  /\ Reply(r, r, TRUE)
  /\ UNCHANGED breaks

\* Mutant: the catch block takes the call's own business for the winner.
Winner_Own(r, b) == b = r

\* The businesses the lookup of the catch block may find.
Winner(r, b) == b \in Owners(PhoneOf[r])

\* The catch block rolls back and looks for the winner; without one it rethrows.
Refetch(r) ==
  /\ Is(r, "refetch")
  /\ \/ \E b \in Resolvers : Winner(r, b) /\ Reply(r, b, FALSE)
     \/ (\A b \in Resolvers : ~Winner(r, b)) /\ Reply(r, NoBusiness, FALSE)
  /\ UNCHANGED <<businesses, charts, breaks>>

Break == breaks < MaxBreaks /\ breaks' = breaks + 1

\* A statement of the transaction fails, COMMIT included: its rows are gone.
Breaks(r) ==
  /\ Break /\ resolver[r].pc \in {"insert", "seed", "commit"}
  /\ resolver' = [resolver EXCEPT ![r] = [@ EXCEPT !.pc = "refetch", !.codes = {}]]
  /\ UNCHANGED <<businesses, charts>>

\* COMMIT takes effect and its acknowledgement is lost: the catch block finds the
\* call's own business.
CommitAckLost(r) ==
  /\ Break /\ Is(r, "commit") /\ Publish(r)
  /\ resolver' = [resolver EXCEPT ![r] = [@ EXCEPT !.pc = "refetch", !.codes = {}]]

\* A lookup outside the transaction fails, or the process dies: no answer.
GivesUp(r) ==
  /\ Break /\ ~Is(r, "answered")
  /\ Reply(r, NoBusiness, FALSE)
  /\ UNCHANGED <<businesses, charts>>

OnboardingNext ==
  \E r \in Resolvers :
    \/ Look(r) \/ InsertBusiness(r) \/ InsertSeed(r) \/ CommitBusiness(r) \/ Refetch(r)
    \/ Breaks(r) \/ CommitAckLost(r) \/ GivesUp(r)

OnboardingSpec == OnboardingInit /\ [][OnboardingNext]_onboardingVars

-----------------------------------------------------------------------------
(* Properties.                                                             *)

\* A call is at a statement of the code and holds the accounts it has inserted.
OnboardingTypes ==
  /\ DOMAIN businesses \subseteq Resolvers
  /\ \A b \in DOMAIN businesses : businesses[b] = PhoneOf[b]
  /\ DOMAIN charts = DOMAIN businesses
  /\ breaks \in 0..MaxBreaks
  /\ resolver \in [Resolvers ->
       [pc : {"new", "insert", "seed", "commit", "refetch", "answered"},
        codes : SUBSET SeedCodes, business : Resolvers \cup {NoBusiness},
        created : BOOLEAN]]

\* A number has one business, and a business that others can see has its whole
\* chart of accounts, so that no posting finds an account missing.
OneWholeBusiness ==
  /\ \A phone \in Phones : \A a, b \in Owners(phone) : a = b
  /\ \A b \in DOMAIN businesses : charts[b] = SeedCodes

\* Calls for one number answer with one committed business, whoever created it, and
\* at most one of them claims to have created it, which it did.
AnswersAgree ==
  \A r \in Resolvers : resolver[r].business # NoBusiness =>
    /\ resolver[r].business \in Owners(PhoneOf[r])
    /\ resolver[r].created => resolver[r].business = r
=============================================================================
