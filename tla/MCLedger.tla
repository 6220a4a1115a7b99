------------------------------ MODULE MCLedger ------------------------------
(***************************************************************************)
(* Instances of Ledger for TLC: concurrent calls of two businesses.        *)
(***************************************************************************)
EXTENDS Ledger

CONSTANTS b1, b2, till, sales, other, k1, k2, h1, h2

MCAccounts == {till, sales, other}
MCOwnerOf == [a \in MCAccounts |-> IF a = other THEN b2 ELSE b1]
MCBusinesses == {b1, b2}
MCKeys == {k1, k2}

Sale(from, to, amount) ==
  <<[accountId |-> from, type |-> "DEBIT", amountMinor |-> amount],
    [accountId |-> to, type |-> "CREDIT", amountMinor |-> amount]>>

MCPost(b, key, source, hash, entries) ==
  [op |-> "post", businessId |-> b, idempotencyKey |-> key, currency |-> "ZAR",
   sourceType |-> source, sourceMessageId |-> FALSE, sourcePayloadHash |-> hash,
   entries |-> entries]

MCReverse(b, o, key) ==
  [op |-> "reverse", businessId |-> b, originalTransactionId |-> o,
   idempotencyKey |-> key, reason |-> "requested"]

\* One payload, a racing one for the same key, an internal post, and reversals
\* of any call's row under either key.
CoreRequests ==
  {MCPost(b1, k1, "API", h1, Sale(till, sales, 1)),
   MCPost(b1, k1, "API", h2, Sale(till, sales, 2)),
   MCPost(b1, k2, "SYSTEM", NULL, Sale(sales, till, 2))}
  \cup {MCReverse(b1, o, key) : o \in Calls, key \in {k1, k2}}

\* Also: another tenant with the same key, a post to another tenant's account,
\* one out of balance, one out of range, and another tenant's attempt to reverse.
MCRequests ==
  CoreRequests \cup
  {MCPost(b2, k1, "API", h1, Sale(other, other, 1)),
   MCPost(b1, k2, "API", h1, Sale(till, other, 1)),
   MCPost(b1, k2, "API", h1, <<Sale(till, sales, 1)[1], Sale(till, sales, 2)[2]>>),
   MCPost(b1, k2, "WEB", h1, Sale(till, sales, MaxAmount + 1))}
  \cup {MCReverse(b2, o, k2) : o \in Calls}

\* Two internal posts with different entries, which carry no payload hash.
InternalRequests ==
  {MCPost(b1, k1, "SYSTEM", NULL, Sale(till, sales, amount)) : amount \in {1, 2}}

CallSymmetry == Permutations(Calls)
=============================================================================
