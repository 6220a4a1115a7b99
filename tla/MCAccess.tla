------------------------------ MODULE MCAccess ------------------------------
(***************************************************************************)
(* Instances of Access, RateLimiter, Schema and Upgrade for TLC, in one    *)
(* state machine that runs one of them: two commands create the account of *)
(* one email for two businesses while clients log in and out; requests     *)
(* meet the limits of an address and of an account; two sessions write     *)
(* what they like into the ledger's tables; and the last migrations run up *)
(* and down over rows of an earlier release.                               *)
(***************************************************************************)
EXTENDS Access, RateLimiter, Schema, Upgrade, TLC

CONSTANTS v1, v2, o1, o2, o3, c1, c2, t1, t2, t3, b1, b2, x1, n1, n2

MCCreators == {o1, o2, o3}
MCBusinessOf ==
  [o \in MCCreators |-> IF o = o1 THEN "shop" ELSE IF o = o2 THEN "stall" ELSE "gone"]
MCEmailOf == [o \in MCCreators |-> "owner"]

MCHostOf == [c \in Calls |-> "p1"]
MCKeys == {"address", "account"}
MCLimit == [k \in MCKeys |-> IF k = "address" THEN 2 ELSE 1]
MCWindow == [k \in MCKeys |-> 2]
MCRoutes == {<<"address", "account">>}

\* A posting, and reversals of it in its own business and in another one.
MCHeader(business, reverses) ==
  [status |-> "POSTING", business |-> business, currency |-> "ZAR", reverses |-> reverses]
MCHeaders == {MCHeader("shop", NONE), MCHeader("shop", t1), MCHeader("stall", t1)}

\* Balanced pairs of two amounts, and a line alone of the other business's account.
MCLine(account, type, amount) == [account |-> account, type |-> type, amount |-> amount]
MCInserts ==
  {<<MCLine("cash", "DEBIT", 1), MCLine("cash", "CREDIT", 1)>>,
   <<MCLine("cash", "DEBIT", 2), MCLine("cash", "CREDIT", 2)>>,
   <<MCLine("bank", "DEBIT", 1)>>}
MCCharts == {[business |-> "stall", type |-> "EXPENSE"]}
MCOpened == "cash" :> [business |-> "shop", type |-> "ASSET"]

\* A transaction and a proposal, spelled and wrong in many ways, and a second proposal
\* that may claim the same transaction.
MCTransactions ==
  {[type |-> ty, hash |-> h, currency |-> "ZAR", source |-> s, key |-> k, entries |-> "SALE"] :
     ty \in {"WHATSAPP", "whatsapp", "SYSTEM"}, h \in {"a1", "A1", "", NULL},
     s \in {"m1", " "}, k \in {n1, NULL}}
MCStanding == {<<"PENDING", NULL>>, <<"CONFIRMED", x1>>}
MCProposal(hash, kind, standing) ==
  [hash |-> hash, currency |-> "ZAR", kind |-> kind, source |-> "m1",
   status |-> standing[1], transaction |-> standing[2]]
MCStarts ==
  {d \in {[transactions |-> x1 :> t,
           proposals |-> (n1 :> MCProposal(h, k, s)) @@ (n2 :> MCProposal("a1", "SALE", o)),
           principals |-> "owner" :> [currency |-> "ZAR"],
           alerts |-> "alert" :> [currency |-> "zar", status |-> "DELIVERY_UNCERTAIN"]] :
             t \in MCTransactions, h \in {"A1", "a1", "?"}, k \in {"SALE", "sale "},
             s \in MCStanding, o \in MCStanding} : Legal(d)}
MCEdit(table, column, value) == [table |-> table, column |-> column, value |-> value]
MCEdits ==
  {MCEdit("transactions", "type", "API"), MCEdit("transactions", "key", n1),
   MCEdit("proposals", "hash", "a1"), MCEdit("principals", "currency", "EUR"),
   MCEdit("alerts", "status", "FAILED")}
MCRespelled == ("whatsapp" :> "WHATSAPP") @@ ("A1" :> "a1") @@ ("sale " :> "SALE") @@ ("zar" :> "ZAR")
MCStart == CHOOSE d \in MCStarts : TRUE

MCSymmetry == Permutations({t2, t3}) \cup Permutations({b1, b2})

VARIABLE part

vars == <<accessVars, limiterVars, schemaVars, upgradeVars, part>>

Init ==
  /\ part \in {"access", "limiter", "schema", "upgrade"}
  /\ AccessInit /\ LimiterInit /\ SchemaInit
  /\ IF part = "upgrade" THEN UpgradeInit ELSE UpgradeInit /\ db = MCStart

Next ==
  /\ part' = part
  /\ \/ part = "access" /\ AccessNext /\ UNCHANGED <<limiterVars, schemaVars, upgradeVars>>
     \/ part = "limiter" /\ LimiterNext /\ UNCHANGED <<accessVars, schemaVars, upgradeVars>>
     \/ part = "schema" /\ SchemaNext /\ UNCHANGED <<accessVars, limiterVars, upgradeVars>>
     \/ part = "upgrade" /\ UpgradeNext /\ UNCHANGED <<accessVars, limiterVars, schemaVars>>

Spec == Init /\ [][Next]_vars
=============================================================================
