------------------------- MODULE MCDatabaseSessions -------------------------
(***************************************************************************)
(* TLC instance of DatabaseSessions: two programs in the API's process,    *)
(* both of which write, or one that only reads beside one that takes       *)
(* tables against the schema's order; or one that writes and the migration *)
(* script in a process of its own.                                         *)
(***************************************************************************)
EXTENDS DatabaseSessions

TwoSessions == {"first", "second"}
ApiAndTool == {"api", "tool"}
Pair(p, q, where) ==
    [s \in TwoSessions |-> IF s = "first" THEN [program |-> p, process |-> "api"]
                                          ELSE [program |-> q, process |-> where]]
\* Two names in some order, a program against itself included.
First(names) == CHOOSE p \in names : TRUE
Second(names) == IF Cardinality(names) = 1 THEN First(names) ELSE First(names \ {First(names)})
Names == DOMAIN AllPrograms
Readers ==
    {"accountDashboard", "accountQuota", "members", "search", "invitations", "history",
     "dashboard", "models", "jobs", "artifact"}
Writers == Names \ Readers
AgainstTheOrder == {"scrape", "revoke", "bootstrap"}
EveryPair ==
    {Pair(First(names), Second(names), "api") : names \in {{p, q} : p, q \in Writers}}
        \union {Pair(p, q, "api") : p \in AgainstTheOrder, q \in Readers}
        \union {Pair(p, "migrate", "tool") : p \in Writers}
=============================================================================
