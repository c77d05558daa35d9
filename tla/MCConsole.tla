------------------------------- MODULE MCConsole -------------------------------
(***************************************************************************)
(* Values for the constants of Console: API keys of two consumers, and the *)
(* requests that clients make with them.                                   *)
(***************************************************************************)
EXTENDS Console, TLC

Key(username, environment, role, scopes) ==
    [username |-> username, environment |-> environment, role |-> role, scopes |-> scopes]

Seller == Key("shop", "live", "user", {"products:read", "products:write"})
Owner  == Key("shop", "testnet", "admin", {})
Reader == Key("cafe", "dev", "user", {"products:read"})
Rival  == Key("cafe", "staging", NULL, {"products:write"})

Ask(route, key, headers, id, body) ==
    [route |-> route, key |-> key, headers |-> headers, internal |-> FALSE, id |-> id,
     valid |-> TRUE, body |-> body]

BySeller(route, id, body) == Ask(route, Seller, Forwarded(Seller, "json"), id, body)
ByOwner(route, id, body)  == Ask(route, Owner, Forwarded(Owner, "list"), id, body)
ByReader(route, id)       == Ask(route, Reader, Forwarded(Reader, "list"), id, NULL)
ByRival(route, id, body)  == Ask(route, Rival, Forwarded(Rival, "json"), id, body)

NewItem == [amount |-> NULL, assetCode |-> "xlm", active |-> NULL]

Requests ==
    {BySeller("create", NULL, NewItem),
     BySeller("update", 1, [active |-> FALSE]),
     ByOwner("update", 1, [amount |-> "5", assetCode |-> "USDC"]),
     BySeller("remove", 1, NULL),
     ByReader("list", NULL),
     [ByReader("get", 2) EXCEPT !.internal = TRUE],
     ByReader("remove", 2),
     ByRival("remove", 1, NULL),
     [ByRival("create", NULL, NULL) EXCEPT !.valid = FALSE],
     Ask("create", Seller, Direct(Seller, NULL), NULL, NewItem),
     Ask("list", Reader, Unauthenticated, NULL, NULL),
     Ask("liveness", Reader, Direct(Reader, "other"), NULL, NULL),
     Ask("readiness", Reader, Direct(Reader, NULL), NULL, NULL)}

\* A product of each of the two.
Stock ==
    <<[owner |-> "shop", amount |-> "1", asset |-> "native", active |-> TRUE],
      [owner |-> "cafe", amount |-> NULL, asset |-> "native", active |-> TRUE]>>
=============================================================================
