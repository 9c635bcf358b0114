----------------------------- MODULE AssetStore -----------------------------
(***************************************************************************)
(* What src/cache.rs promises its callers, without locks, recency list or  *)
(* byte counter: a bounded map that answers each call at one instant.      *)
(* A lookup may give up its own entry once that has expired, an offer any  *)
(* entries, whether it needs the room or not; after a panic inside the     *)
(* store it keeps still and answers nothing more.                          *)
(***************************************************************************)
EXTENDS Integers, FiniteSets

CONSTANTS Tasks, Keys, Sizes, max_capacity_bytes, max_file_size_bytes, default_ttl

VARIABLES
    now,
    held,                   \* key -> asset
    down,                   \* a caller has panicked inside
    request,                \* what each caller is waiting for
    answer                  \* what its last call returned

vars == <<now, held, down, request, answer>>

Nothing == [kind |-> "none"]
Looking(k) == [kind |-> "lookup", key |-> k]
Offering(k, a) == [kind |-> "offer", key |-> k, asset |-> a]

Fresh(a) == now - a.created_at < default_ttl

\* The bytes of a store, one pair for each.
Volume(m) == {b \in (DOMAIN m) \X (1..max_capacity_bytes) : b[2] <= m[b[1]].size_bytes}
OnlyKeys(m, S) == [k \in S |-> m[k]]
WithAsset(m, k, a) == [j \in DOMAIN m \cup {k} |-> IF j = k THEN a ELSE m[j]]

Init ==
    /\ now = 0
    /\ held = [k \in {} |-> 0]
    /\ down = FALSE
    /\ request = [t \in Tasks |-> Nothing]
    /\ answer = [t \in Tasks |-> "none"]

Tick == now' = now + 1 /\ UNCHANGED <<held, down, request, answer>>

Ask(t, r) ==
    /\ request[t] = Nothing
    /\ request' = [request EXCEPT ![t] = r]
    /\ answer' = [answer EXCEPT ![t] = "none"]
    /\ UNCHANGED <<now, held, down>>

Answer(t, r) ==
    /\ request' = [request EXCEPT ![t] = Nothing]
    /\ answer' = [answer EXCEPT ![t] = r]
    /\ UNCHANGED now

Lookup(t, k) == Ask(t, Looking(k))

\* The asset is as old as the call that offers it.
Offer(t, k, size) ==
    /\ size <= max_file_size_bytes /\ size <= max_capacity_bytes
    /\ Ask(t, Offering(k, [size_bytes |-> size, created_at |-> now]))

OfferTooLarge(t, size) ==
    /\ request[t] = Nothing
    /\ \/ size > max_file_size_bytes /\ Answer(t, "exceeds_max_file_size")
       \/ size > max_capacity_bytes /\ Answer(t, "exceeds_max_capacity")
    /\ UNCHANGED <<held, down>>

\* The key is held and fresh when the answer is given.
Found(t) ==
    /\ request[t].kind = "lookup" /\ ~down
    /\ request[t].key \in DOMAIN held /\ Fresh(held[request[t].key])
    /\ Answer(t, "hit")
    /\ UNCHANGED <<held, down>>

\* It is not, or the store is down.
NotFound(t) ==
    /\ request[t].kind = "lookup"
    /\ down \/ request[t].key \notin DOMAIN held \/ ~Fresh(held[request[t].key])
    /\ Answer(t, "miss")
    /\ UNCHANGED <<held, down>>

\* One entry goes: expired and looked up, or in the way of an offer.
Forget(t, k) ==
    /\ ~down /\ k \in DOMAIN held
    /\ \/ request[t] = Looking(k) /\ ~Fresh(held[k])
       \/ request[t].kind = "offer"
    /\ held' = OnlyKeys(held, DOMAIN held \ {k})
    /\ UNCHANGED <<now, down, request, answer>>

\* The offered asset is held from the moment its caller hears of it, and
\* everything together fits the budget.
Take(t) ==
    /\ request[t].kind = "offer" /\ ~down
    /\ \E S \in SUBSET DOMAIN held :
        held' = WithAsset(OnlyKeys(held, S), request[t].key, request[t].asset)
    /\ Cardinality(Volume(held')) <= max_capacity_bytes
    /\ Answer(t, "inserted")
    /\ UNCHANGED down

\* An offer that is small enough is refused by an empty store only, or by a
\* store that is down.
Refuse(t) ==
    /\ request[t].kind = "offer"
    /\ \/ DOMAIN held = {} /\ Answer(t, "capacity_full_after_eviction")
       \/ down /\ Answer(t, "lock_error")
    /\ UNCHANGED <<held, down>>

Break(t, k) ==
    /\ request[t].kind = "offer" /\ ~down /\ k \in DOMAIN held
    /\ held' = OnlyKeys(held, DOMAIN held \ {k})
    /\ down' = TRUE
    /\ Answer(t, "panic")

Next ==
    \/ Tick
    \/ \E t \in Tasks :
        \/ Found(t) \/ NotFound(t) \/ Take(t) \/ Refuse(t)
        \/ \E k \in Keys : Lookup(t, k) \/ Forget(t, k) \/ Break(t, k)
        \/ \E size \in Sizes : OfferTooLarge(t, size)
        \/ \E k \in Keys, size \in Sizes : Offer(t, k, size)

Spec == Init /\ [][Next]_vars
=============================================================================
