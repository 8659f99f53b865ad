----------------------------- MODULE MCWorkspace -----------------------------
(***************************************************************************)
(* Two calls on one head and the next one.  Of all behaviours those are    *)
(* explored in which the clock stands still and few handles are issued,    *)
(* with calls of different keys and payloads in flight together; and those *)
(* in which handles expire, with one call at a time.                       *)
(***************************************************************************)
EXTENDS Workspace

CONSTANTS p, q

PerKind(revisions, candidates, opens, authorities, plans) ==
  "revision" :> revisions @@ "candidate" :> candidates @@ "open" :> opens
    @@ "authority" :> authorities @@ "plan" :> plans

MCLimit == PerKind(3, 1, 1, 1, 1)
MCLifetime == PerKind(1, 2, 1, 1, 1)
MCIssued == PerKind(3, 1, 2, 2, 1)

IssuedAtMost(bound) == \A kind \in Kinds : Len(table[kind]) <= bound[kind]
InFlight == {r \in Requests : request[r].phase # "idle"}

Race == now = 0 /\ IssuedAtMost(PerKind(3, 1, 1, 1, 0))

KeysUsed ==
  ({request[r].key : r \in Requests} \ {None})
  \cup {x \in Keys : \E c \in DOMAIN table["candidate"] :
                       table["candidate"][c].idempotency[x] # None}
PayloadsUsed ==
  {table["revision"][i].payload : i \in DOMAIN table["revision"]}
  \cup ({request[r].payload : r \in Requests} \ {None})

Expiry ==
  /\ IssuedAtMost(PerKind(2, 1, 2, 2, 0)) \/ IssuedAtMost(PerKind(2, 1, 1, 1, 1))
  /\ Cardinality(InFlight) <= 1 /\ Cardinality(KeysUsed) <= 1 /\ Cardinality(PayloadsUsed) <= 1

RaceOrExpiry == Race \/ Expiry

MCSymmetry == Permutations(Requests) \cup Permutations(Keys) \cup Permutations(Payloads)
=============================================================================
