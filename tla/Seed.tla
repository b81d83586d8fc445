-------------------------------- MODULE Seed --------------------------------
(***************************************************************************)
(* The seed script, scripts/seed.py, against the constraints of the tables *)
(* it fills (app/models/db.py; the migration declares the same).  A seeder *)
(* is a run of the script: one transaction in a process of its own.  Two   *)
(* may run at once, each may die at any await, and each may be run again.  *)
(*                                                                         *)
(* Of an item the constraints only see its two enums, its place and its    *)
(* owner: coordinates, prose, tags and confidence are left out.            *)
(***************************************************************************)
EXTENDS Naturals, SequencesExt

CONSTANTS
    Seeders,    \* processes that run the script
    NoPlace     \* a google_place_id of None

VARIABLES
    pc,         \* the await each seeder is suspended at, or how it ended
    pending,    \* rows each open transaction has flushed, by table
    users,      \* committed rows of users
    items       \* committed rows of saved_items

vars == <<pc, pending, users, items>>

---------------------------------------------------------------------------
(* The rows *)

USERS == {"Alice", "Bob"}

Item(name, kind, resolution, place, saved_by) ==
    [name |-> name, kind |-> kind, resolution |-> resolution,
     google_place_id |-> place, saved_by |-> saved_by]

Exact(name, place, by) == Item(name, "venue", "exact_venue", place, by)
Unknown(name, place, by) == Item(name, "venue", "operator_unknown", place, by)
Intent(name, by) == Item(name, "intent", "locality_only", NoPlace, by)

LisbonItems == <<
    Exact("Time Out Market", "ChIJ_8jX7qMhJQ0R8Q6q0QAAAAA", "Alice"),
    Exact("Pasteis de Belem", "ChIJ0w0x0qMhJQ0R8Q6q0QAAAAA", "Bob"),
    Exact("LX Factory", "ChIJb0Zq0aMhJQ0R8Q6q0QAAAAA", "Alice"),
    Unknown("Miradouro da Graca", "ChIJX0y0zqMhJQ0R8Q6q0QAAAAA", "Bob"),
    Intent("Parasailing in Lisbon", "Alice"),
    Intent("Fado night in Alfama", "Bob") >>

TokyoVenues == <<
    Exact("Tsukiji Outer Market", "ChIJL4t9m0GOGNUR8Q6q0QAAAAA", "Alice"),
    Exact("Senso-ji Temple", "ChIJX0y0zqMhJQ0R8Q6q0QAAAAA", "Bob"),
    Exact("Shibuya Sky", "ChIJb0Zq0aMhJQ0R8Q6q0QAAAAA", "Alice"),
    Exact("Ichiran Ramen", "ChIJ0w0x0qMhJQ0R8Q6q0QAAAAA", "Bob"),
    Unknown("Golden Gai Bar Hopping", "ChIJX0y0zqMhJQ0R8Q6q0QAAAAA", "Alice"),
    Exact("teamLab Borderless", "ChIJL4t9m0GOGNUR8Q6q0QAAAAA", "Bob") >>

TokyoIntentsAndLowConfidence == <<
    Intent("Onsen experience in Hakone", "Alice"),
    Intent("Karaoke in Shibuya", "Bob"),
    Unknown("Unknown Ramen Shop", NoPlace, "Alice"),
    Intent("Portuguese cooking class", "Bob") >>

SAVED_ITEMS == LisbonItems \o TokyoVenues \o TokyoIntentsAndLowConfidence

---------------------------------------------------------------------------
(* The constraints *)

\* The enums of the columns, and the foreign key of the owner.
RowsValid(rows, owners) ==
    \A item \in ToSet(rows) :
        /\ item.kind \in {"venue", "intent"}
        /\ item.resolution \in {"exact_venue", "operator_unknown", "locality_only"}
        /\ item.saved_by \in owners

\* uq_saved_items_google_place_id: two rows may share NULL, and nothing else.
PlacesUnique(rows) ==
    \A i, j \in DOMAIN rows :
        rows[i].google_place_id = rows[j].google_place_id
            => i = j \/ rows[i].google_place_id = NoPlace

---------------------------------------------------------------------------
(* A run of the script *)

Nothing == [users |-> {}, items |-> <<>>]

Init ==
    /\ pc = [s \in Seeders |-> "idle"]
    /\ pending = [s \in Seeders |-> Nothing]
    /\ users = {} /\ items = <<>>

\* A run ends: its session closes, and what it has not committed is gone.
End(s, outcome) ==
    /\ pc' = [pc EXCEPT ![s] = outcome]
    /\ pending' = [pending EXCEPT ![s] = Nothing]

Start(s) ==
    /\ pc[s] \in {"idle", "seeded", "skipped", "IntegrityError", "dead"}
    /\ pc' = [pc EXCEPT ![s] = "check"]
    /\ UNCHANGED <<pending, users, items>>

\* The SELECT of one user sees what is committed.
Check(s) ==
    /\ pc[s] = "check"
    /\ IF users # {}
       THEN End(s, "skipped")
       ELSE pc' = [pc EXCEPT ![s] = "flushUsers"] /\ UNCHANGED pending
    /\ UNCHANGED <<users, items>>

\* The ids of USERS are fixed: the INSERT waits for another transaction that
\* holds the same keys, and fails once they are committed.
FlushUsers(s) ==
    /\ pc[s] = "flushUsers"
    /\ \A other \in Seeders \ {s} : pending[other].users = {}
    /\ IF users # {}
       THEN End(s, "IntegrityError")
       ELSE /\ pending' = [pending EXCEPT ![s].users = USERS]
            /\ pc' = [pc EXCEPT ![s] = "flushItems"]
    /\ UNCHANGED <<users, items>>

\* All items are flushed together; one that breaks a constraint ends the run.
FlushItems(s) ==
    /\ pc[s] = "flushItems"
    /\ IF /\ RowsValid(SAVED_ITEMS, users \cup pending[s].users)
          /\ PlacesUnique(items \o SAVED_ITEMS)
       THEN /\ pending' = [pending EXCEPT ![s].items = SAVED_ITEMS]
            /\ pc' = [pc EXCEPT ![s] = "commit"]
       ELSE End(s, "IntegrityError")
    /\ UNCHANGED <<users, items>>

Commit(s) ==
    /\ pc[s] = "commit"
    /\ users' = users \cup pending[s].users
    /\ items' = items \o pending[s].items
    /\ End(s, "seeded")

\* The process dies, or the connection does: the transaction is rolled back.
Crash(s) ==
    /\ pc[s] \in {"check", "flushUsers", "flushItems", "commit"}
    /\ End(s, "dead")
    /\ UNCHANGED <<users, items>>

Next ==
    \E s \in Seeders : \/ Start(s) \/ Check(s) \/ FlushUsers(s)
                       \/ FlushItems(s) \/ Commit(s) \/ Crash(s)

Spec == Init /\ [][Next]_vars

---------------------------------------------------------------------------
(* Properties *)

\* The script "populates the database": a run breaks a constraint only when
\* another run has populated it since the check.
OnlySeededRefuses ==
    \A s \in Seeders : pc[s] = "IntegrityError" => users = USERS
=============================================================================
