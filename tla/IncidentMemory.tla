---------------------------- MODULE IncidentMemory ----------------------------
(***************************************************************************)
(* The incident memory (memory_tools.py, memory_rag.py): a table of        *)
(* incidents in a database per path, and the store object of the process,  *)
(* which stays with the path it was first opened with.                     *)
(*                                                                         *)
(* A signature is the digest of up to three named parts: it is the record  *)
(* of them, where NoPart stands for one that is left out.                  *)
(***************************************************************************)
EXTENDS Naturals, FiniteSets

CONSTANTS
    Paths,         \* the places of databases
    NoPath,        \* SQLITE_DB_PATH is not set, or no store is open
    RecallLimit    \* limit of find_similar, 5 in the code

ASSUME MemoryAssumption == NoPath \notin Paths /\ RecallLimit \in Nat \ {0}

VARIABLES
    db,        \* the rows in the database of each path
    handle,    \* the path _memory_store was opened with, or NoPath
    env        \* SQLITE_DB_PATH

memoryVars == <<db, handle, env>>

NoPart == ""
UnknownIncident == 0     \* "INC-unknown"
UnknownTypes == {{"unknown"}}
-------------------------------------------------------------------------------
Signature(service, types, cause) == [service |-> service, types |-> types, cause |-> cause]

\* load_similar_cases; no service and no types are left out.
SearchSignature(primary, types) == Signature(primary, types, NoPart)

\* Mutated: the cause is no part of it.
StoreSignatureWithoutCause(primary, types, cause) ==
    Signature(primary, IF types = {} THEN UnknownTypes ELSE types, NoPart)

\* embed_incident as memory_store_node calls it.
StoreSignature(primary, types, cause) ==
    Signature(primary, IF types = {} THEN UnknownTypes ELSE types, cause)

\* find_similar: the newest rows that match.
Matches(rows, primary, types) ==
    {r \in rows : \/ r.signature = SearchSignature(primary, types)
                  \/ primary # NoPart /\ r.root_cause = primary}

Similar(rows, primary, types) ==
    LET found == Matches(rows, primary, types)
    IN  {r \in found : Cardinality({q \in found : q.timestamp > r.timestamp}) < RecallLimit}

\* A service that was never set reads as "unknown", and stands in for a cause.
Incident(id, now, primary, types, cause) ==
    LET service == IF primary = NoPart THEN "unknown" ELSE primary
    IN  [id |-> id, timestamp |-> now,
         root_cause |-> IF cause = NoPart THEN service ELSE cause,
         signature |-> StoreSignature(service, types, cause)]

\* INSERT OR REPLACE
Inserted(rows, row) == {r \in rows : r.id # row.id} \cup {row}
-------------------------------------------------------------------------------
\* Mutated: the path is read again on every call.
OpenedAnew(dir) == IF env # NoPath THEN env ELSE dir

\* _get_memory_store: the path of the singleton, or else the environment's, or else
\* one under the output directory.
Opened(dir) == IF handle # NoPath THEN handle ELSE IF env # NoPath THEN env ELSE dir

\* The constructor of the store may raise; then no store is open.
OpenFails == handle = NoPath /\ UNCHANGED handle

MemoryInit ==
    /\ db = [p \in Paths |-> {}]
    /\ handle = NoPath
    /\ env \in Paths \cup {NoPath}
===============================================================================
