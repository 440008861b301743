-------------------------- MODULE PersistentStorage ---------------------------
(***************************************************************************)
(* One PersistentStorageInterface object (persistent_storage.cpp) and the  *)
(* table behind it.  store_message_envelope only queues; the object's      *)
(* thread takes envelopes off the queue and writes them, and may fail or   *)
(* die while it does.  The backends the factory builds differ in what      *)
(* number a row gets, how a range is read and what a new object starts at. *)
(*   POSTGRESQL  the database numbers rows from a serial of its own; a     *)
(*               range is one SELECT; a start loads the largest number     *)
(*   LMDB        the row is put under the object's own count; a range is   *)
(*               read key by key; a start loads the number of entries      *)
(*   NULL_DB     a list in memory, read by position                        *)
(***************************************************************************)
EXTENDS Datatypes, FiniteSets

CONSTANTS
    Backends,        \* what the object may be
    RowsInKeyOrder,  \* does a SELECT without ORDER BY return rows by number
    Failures         \* what may go wrong: a subset of Faults

Faults == {"open", "database", "zmq", "crash"}

ASSUME StorageAssumption ==
    /\ Backends \subseteq {"POSTGRESQL", "LMDB", "NULL_DB", "none"}
    /\ RowsInKeyOrder \in BOOLEAN
    /\ Failures \subseteq Faults

VARIABLES
    backend,  \* which one getPersistentStorageInterface has built; "none": no object
    store_sequence_number,
    store_message_envelope_queue,
    storing,  \* has the object's thread been started
    writing,  \* the envelope the thread has popped and not yet written, if any
    db,       \* the rows, by number (LMDB: by key; NULL_DB: by position from 1)
    serial,   \* POSTGRESQL: last value drawn for the column sequenceNumber
    scan      \* get_message_envelopes under way: next and last key, rows found

objectVars      == <<backend, storing>>
storeThreadVars == <<store_message_envelope_queue, writing>>
tableVars       == <<db, serial>>
storeVars       == <<store_sequence_number, objectVars, storeThreadVars, tableVars, scan>>

\* get_message_envelopes at its end.
ScanEmpty == [key |-> 1, last |-> 0, found |-> <<>>]

Rows == DOMAIN db

Put(f, key, row) == [k \in DOMAIN f \cup {key} |-> IF k = key THEN row ELSE f[k]]

-----------------------------------------------------------------------------
(* load_sequence_number, on the rows there are *)

Largest(keys) == CHOOSE n \in keys \cup {0} : \A k \in keys : k <= n

\* Mutant of LoadSequenceNumber: the number of the next message.
LoadNextNumber ==
    CASE backend = "POSTGRESQL" -> Largest(Rows) + 1
      [] backend = "LMDB"       -> Cardinality(Rows) + 1
      [] OTHER                  -> 0

\* Mutant of LoadSequenceNumber: an LMDB object starts from 0.
LoadPostgresOnly ==
    IF backend = "POSTGRESQL" THEN Largest(Rows) ELSE 0

LoadSequenceNumber ==
    CASE backend = "POSTGRESQL" -> Largest(Rows)
      [] backend = "LMDB"       -> Cardinality(Rows)
      [] OTHER                  -> 0

UseStorage == backend # "none"

\* What constructing the object may lead to: its number, and whether its thread
\* was started.  A POSTGRESQL object that cannot open its database keeps number
\* 0 and starts no thread; one whose query fails keeps number 0 and goes on.
Constructed ==
    {[number |-> LoadSequenceNumber, storing |-> TRUE]} \cup
    IF backend # "POSTGRESQL" THEN {}
    ELSE {[number |-> 0, storing |-> failure = "database"] :
              failure \in Failures \cap {"open", "database"}}

StoreInit ==
    /\ backend \in Backends
    /\ db = [k \in {} |-> <<>>]
    /\ serial = 0
    /\ \E new \in Constructed : store_sequence_number = new.number /\ storing = new.storing
    /\ store_message_envelope_queue = <<>>
    /\ writing = <<>>
    /\ scan = ScanEmpty

\* The process dies and a new object is constructed, in one of the given ways.
\* What was queued is lost; an INSERT cut short may have drawn from the serial.
StoreRestartAs(constructions) ==
    /\ UNCHANGED backend
    /\ store_message_envelope_queue' = <<>>
    /\ writing' = <<>>
    /\ scan' = ScanEmpty
    /\ db' = IF backend = "NULL_DB" THEN [k \in {} |-> <<>>] ELSE db
    /\ serial' \in IF backend = "POSTGRESQL" /\ writing # <<>>
                   THEN {serial, serial + 1} ELSE {serial}
    /\ \E new \in constructions :
           store_sequence_number' = new.number /\ storing' = new.storing

StoreRestart == StoreRestartAs(Constructed)

-----------------------------------------------------------------------------
(* store_message_envelope.  POSTGRESQL takes g_mutex, which the thread holds *)
(* from its pop to its commit; LMDB renumbers the envelope.                  *)

Queued(envelope) ==
    IF backend = "LMDB" THEN [envelope EXCEPT !.sequence_number = store_sequence_number + 1]
                        ELSE envelope

\* Mutant of CountStored: queued and not counted.
CountNothing == UNCHANGED store_sequence_number

CountStored == store_sequence_number' = store_sequence_number + 1

StoreMessageEnvelope(envelope) ==
    /\ backend = "POSTGRESQL" => writing = <<>>
    /\ CountStored
    /\ store_message_envelope_queue' = Append(store_message_envelope_queue, Queued(envelope))
    /\ UNCHANGED <<objectVars, writing, tableVars, scan>>

-----------------------------------------------------------------------------
(* thread_fn *)

\* Mutant of ThreadFree: the next envelope is taken before the last is written.
ThreadFreeAlways == TRUE

\* The thread writes what it has popped before it pops again.
ThreadFree == writing = <<>>

PopStored ==
    /\ storing
    /\ store_message_envelope_queue # <<>>
    /\ ThreadFree
    /\ writing' = <<Head(store_message_envelope_queue)>>
    /\ store_message_envelope_queue' = Tail(store_message_envelope_queue)
    /\ UNCHANGED <<store_sequence_number, objectVars, tableVars, scan>>

\* INSERT without a number, mdb_put under the envelope's number, push_back.
WriteRow ==
    /\ writing # <<>>
    /\ LET envelope == writing[1] IN
       \/ /\ backend = "POSTGRESQL"
          /\ serial' = serial + 1
          /\ db' = Put(db, serial', [envelope EXCEPT !.sequence_number = serial'])
       \/ /\ backend = "LMDB"
          /\ db' = Put(db, envelope.sequence_number, envelope)
          /\ UNCHANGED serial
       \/ /\ backend = "NULL_DB"
          /\ db' = Put(db, Cardinality(Rows) + 1, envelope)
          /\ UNCHANGED serial
    /\ writing' = <<>>
    /\ UNCHANGED <<store_sequence_number, objectVars, store_message_envelope_queue, scan>>

\* The INSERT throws: the envelope has left the queue and is gone.  Whether
\* a number was drawn depends on how far the statement got.
InsertFails ==
    /\ backend = "POSTGRESQL"
    /\ "database" \in Failures
    /\ writing # <<>>
    /\ writing' = <<>>
    /\ serial' \in {serial, serial + 1}
    /\ UNCHANGED <<store_sequence_number, objectVars, store_message_envelope_queue, db, scan>>

-----------------------------------------------------------------------------
(* get_message_envelopes(start, end) *)

\* The range to read.  A position of NULL_DB counts from 0 and end is excluded;
\* the others include end, and take 0 for "up to the last".
BeginGet(start, end) ==
    /\ scan' =
         CASE backend = "NULL_DB" ->
                [key |-> start + 1, last |-> end, found |-> <<>>]
           [] backend # "NULL_DB" /\ store_sequence_number = 0 ->
                ScanEmpty
           [] OTHER ->
                [key   |-> IF backend = "LMDB" /\ start = 0 THEN 1 ELSE start,
                 last  |-> IF end = 0 THEN store_sequence_number ELSE end,
                 found |-> <<>>]
    /\ UNCHANGED <<store_sequence_number, objectVars, storeThreadVars, tableVars>>

Scanning == scan.key <= scan.last

\* The orders a SELECT may return rows of these numbers in.
RowOrders(keys) ==
    {order \in [1 .. Cardinality(keys) -> keys] :
        /\ \A k \in keys : \E i \in DOMAIN order : order[i] = k
        /\ RowsInKeyOrder => \A i, j \in DOMAIN order : i < j => order[i] < order[j]}

\* POSTGRESQL: one statement reads the committed rows of the range.
SelectRows ==
    /\ backend = "POSTGRESQL"
    /\ Scanning
    /\ \E order \in RowOrders({k \in Rows : scan.key <= k /\ k <= scan.last}) :
           scan' = [ScanEmpty EXCEPT !.found = [i \in DOMAIN order |-> db[order[i]]]]
    /\ UNCHANGED <<store_sequence_number, objectVars, storeThreadVars, tableVars>>

\* A statement that throws answers with no rows.
SelectFails ==
    /\ backend = "POSTGRESQL"
    /\ "database" \in Failures
    /\ Scanning
    /\ scan' = ScanEmpty
    /\ UNCHANGED <<store_sequence_number, objectVars, storeThreadVars, tableVars>>

\* LMDB: a transaction for each key, and a missing key is skipped.
\* NULL_DB: one list element.
GetKey ==
    /\ backend \in {"LMDB", "NULL_DB"}
    /\ Scanning
    /\ backend = "NULL_DB" => scan.key \in Rows
    /\ scan' = [scan EXCEPT
                  !.key = @ + 1,
                  !.found = IF scan.key \in Rows THEN Append(@, db[scan.key]) ELSE @]
    /\ UNCHANGED <<store_sequence_number, objectVars, storeThreadVars, tableVars>>

\* NULL_DB dereferences a position past the end of its list: undefined, and
\* the list's head, read as an Envelope, ends the process.
GetPastEnd ==
    /\ backend = "NULL_DB"
    /\ Scanning
    /\ scan.key \notin Rows

\* LMDB: putdb and getdb each open an environment of their own.  Where the two
\* overlap, the one that closes destroys the lock file's mutex, and the other
\* finds mdb_txn_begin failing and aborts (the macro E).
OpenedTwice ==
    /\ backend = "LMDB"
    /\ writing # <<>>
    /\ Scanning

StoreStep == PopStored \/ WriteRow \/ InsertFails

GetStep == SelectRows \/ SelectFails \/ GetKey
=============================================================================
