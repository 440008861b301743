----------------------------- MODULE PublishPath -----------------------------
(***************************************************************************)
(* The publishers of one process and the storage they share: the way of a  *)
(* message from publish() to the wire and to the table, and what a crash   *)
(* of the process leaves of it.                                            *)
(***************************************************************************)
EXTENDS Publisher

VARIABLE
    intact  \* history: nothing has failed and the process has not died

pathVars == <<storeVars, pubVars, intact>>

PathInit ==
    /\ StoreInit
    /\ PublisherInit
    /\ intact = storing

Crash ==
    /\ "crash" \in Failures \/ GetPastEnd \/ OpenedTwice
    /\ StoreRestart
    /\ PublisherRestart
    /\ intact' = FALSE

PublisherStep(p) ==
    \/ TakeMessage(p)
    \/ StoreMessage(p)
    \/ SendMessage(p)
    \/ SendError(p)
    \/ BindPub(p)
    \/ BindRep(p)

PathNext ==
    \/ \E p \in Publishers :
         \/ \E id \in Ids, topic \in Topics : Publish(p, id, topic) /\ UNCHANGED intact
         \/ PublisherStep(p) /\ UNCHANGED intact
    \/ (PopStored \/ WriteRow) /\ UNCHANGED <<pubVars, intact>>
    \/ InsertFails /\ intact' = FALSE /\ UNCHANGED pubVars
    \/ Crash

PathSpec == PathInit /\ [][PathNext]_pathVars

\* Every thread is scheduled.  g_mutex needs no more than this: the storage's
\* thread lets go of it and has nothing left to take it for once its queue is
\* empty, so a publisher waiting to store is enabled for good in the end.
PathFairSpec ==
    /\ PathSpec
    /\ \A p \in Publishers :
         WF_pathVars(PublisherStep(p) /\ UNCHANGED intact)
    /\ WF_pathVars((PopStored \/ WriteRow) /\ UNCHANGED <<pubVars, intact>>)

-----------------------------------------------------------------------------
(* What the publishing side promises *)

PathTypeOK ==
    /\ store_sequence_number \in Nat
    /\ store_message_envelope_queue \in Seq([id : Ids, topic : Topics, sequence_number : Nat])
    /\ storing \in BOOLEAN /\ intact \in BOOLEAN
    /\ Len(writing) <= 1
    /\ Rows \subseteq Nat \ {0}
    /\ \A k \in Rows : db[k] \in [id : Ids, topic : Topics, sequence_number : Nat]
    /\ serial \in Nat
    /\ pub_pc \in [Publishers -> PubPoints]
    /\ rep_pc \in RepPoints
    /\ pub_owner \in Publishers \cup {NoPublisher}
    /\ rep_owner \in Publishers \cup {NoPublisher}
    /\ published \subseteq Ids
    /\ sent \subseteq [id : Ids, topic : Topics, sequence_number : Nat]

\* The envelopes the storage has accepted, wherever they are by now.
Accepted ==
    {db[k] : k \in Rows}
        \cup {writing[i] : i \in DOMAIN writing}
        \cup {store_message_envelope_queue[i] : i \in DOMAIN store_message_envelope_queue}

\* Nothing is on the wire that the storage could not be asked for again: an
\* envelope is given to the storage before it is sent, and the storage keeps it
\* as long as nothing fails (the order of pub_thread_fn's calls).
SentIsAccepted ==
    intact /\ UseStorage => \A e \in sent : \E a \in Accepted : a.id = e.id

\* The storage's count is exactly its rows and what is on the way to them, also
\* with several publishers storing at once: this is what makes it the number of
\* the last message.  A row lost to a failed INSERT breaks it for good.
CountIsRowsAndQueue ==
    intact => store_sequence_number =
                  Cardinality(Rows) + Len(writing) + Len(store_message_envelope_queue)

\* The number a message was sent under is the number it is stored under.  This
\* is what recovery relies on, and it takes a single publisher: the number is
\* read from the storage before the call that raises it.
LiveNumberIsStored ==
    intact => \A e \in sent, k \in Rows : db[k].id = e.id => e.sequence_number = k

\* The rows are numbered without a hole, also over failures and restarts, unless
\* the database has drawn a number for a row that never came to be.
RowsHaveNoHole ==
    serial \in {0, Cardinality(Rows)} => Rows = 1 .. Cardinality(Rows)

\* A crash loses what was queued and nothing else: a row, once written, keeps its
\* number and its payload (the LMDB backend writes under a number of its own
\* count and would overwrite, were the count loaded at the start too small).
RowsAreKept ==
    [][backend # "NULL_DB" => \A k \in Rows : k \in Rows' /\ db'[k] = db[k]]_pathVars

\* Unless something fails, every message published is stored and sent in the end.
EverythingArrives ==
    \A id \in Ids :
        id \in published ~>
            \/ ~intact
            \/ /\ UseStorage => \E k \in Rows : db[k].id = id
               /\ \E e \in sent : e.id = id
=============================================================================
