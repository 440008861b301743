-------------------------- MODULE PublishPathProofs ---------------------------
(***************************************************************************)
(* What the publishers of a process and the storage they share keep true,  *)
(* for every number of publishers and messages, every backend and every    *)
(* set of failures.                                                        *)
(***************************************************************************)
EXTENDS PublishPath, FiniteSetTheorems, SequenceTheorems,
        WellFoundedInduction, TLAPS

\* An envelope on the publishing side.
Stored == [id : Ids, topic : Topics, sequence_number : Nat]

-----------------------------------------------------------------------------
(* Data *)

\* A sequence of at most one element that is not empty is that element.
LEMMA OnlyElement ==
    ASSUME NEW S, NEW seq \in Seq(S), seq # <<>>, Len(seq) <= 1
    PROVE  Len(seq) = 1 /\ seq[1] \in S
<1>1. Len(seq) \in Nat \ {0}
  BY EmptySeq
<1>2. Len(seq) = 1
  BY <1>1
<1>3. seq \in [1 .. 1 -> S]
  BY <1>2, LenProperties
<1> QED
  BY <1>2, <1>3

\* Of some natural numbers one is the least: the initial segments 0 .. n they end are
\* finite sets, and inclusion of finite sets is well-founded.
LEMMA LeastNumber ==
    ASSUME NEW S \in SUBSET Nat, S # {}
    PROVE  \E n \in S : \A k \in S : n <= k
<1> DEFINE Segments == {0 .. n : n \in S}
<1>1. \A n \in S : 0 .. n \in FiniteSubsetsOf(Nat)
  BY FS_Interval DEF FiniteSubsetsOf
<1>2. Segments \subseteq FiniteSubsetsOf(Nat) /\ Segments # {}
  BY <1>1
<1>3. PICK least \in Segments :
          \A other \in Segments : ~ (<<other, least>> \in StrictSubsetOrdering(Nat))
  <2> HIDE DEF Segments
  <2> QED
    BY <1>2, FS_StrictSubsetOrderingWellFounded, WFMin
<1>4. PICK n \in S : least = 0 .. n
  BY <1>3
<1>5. ASSUME NEW k \in S, k < n
      PROVE  FALSE
  <2>1. 0 .. k \in SUBSET Nat /\ 0 .. n \in SUBSET Nat
    BY <1>5
  <2>2. 0 .. k \subseteq 0 .. n /\ n \in 0 .. n /\ n \notin 0 .. k
    BY <1>5
  <2>3. <<0 .. k, 0 .. n>> \in StrictSubsetOrdering(Nat)
    BY <2>1, <2>2 DEF StrictSubsetOrdering
  <2>4. 0 .. k \in Segments
    BY <1>5
  <2> QED
    BY <1>3, <1>4, <2>3, <2>4
<1> QED
  BY <1>5

\* A set of positive numbers with a bound has a largest element, or is empty.
LEMMA LargestExists ==
    ASSUME NEW bound \in Nat, NEW keys \in SUBSET (1 .. bound)
    PROVE  /\ Largest(keys) \in Nat
           /\ Largest(keys) \in keys \cup {0}
           /\ \A k \in keys : k <= Largest(keys)
<1> DEFINE Bounds == {n \in Nat : \A k \in keys : k <= n}
<1>1. bound \in Bounds
  OBVIOUS
<1>2. PICK least \in Bounds : \A n \in Bounds : least <= n
  <2>1. Bounds \in SUBSET Nat /\ Bounds # {}
    BY <1>1
  <2> HIDE DEF Bounds
  <2> QED
    BY <2>1, LeastNumber
<1>3. least \in keys \cup {0}
  <2> SUFFICES ASSUME least \notin keys, least # 0 PROVE FALSE
    OBVIOUS
  <2>1. least - 1 \in Bounds
    OBVIOUS
  <2> QED
    BY <1>2, <2>1
<1>4. \E n \in keys \cup {0} : \A k \in keys : k <= n
  BY <1>3
<1>5. /\ Largest(keys) \in keys \cup {0}
      /\ \A k \in keys : k <= Largest(keys)
  BY <1>4 DEF Largest
<1>6. keys \cup {0} \subseteq Nat
  OBVIOUS
<1> QED
  BY <1>5, <1>6

-----------------------------------------------------------------------------
(* Types *)

\* PathTypeOK, and what the other variables hold: in particular a thread that is
\* past taking a message holds one.
Types ==
    /\ PathTypeOK
    /\ backend \in Backends
    /\ writing \in Seq(Stored)
    /\ incoming_message_envelope_queue \in [Publishers -> Seq(Stored)]
    /\ pub_sequence_number \in [Publishers -> Nat]
    /\ msg_envelope \in [Publishers -> Stored \cup {NoEnvelope}]
    /\ \A p \in Publishers : pub_pc[p] # "take" => msg_envelope[p] \in Stored
    /\ isPubBinded \in [Publishers -> BOOLEAN]
    /\ isRepBinded \in [Publishers -> BOOLEAN]

\* The rows are finitely many, and their numbers run from 1: without a hole where
\* the object numbers them, below the serial where the database does.
Rowed ==
    /\ IsFiniteSet(Rows)
    /\ backend = "POSTGRESQL" => Rows \subseteq 1 .. serial
    /\ backend # "POSTGRESQL" => serial = 0 /\ Rows = 1 .. Cardinality(Rows)
    /\ backend = "none" =>
         /\ store_message_envelope_queue = <<>> /\ writing = <<>> /\ Rows = {}
         /\ \A p \in Publishers : pub_pc[p] # "store"

\* The number WriteRow puts a row under.
NewKey == IF backend = "POSTGRESQL" THEN serial + 1 ELSE Cardinality(Rows) + 1

\* What is on its way to an LMDB table has been given the numbers that follow the rows'.
Queueing ==
    backend = "LMDB" =>
        /\ writing # <<>> => writing[1].sequence_number = Cardinality(Rows) + 1
        /\ \A i \in DOMAIN store_message_envelope_queue :
               store_message_envelope_queue[i].sequence_number =
                   Cardinality(Rows) + Len(writing) + i

\* CountIsRowsAndQueue holds over crashes too where the number is counted from the
\* rows; with POSTGRESQL it needs the serial and the rows to agree.
Counting ==
    /\ intact \/ backend # "POSTGRESQL" =>
         store_sequence_number =
             Cardinality(Rows) + Len(writing) + Len(store_message_envelope_queue)
    /\ intact /\ backend = "POSTGRESQL" => Rows = 1 .. serial

\* The inductive invariant.
Numbering == Types /\ Rowed /\ Queueing /\ Counting

LEMMA EmptyRows ==
    ASSUME NEW row
    PROVE  /\ DOMAIN [k \in {} |-> row] = {}
           /\ IsFiniteSet({}) /\ Cardinality({}) = 0
           /\ Largest({}) = 0
           /\ {} = 1 .. 0
  BY FS_EmptySet DEF Largest

\* A row under a new number is one more.
LEMMA OneMoreRow ==
    ASSUME NEW S, IsFiniteSet(S), NEW key, key \notin S
    PROVE  /\ IsFiniteSet(S \cup {key})
           /\ Cardinality(S) \in Nat
           /\ Cardinality(S \cup {key}) = Cardinality(S) + 1
  BY FS_AddElement, FS_CardinalityType

LEMMA SegmentSize ==
    ASSUME NEW n \in Nat
    PROVE  IsFiniteSet(1 .. n) /\ Cardinality(1 .. n) = n
  BY FS_Interval

\* Either the number was loaded, or POSTGRESQL failed to and kept 0.
LEMMA ConstructedCases ==
    ASSUME NEW new \in Constructed
    PROVE  /\ new.number \in {0, LoadSequenceNumber} /\ new.storing \in BOOLEAN
           /\ backend # "POSTGRESQL" => new.number = LoadSequenceNumber
<1>1. \/ new = [number |-> LoadSequenceNumber, storing |-> TRUE]
      \/ /\ backend = "POSTGRESQL"
         /\ \E failure \in Failures : new = [number |-> 0, storing |-> failure = "database"]
  BY DEF Constructed
<1>2. new.number \in {0, LoadSequenceNumber} /\ new.storing \in BOOLEAN
  <2>1. CASE new = [number |-> LoadSequenceNumber, storing |-> TRUE]
    BY <2>1
  <2>2. CASE \E failure \in Failures : new = [number |-> 0, storing |-> failure = "database"]
    <3>1. PICK failure \in Failures : new = [number |-> 0, storing |-> failure = "database"]
      BY <2>2
    <3>2. new.number = 0 /\ new.storing = (failure = "database")
      BY <3>1
    <3> QED
      BY <3>2
  <2> QED
    BY <1>1, <2>1, <2>2
<1>3. backend # "POSTGRESQL" => new.number = LoadSequenceNumber
  BY <1>1
<1> QED
  BY <1>2, <1>3

\* Whatever the construction, the number is a natural number; without POSTGRESQL it
\* is the number of the rows there are then.
LEMMA ConstructedNumber ==
    ASSUME Numbering, NEW new \in Constructed
    PROVE  /\ new.number \in Nat /\ new.storing \in BOOLEAN
           /\ backend = "LMDB" => new.number = Cardinality(Rows)
           /\ backend \notin {"LMDB", "POSTGRESQL"} => new.number = 0
<1>1. Cardinality(Rows) \in Nat
  BY FS_CardinalityType DEF Numbering, Rowed
<1>2. backend = "POSTGRESQL" => Largest(Rows) \in Nat
  <2> SUFFICES ASSUME backend = "POSTGRESQL" PROVE Largest(Rows) \in Nat
    OBVIOUS
  <2>1. serial \in Nat /\ Rows \in SUBSET (1 .. serial)
    BY DEF Numbering, Types, Rowed, PathTypeOK
  <2> QED
    BY <2>1, LargestExists
<1>3. /\ LoadSequenceNumber \in Nat
      /\ backend = "LMDB" => LoadSequenceNumber = Cardinality(Rows)
      /\ backend \notin {"LMDB", "POSTGRESQL"} => LoadSequenceNumber = 0
  BY <1>1, <1>2 DEF LoadSequenceNumber
<1> QED
  BY <1>3, ConstructedCases

LEMMA NumberingInit == PathInit => Numbering
<1> SUFFICES ASSUME PathInit PROVE Numbering
  OBVIOUS
<1>1. Rows = {} /\ IsFiniteSet(Rows) /\ Cardinality(Rows) = 0 /\ Largest(Rows) = 0 /\ Rows = 1 .. 0
  BY EmptyRows DEF PathInit, StoreInit, Rows
<1>2. PICK new \in Constructed : store_sequence_number = new.number /\ storing = new.storing
  BY DEF PathInit, StoreInit
<1>3. store_sequence_number = 0 /\ storing \in BOOLEAN
  BY <1>1, <1>2, ConstructedCases DEF LoadSequenceNumber
<1>4. /\ serial = 0 /\ writing = <<>> /\ store_message_envelope_queue = <<>>
      /\ backend \in Backends /\ intact = storing
  BY DEF PathInit, StoreInit
<1>5. Types
  BY <1>1, <1>3, <1>4
     DEF Types, PathTypeOK, PathInit, PublisherInit, EmptyQueues, AllUnbound, StartNumbers,
         NoEnvelope, PubPoints, RepPoints
<1>6. \A p \in Publishers : pub_pc[p] # "store"
  BY DEF PathInit, PublisherInit
<1> QED
  BY <1>1, <1>3, <1>4, <1>5, <1>6 DEF Numbering, Rowed, Queueing, Counting

-----------------------------------------------------------------------------
(* The publishers' steps *)

\* A step of a publisher that does not store leaves the storage as it is.
LEMMA PublisherOnly ==
    ASSUME Numbering, UNCHANGED <<storeVars, intact>>, Types',
           \A p \in Publishers : pub_pc'[p] = "store" => UseStorage \/ pub_pc[p] = "store"
    PROVE  Numbering'
<1>1. /\ UNCHANGED <<backend, store_sequence_number, store_message_envelope_queue, writing>>
      /\ UNCHANGED <<db, serial, intact>>
  BY DEF storeVars, objectVars, storeThreadVars, tableVars
<1>2. Rows' = Rows
  BY <1>1 DEF Rows
<1>3. Rowed'
  BY <1>1, <1>2 DEF Numbering, Rowed, UseStorage
<1>4. Queueing' /\ Counting'
  BY <1>1, <1>2 DEF Numbering, Queueing, Counting
<1> QED
  BY <1>3, <1>4 DEF Numbering

\* What the steps of a publisher that leave the storage alone keep of the types.
LEMMA PublisherTypes ==
    ASSUME Types, UNCHANGED <<storeVars, intact, rep_pc>>,
           published' \in SUBSET Ids, sent' \in SUBSET Stored,
           pub_pc' \in [Publishers -> PubPoints],
           incoming_message_envelope_queue' \in [Publishers -> Seq(Stored)],
           pub_sequence_number' \in [Publishers -> Nat],
           msg_envelope' \in [Publishers -> Stored \cup {NoEnvelope}],
           \A p \in Publishers : pub_pc'[p] # "take" => msg_envelope'[p] \in Stored,
           isPubBinded' \in [Publishers -> BOOLEAN], isRepBinded' \in [Publishers -> BOOLEAN],
           pub_owner' \in Publishers \cup {NoPublisher},
           rep_owner' \in Publishers \cup {NoPublisher}
    PROVE  Types'
<1>1. /\ UNCHANGED <<backend, store_sequence_number, store_message_envelope_queue, storing>>
      /\ UNCHANGED <<writing, db, serial, intact, rep_pc>>
  BY DEF storeVars, objectVars, storeThreadVars, tableVars
<1>2. Rows' = Rows
  BY <1>1 DEF Rows
<1>3. PathTypeOK'
  BY <1>1, <1>2 DEF Types, PathTypeOK, Stored
<1> QED
  BY <1>1, <1>3 DEF Types

LEMMA StepPublish ==
    ASSUME Numbering, NEW p \in Publishers, NEW id \in Ids, NEW topic \in Topics,
           Publish(p, id, topic), UNCHANGED intact
    PROVE  Numbering'
<1> DEFINE envelope == [id |-> id, topic |-> topic, sequence_number |-> 0]
<1>1. envelope \in Stored
  BY DEF Stored
<1>2. /\ UNCHANGED <<storeVars, pub_sequence_number, pub_pc, msg_envelope, isPubBinded>>
      /\ UNCHANGED <<isRepBinded, pub_owner, rep_owner, rep_pc, sent>>
      /\ published' = published \cup {id}
      /\ incoming_message_envelope_queue' =
           [incoming_message_envelope_queue EXCEPT
              ![p] = Append(incoming_message_envelope_queue[p], envelope)]
  BY DEF Publish, bindVars
<1> HIDE DEF envelope
<1>3. Append(incoming_message_envelope_queue[p], envelope) \in Seq(Stored)
  BY <1>1 DEF Numbering, Types
<1>4. incoming_message_envelope_queue' \in [Publishers -> Seq(Stored)]
  BY <1>2, <1>3 DEF Numbering, Types
<1>5. Types'
  BY <1>2, <1>4, PublisherTypes DEF Numbering, Types, PathTypeOK, Stored
<1> QED
  BY <1>2, <1>5, PublisherOnly

LEMMA StepTakeMessage ==
    ASSUME Numbering, NEW p \in Publishers, TakeMessage(p), UNCHANGED intact
    PROVE  Numbering'
<1> DEFINE queue == incoming_message_envelope_queue[p]
           envelope == [Head(queue) EXCEPT !.sequence_number = NextNumber(p)]
<1>1. /\ pub_pc[p] = "take" /\ queue # <<>>
      /\ UNCHANGED <<storeVars, isPubBinded, isRepBinded, pub_owner, rep_owner>>
      /\ UNCHANGED <<rep_pc, published, sent>>
      /\ incoming_message_envelope_queue' =
           [incoming_message_envelope_queue EXCEPT ![p] = Tail(queue)]
      /\ pub_sequence_number' = [pub_sequence_number EXCEPT ![p] = pub_sequence_number[p] + 1]
      /\ msg_envelope' = [msg_envelope EXCEPT ![p] = envelope]
      /\ pub_pc' = [pub_pc EXCEPT ![p] = AfterNumbering]
  BY DEF TakeMessage, bindVars
<1>2. queue \in Seq(Stored)
  BY DEF Numbering, Types
<1>3. Head(queue) \in Stored /\ Tail(queue) \in Seq(Stored)
  <2> HIDE DEF queue
  <2> QED
    BY <1>1, <1>2
<1>4. NextNumber(p) \in Nat
  BY DEF NextNumber, Numbering, Types, PathTypeOK
<1>5. envelope \in Stored
  <2> HIDE DEF queue
  <2> QED
    BY <1>3, <1>4 DEF Stored
<1> HIDE DEF queue, envelope
<1>6. AfterNumbering \in {"store", "send"} /\ (AfterNumbering = "store" => UseStorage)
  BY DEF AfterNumbering
<1>7. Types'
  <2>1. incoming_message_envelope_queue' \in [Publishers -> Seq(Stored)]
    BY <1>1, <1>3 DEF Numbering, Types
  <2>2. /\ msg_envelope' \in [Publishers -> Stored \cup {NoEnvelope}]
        /\ \A q \in Publishers : pub_pc'[q] # "take" => msg_envelope'[q] \in Stored
    BY <1>1, <1>5 DEF Numbering, Types, PathTypeOK
  <2>3. /\ pub_sequence_number' \in [Publishers -> Nat]
        /\ pub_pc' \in [Publishers -> PubPoints]
    BY <1>1, <1>6 DEF Numbering, Types, PathTypeOK, PubPoints
  <2> QED
    BY <1>1, <2>1, <2>2, <2>3, PublisherTypes DEF Numbering, Types, PathTypeOK, Stored
<1>8. \A q \in Publishers : pub_pc'[q] = "store" => UseStorage \/ pub_pc[q] = "store"
  BY <1>1, <1>6 DEF Numbering, Types, PathTypeOK
<1> QED
  BY <1>1, <1>7, <1>8, PublisherOnly

LEMMA StepSend ==
    ASSUME Numbering, NEW p \in Publishers, SendMessage(p) \/ SendError(p), UNCHANGED intact
    PROVE  Numbering'
<1>1. /\ pub_pc[p] = "send"
      /\ UNCHANGED <<storeVars, incoming_message_envelope_queue, pub_sequence_number>>
      /\ UNCHANGED <<isRepBinded, pub_owner, rep_owner, rep_pc, published>>
      /\ sent' \in {sent, sent \cup {msg_envelope[p]}}
      /\ isPubBinded' \in {isPubBinded, [isPubBinded EXCEPT ![p] = FALSE]}
      /\ msg_envelope' = [msg_envelope EXCEPT ![p] = NoEnvelope]
      /\ pub_pc' = [pub_pc EXCEPT ![p] = "take"]
  BY DEF SendMessage, SendError, bindVars
<1>2. msg_envelope[p] \in Stored
  BY <1>1 DEF Numbering, Types
<1>3. sent' \in SUBSET Stored
  BY <1>1, <1>2 DEF Numbering, Types, PathTypeOK, Stored
<1>4. isPubBinded' \in [Publishers -> BOOLEAN]
  BY <1>1 DEF Numbering, Types
<1>5. /\ msg_envelope' \in [Publishers -> Stored \cup {NoEnvelope}]
      /\ pub_pc' \in [Publishers -> PubPoints]
      /\ \A q \in Publishers : pub_pc'[q] # "take" => msg_envelope'[q] \in Stored
  BY <1>1 DEF Numbering, Types, PathTypeOK, PubPoints
<1>6. Types'
  BY <1>1, <1>3, <1>4, <1>5, PublisherTypes DEF Numbering, Types, PathTypeOK
<1>7. \A q \in Publishers : pub_pc'[q] = "store" => pub_pc[q] = "store"
  BY <1>1 DEF Numbering, Types, PathTypeOK
<1> QED
  BY <1>1, <1>6, <1>7, PublisherOnly

LEMMA StepBind ==
    ASSUME Numbering, NEW p \in Publishers, BindPub(p) \/ BindRep(p), UNCHANGED intact
    PROVE  Numbering'
<1>1. /\ UNCHANGED <<storeVars, incoming_message_envelope_queue, pub_sequence_number>>
      /\ UNCHANGED <<pub_pc, msg_envelope, rep_pc, published, sent>>
      /\ pub_owner' \in {pub_owner, p} /\ rep_owner' \in {rep_owner, p}
      /\ isPubBinded' \in {isPubBinded, [isPubBinded EXCEPT ![p] = TRUE]}
      /\ isRepBinded' \in {isRepBinded, [isRepBinded EXCEPT ![p] = TRUE]}
  BY DEF BindPub, BindRep, pubThreadVars
<1>2. isPubBinded' \in [Publishers -> BOOLEAN] /\ isRepBinded' \in [Publishers -> BOOLEAN]
  BY <1>1 DEF Numbering, Types
<1>3. Types'
  BY <1>1, <1>2, PublisherTypes DEF Numbering, Types, PathTypeOK, Stored
<1> QED
  BY <1>1, <1>3, PublisherOnly

-----------------------------------------------------------------------------
(* The storage's steps *)

LEMMA QueuedIsStored ==
    ASSUME Types, NEW envelope \in Stored
    PROVE  /\ Queued(envelope) \in Stored
           /\ Queued(envelope).id = envelope.id
           /\ backend = "LMDB" => Queued(envelope).sequence_number = store_sequence_number + 1
<1>1. store_sequence_number \in Nat
  BY DEF Types, PathTypeOK
<1> QED
  BY <1>1 DEF Queued, Stored

LEMMA StepStoreMessage ==
    ASSUME Numbering, NEW p \in Publishers, StoreMessage(p), UNCHANGED intact
    PROVE  Numbering'
<1> DEFINE envelope == Queued(msg_envelope[p])
           queue == store_message_envelope_queue
<1>1. /\ pub_pc[p] = "store"
      /\ store_sequence_number' = store_sequence_number + 1
      /\ store_message_envelope_queue' = Append(queue, envelope)
      /\ UNCHANGED <<backend, storing, writing, db, serial, intact>>
      /\ pub_pc' = [pub_pc EXCEPT ![p] = "send"]
      /\ UNCHANGED <<incoming_message_envelope_queue, pub_sequence_number, msg_envelope>>
      /\ UNCHANGED <<isPubBinded, isRepBinded, pub_owner, rep_owner, rep_pc, published, sent>>
  BY DEF StoreMessage, StoreMessageEnvelope, CountStored, objectVars, tableVars, bindVars
<1>2. Rows' = Rows
  BY <1>1 DEF Rows
<1>3. msg_envelope[p] \in Stored
  BY <1>1 DEF Numbering, Types
<1>4. envelope \in Stored /\ (backend = "LMDB" => envelope.sequence_number = store_sequence_number + 1)
  BY <1>3, QueuedIsStored DEF Numbering
<1>5. queue \in Seq(Stored) /\ store_sequence_number \in Nat
  BY DEF Numbering, Types, PathTypeOK, Stored
<1> HIDE DEF envelope
<1>6. /\ Append(queue, envelope) \in Seq(Stored)
      /\ Len(Append(queue, envelope)) = Len(queue) + 1
      /\ \A i \in DOMAIN Append(queue, envelope) :
             \/ i \in DOMAIN queue /\ Append(queue, envelope)[i] = queue[i]
             \/ i = Len(queue) + 1 /\ Append(queue, envelope)[i] = envelope
  BY <1>4, <1>5
<1>7. Types'
  <2>1. PathTypeOK'
    <3>1. pub_pc' \in [Publishers -> PubPoints] /\ store_sequence_number' \in Nat
      BY <1>1, <1>5 DEF Numbering, Types, PathTypeOK, PubPoints
    <3>2. store_message_envelope_queue' \in Seq([id : Ids, topic : Topics, sequence_number : Nat])
      BY <1>1, <1>6 DEF Stored
    <3> QED
      BY <1>1, <1>2, <3>1, <3>2 DEF Numbering, Types, PathTypeOK
  <2>2. \A q \in Publishers : pub_pc'[q] # "take" => msg_envelope'[q] \in Stored
    BY <1>1, <1>3 DEF Numbering, Types, PathTypeOK
  <2> QED
    BY <1>1, <2>1, <2>2 DEF Numbering, Types
<1>8. Cardinality(Rows) \in Nat /\ Len(writing) \in Nat
  BY FS_CardinalityType DEF Numbering, Rowed, Types
<1>9. Rowed'
  BY <1>1, <1>2 DEF Numbering, Rowed, Types, PathTypeOK
<1>10. Counting'
  <2>1. Len(store_message_envelope_queue') = Len(queue) + 1 /\ Len(queue) \in Nat
    BY <1>1, <1>5, <1>6
  <2> HIDE DEF queue
  <2>2. intact \/ backend # "POSTGRESQL" =>
            store_sequence_number = Cardinality(Rows) + Len(writing) + Len(queue)
    BY DEF Numbering, Counting, queue
  <2> QED
    BY <1>1, <1>2, <1>5, <1>8, <2>1, <2>2 DEF Numbering, Counting
<1>11. Queueing'
  <2> SUFFICES ASSUME backend = "LMDB" PROVE Queueing'
    BY <1>1 DEF Queueing
  <2>1. envelope.sequence_number = Cardinality(Rows) + Len(writing) + (Len(queue) + 1)
    BY <1>4, <1>5, <1>8 DEF Numbering, Counting
  <2>2. \A i \in DOMAIN queue : queue[i].sequence_number = Cardinality(Rows) + Len(writing) + i
    BY DEF Numbering, Queueing
  <2>3. \A i \in DOMAIN Append(queue, envelope) :
            Append(queue, envelope)[i].sequence_number = Cardinality(Rows) + Len(writing) + i
    BY <1>6, <2>1, <2>2
  <2> QED
    BY <1>1, <1>2, <2>3 DEF Numbering, Queueing
<1> QED
  BY <1>7, <1>9, <1>10, <1>11 DEF Numbering

\* What the storage's own steps keep of the types.
LEMMA StorageTypes ==
    ASSUME Types, UNCHANGED <<pubVars, storing, backend>>, intact' \in BOOLEAN,
           store_sequence_number' \in Nat, serial' \in Nat,
           store_message_envelope_queue' \in Seq(Stored),
           writing' \in Seq(Stored), Len(writing') <= 1,
           Rows' \in SUBSET (Nat \ {0}), \A k \in Rows' : db'[k] \in Stored
    PROVE  Types'
  BY DEF Types, PathTypeOK, Stored, pubVars, pubThreadVars, bindVars

LEMMA StepPopStored ==
    ASSUME Numbering, PopStored, UNCHANGED <<pubVars, intact>>
    PROVE  Numbering'
<1> DEFINE queue == store_message_envelope_queue
<1>1. /\ queue # <<>> /\ writing = <<>>
      /\ writing' = <<Head(queue)>>
      /\ store_message_envelope_queue' = Tail(queue)
      /\ UNCHANGED <<store_sequence_number, backend, storing, db, serial, intact>>
      /\ UNCHANGED pubVars
  BY DEF PopStored, ThreadFree, objectVars, tableVars
<1>2. Rows' = Rows
  BY <1>1 DEF Rows
<1>3. queue \in Seq(Stored) /\ Len(queue) \in Nat \ {0}
  BY <1>1 DEF Numbering, Types, PathTypeOK, Stored
<1>4. /\ Head(queue) \in Stored /\ Head(queue) = queue[1] /\ 1 \in DOMAIN queue
      /\ Tail(queue) \in Seq(Stored) /\ Len(Tail(queue)) = Len(queue) - 1
      /\ \A i \in DOMAIN Tail(queue) : i + 1 \in DOMAIN queue /\ Tail(queue)[i] = queue[i + 1]
  <2> HIDE DEF queue
  <2> QED
    BY <1>1, <1>3
<1> HIDE DEF queue
<1>5. writing' \in Seq(Stored) /\ Len(writing') = 1 /\ writing'[1] = queue[1] /\ Len(writing) = 0
  BY <1>1, <1>4
<1>6. Types'
  <2>1. store_sequence_number' \in Nat /\ serial' \in Nat /\ intact' \in BOOLEAN
    BY <1>1 DEF Numbering, Types, PathTypeOK
  <2>2. Rows' \in SUBSET (Nat \ {0}) /\ \A k \in Rows' : db'[k] \in Stored
    BY <1>1, <1>2 DEF Numbering, Types, PathTypeOK, Stored
  <2> QED
    BY <1>1, <1>4, <1>5, <2>1, <2>2, StorageTypes DEF Numbering
<1>7. backend # "none"
  BY <1>1 DEF Numbering, Rowed, queue
<1>8. Rowed'
  BY <1>1, <1>2, <1>7 DEF Numbering, Rowed
<1>9. Cardinality(Rows) \in Nat
  BY FS_CardinalityType DEF Numbering, Rowed
<1>10. Counting'
  BY <1>1, <1>2, <1>3, <1>4, <1>5, <1>9 DEF Numbering, Counting, queue
<1>11. Queueing'
  <2> SUFFICES ASSUME backend = "LMDB" PROVE Queueing'
    BY <1>1 DEF Queueing
  <2>1. \A i \in DOMAIN queue : queue[i].sequence_number = Cardinality(Rows) + i
    BY <1>5, <1>9 DEF Numbering, Queueing, queue
  <2>2. writing'[1].sequence_number = Cardinality(Rows) + 1
    BY <1>4, <1>5, <2>1
  <2>3. \A i \in DOMAIN Tail(queue) :
            Tail(queue)[i].sequence_number = Cardinality(Rows) + 1 + i
    BY <1>3, <1>4, <1>9, <2>1
  <2> QED
    BY <1>1, <1>2, <1>5, <2>2, <2>3 DEF Queueing
<1> QED
  BY <1>6, <1>8, <1>10, <1>11 DEF Numbering

\* The row the thread writes, and under which number.
Written == IF backend = "POSTGRESQL" THEN [writing[1] EXCEPT !.sequence_number = NewKey]
                                     ELSE writing[1]

\* A row is written under a number no row has: the next one.
LEMMA NewRow ==
    ASSUME Numbering, WriteRow
    PROVE  /\ writing # <<>> /\ Len(writing) = 1 /\ writing' = <<>>
           /\ UNCHANGED <<store_sequence_number, backend, storing, store_message_envelope_queue>>
           /\ backend \in {"POSTGRESQL", "LMDB", "NULL_DB"}
           /\ Cardinality(Rows) \in Nat /\ NewKey \in Nat \ {0} /\ NewKey \notin Rows
           /\ serial' = IF backend = "POSTGRESQL" THEN NewKey ELSE serial
           /\ Written \in Stored /\ Written.id = writing[1].id
           /\ Rows' = Rows \cup {NewKey}
           /\ db'[NewKey] = Written
           /\ \A k \in Rows : db'[k] = db[k]
           /\ IsFiniteSet(Rows') /\ Cardinality(Rows') = Cardinality(Rows) + 1
<1>1. /\ writing # <<>> /\ writing' = <<>>
      /\ UNCHANGED <<store_sequence_number, backend, storing, store_message_envelope_queue>>
      /\ backend \in {"POSTGRESQL", "LMDB", "NULL_DB"}
  BY DEF WriteRow, objectVars
<1>2. /\ serial \in Nat /\ writing \in Seq(Stored) /\ Len(writing) <= 1
      /\ IsFiniteSet(Rows) /\ Cardinality(Rows) \in Nat
  BY FS_CardinalityType DEF Numbering, Types, PathTypeOK, Rowed
<1>3. Len(writing) = 1 /\ writing[1] \in Stored
  BY <1>1, <1>2, OnlyElement
<1>4. NewKey \in Nat \ {0}
  BY <1>2 DEF NewKey
<1>5. NewKey \notin Rows
  <2>1. CASE backend = "POSTGRESQL"
    <3>1. Rows \subseteq 1 .. serial /\ NewKey = serial + 1
      BY <2>1 DEF Numbering, Rowed, NewKey
    <3> QED
      BY <1>2, <3>1
  <2>2. CASE backend # "POSTGRESQL"
    <3>1. Rows = 1 .. Cardinality(Rows) /\ NewKey = Cardinality(Rows) + 1
      BY <2>2 DEF Numbering, Rowed, NewKey
    <3>2. NewKey \notin 1 .. Cardinality(Rows)
      BY <1>2, <3>1
    <3> QED
      BY <3>1, <3>2
  <2> QED
    BY <2>1, <2>2
<1>6. Written \in Stored /\ Written.id = writing[1].id
  BY <1>3, <1>4 DEF Written, Stored
<1>7. /\ db' = Put(db, NewKey, Written)
      /\ serial' = IF backend = "POSTGRESQL" THEN NewKey ELSE serial
  <2>1. CASE backend = "POSTGRESQL"
    BY <2>1 DEF WriteRow, NewKey, Written
  <2>2. CASE backend = "LMDB"
    <3>1. writing[1].sequence_number = NewKey
      BY <1>1, <2>2 DEF Numbering, Queueing, NewKey
    <3> QED
      BY <2>2, <3>1 DEF WriteRow, Written
  <2>3. CASE backend = "NULL_DB"
    BY <2>3 DEF WriteRow, NewKey, Written
  <2> QED
    BY <1>1, <2>1, <2>2, <2>3
<1>8. /\ Rows' = Rows \cup {NewKey}
      /\ db'[NewKey] = Written
      /\ \A k \in Rows : db'[k] = db[k]
  <2>1. DOMAIN db' = DOMAIN db \cup {NewKey} /\ db'[NewKey] = Written
    BY <1>7 DEF Put
  <2>2. \A k \in DOMAIN db : k # NewKey => db'[k] = db[k]
    BY <1>7 DEF Put
  <2> QED
    BY <1>5, <2>1, <2>2 DEF Rows
<1>9. IsFiniteSet(Rows') /\ Cardinality(Rows') = Cardinality(Rows) + 1
  BY <1>2, <1>5, <1>8, OneMoreRow
<1> QED
  BY <1>1, <1>2, <1>3, <1>4, <1>5, <1>6, <1>7, <1>8, <1>9

LEMMA StepWriteRow ==
    ASSUME Numbering, WriteRow, UNCHANGED <<pubVars, intact>>
    PROVE  Numbering'
<1> DEFINE queue == store_message_envelope_queue
<1>1. /\ writing # <<>> /\ Len(writing) = 1 /\ writing' = <<>>
      /\ UNCHANGED <<store_sequence_number, backend, storing, store_message_envelope_queue>>
      /\ backend \in {"POSTGRESQL", "LMDB", "NULL_DB"}
      /\ Cardinality(Rows) \in Nat /\ NewKey \in Nat \ {0}
      /\ serial' = IF backend = "POSTGRESQL" THEN NewKey ELSE serial
      /\ Written \in Stored
      /\ Rows' = Rows \cup {NewKey}
      /\ db'[NewKey] = Written
      /\ \A k \in Rows : db'[k] = db[k]
      /\ IsFiniteSet(Rows') /\ Cardinality(Rows') = Cardinality(Rows) + 1
  BY NewRow
<1>2. queue \in Seq(Stored) /\ store_sequence_number \in Nat /\ Len(queue) \in Nat
  BY DEF Numbering, Types, PathTypeOK, Stored
<1>3. Len(writing') = 0 /\ writing' \in Seq(Stored)
  BY <1>1
<1>4. Types'
  <2>1. store_sequence_number' \in Nat /\ serial' \in Nat /\ intact' \in BOOLEAN
    BY <1>1 DEF Numbering, Types, PathTypeOK
  <2>2. Rows' \in SUBSET (Nat \ {0}) /\ \A k \in Rows' : db'[k] \in Stored
    BY <1>1 DEF Numbering, Types, PathTypeOK, Stored
  <2> QED
    BY <1>1, <1>2, <1>3, <2>1, <2>2, StorageTypes DEF Numbering
<1>5. \* Where the database numbers the rows.
      ASSUME backend = "POSTGRESQL"
      PROVE  /\ Rows' \subseteq 1 .. serial'
             /\ intact => Rows' = 1 .. serial'
  <2>1. serial \in Nat /\ serial' = serial + 1 /\ NewKey = serial + 1
    BY <1>1, <1>5 DEF NewKey, Numbering, Types, PathTypeOK
  <2>2. Rows \subseteq 1 .. serial /\ (intact => Rows = 1 .. serial)
    BY <1>5 DEF Numbering, Rowed, Counting
  <2>3. 1 .. serial' = (1 .. serial) \cup {NewKey}
    BY <2>1
  <2> QED
    BY <1>1, <2>2, <2>3
<1>6. \* Where the object does.
      ASSUME backend # "POSTGRESQL"
      PROVE  serial' = 0 /\ Rows' = 1 .. Cardinality(Rows')
  <2>1. /\ serial = 0 /\ Rows = 1 .. Cardinality(Rows)
        /\ NewKey = Cardinality(Rows) + 1
    BY <1>6 DEF NewKey, Numbering, Rowed
  <2>2. 1 .. Cardinality(Rows) + 1 = (1 .. Cardinality(Rows)) \cup {NewKey}
    BY <1>1, <2>1
  <2> QED
    BY <1>1, <1>6, <2>1, <2>2
<1>7. Rowed'
  BY <1>1, <1>5, <1>6 DEF Rowed
<1>8. Counting'
  <2>1. intact \/ backend # "POSTGRESQL" =>
            store_sequence_number = Cardinality(Rows) + 1 + Len(queue)
    BY <1>1 DEF Numbering, Counting
  <2> HIDE DEF queue
  <2>2. intact \/ backend # "POSTGRESQL" =>
            store_sequence_number = Cardinality(Rows') + Len(writing') + Len(queue)
    BY <1>1, <1>2, <1>3, <2>1
  <2> QED
    BY <1>1, <1>5, <2>2 DEF Counting, queue
<1>9. Queueing'
  <2> SUFFICES ASSUME backend = "LMDB" PROVE Queueing'
    BY <1>1 DEF Queueing
  <2>1. \A i \in DOMAIN queue : queue[i].sequence_number = Cardinality(Rows) + 1 + i
    BY <1>1 DEF Numbering, Queueing
  <2>2. Cardinality(Rows') + Len(writing') = Cardinality(Rows) + 1
    BY <1>1, <1>3
  <2> QED
    BY <1>1, <2>1, <2>2 DEF Queueing
<1> QED
  BY <1>4, <1>7, <1>8, <1>9 DEF Numbering

LEMMA StepInsertFails ==
    ASSUME Numbering, InsertFails, ~ intact', UNCHANGED pubVars, intact' \in BOOLEAN
    PROVE  Numbering'
<1>1. /\ backend = "POSTGRESQL" /\ writing' = <<>>
      /\ serial' \in {serial, serial + 1}
      /\ UNCHANGED <<store_sequence_number, backend, storing, store_message_envelope_queue, db>>
  BY DEF InsertFails, objectVars
<1>2. Rows' = Rows
  BY <1>1 DEF Rows
<1>3. serial \in Nat /\ Rows \subseteq 1 .. serial /\ IsFiniteSet(Rows)
  BY <1>1 DEF Numbering, Types, PathTypeOK, Rowed
<1>4. serial' \in Nat /\ 1 .. serial \subseteq 1 .. serial'
  BY <1>1, <1>3
<1>5. Types'
  <2>1. Len(writing') <= 1 /\ writing' \in Seq(Stored)
    BY <1>1
  <2>2. store_sequence_number' \in Nat /\ store_message_envelope_queue' \in Seq(Stored)
    BY <1>1 DEF Numbering, Types, PathTypeOK, Stored
  <2>3. Rows' \in SUBSET (Nat \ {0}) /\ \A k \in Rows' : db'[k] \in Stored
    BY <1>1, <1>2 DEF Numbering, Types, PathTypeOK, Stored
  <2> QED
    BY <1>1, <1>4, <2>1, <2>2, <2>3, StorageTypes DEF Numbering
<1> QED
  BY <1>1, <1>2, <1>3, <1>4, <1>5 DEF Numbering, Rowed, Queueing, Counting

LEMMA StepCrash ==
    ASSUME Numbering, Crash
    PROVE  Numbering'
<1>1. /\ UNCHANGED backend /\ writing' = <<>> /\ store_message_envelope_queue' = <<>>
      /\ db' = IF backend = "NULL_DB" THEN [k \in {} |-> <<>>] ELSE db
      /\ serial' \in IF backend = "POSTGRESQL" /\ writing # <<>>
                     THEN {serial, serial + 1} ELSE {serial}
      /\ intact' = FALSE
      /\ PublisherRestart
  BY DEF Crash, StoreRestart, StoreRestartAs
<1>2. PICK new \in Constructed : store_sequence_number' = new.number /\ storing' = new.storing
  BY DEF Crash, StoreRestart, StoreRestartAs
<1>3. /\ store_sequence_number' \in Nat /\ storing' \in BOOLEAN
      /\ backend = "LMDB" => store_sequence_number' = Cardinality(Rows)
      /\ backend \notin {"LMDB", "POSTGRESQL"} => store_sequence_number' = 0
  BY <1>2, ConstructedNumber
<1>4. /\ serial \in Nat /\ IsFiniteSet(Rows) /\ Cardinality(Rows) \in Nat
      /\ Rows \in SUBSET (Nat \ {0}) /\ \A k \in Rows : db[k] \in Stored
  <2>1. IsFiniteSet(Rows) /\ Cardinality(Rows) \in Nat
    BY FS_CardinalityType DEF Numbering, Rowed
  <2> QED
    BY <2>1 DEF Numbering, Types, PathTypeOK, Stored
<1>5. Rows' = IF backend = "NULL_DB" THEN {} ELSE Rows
  BY <1>1 DEF Rows
<1>6. Rows' \in SUBSET (Nat \ {0}) /\ \A k \in Rows' : db'[k] \in Stored
  BY <1>1, <1>4, <1>5
<1>7. IsFiniteSet(Rows') /\ Cardinality(Rows') = IF backend = "NULL_DB" THEN 0 ELSE Cardinality(Rows)
  BY <1>4, <1>5, FS_EmptySet
<1>8. serial' \in Nat /\ 1 .. serial \subseteq 1 .. serial'
  BY <1>1, <1>4
<1>9. Types'
  <2>1. PathTypeOK'
    <3>1. /\ store_message_envelope_queue' \in Seq([id : Ids, topic : Topics, sequence_number : Nat])
          /\ Len(writing') <= 1
      BY <1>1
    <3>2. /\ pub_pc' \in [Publishers -> PubPoints] /\ rep_pc' \in RepPoints
          /\ pub_owner' \in Publishers \cup {NoPublisher}
          /\ rep_owner' \in Publishers \cup {NoPublisher}
          /\ UNCHANGED <<published, sent>>
      BY <1>1 DEF PublisherRestart, PubPoints, RepPoints
    <3>3. intact' \in BOOLEAN
      BY <1>1
    <3> QED
      BY <1>3, <1>6, <1>8, <3>1, <3>2, <3>3 DEF Numbering, Types, PathTypeOK, Stored
  <2>2. pub_sequence_number' \in [Publishers -> Nat]
    BY <1>1, <1>3 DEF PublisherRestart, StartNumbers
  <2> QED
    BY <1>1, <2>1, <2>2
       DEF Numbering, Types, PublisherRestart, EmptyQueues, AllUnbound, NoEnvelope
<1>10. Rowed'
  <2>1. backend = "POSTGRESQL" => Rows' \subseteq 1 .. serial'
    BY <1>5, <1>8 DEF Numbering, Rowed
  <2>2. backend # "POSTGRESQL" => serial' = 0 /\ Rows' = 1 .. Cardinality(Rows')
    <3>1. backend # "POSTGRESQL" => serial' = serial /\ serial = 0 /\ Rows = 1 .. Cardinality(Rows)
      BY <1>1 DEF Numbering, Rowed
    <3>2. 1 .. 0 = {}
      OBVIOUS
    <3> QED
      BY <1>5, <1>7, <3>1, <3>2
  <2>3. backend = "none" => Rows' = {} /\ \A p \in Publishers : pub_pc'[p] # "store"
    BY <1>1, <1>5 DEF Numbering, Rowed, PublisherRestart
  <2> QED
    BY <1>1, <1>7, <2>1, <2>2, <2>3 DEF Rowed
<1>11. Queueing' /\ Counting'
  <2>1. backend # "POSTGRESQL" => store_sequence_number' = Cardinality(Rows')
    <3>1. backend = "none" \/ backend \in {"POSTGRESQL", "LMDB", "NULL_DB"}
      BY StorageAssumption DEF Numbering, Types
    <3>2. backend = "none" => Cardinality(Rows) = 0
      BY FS_EmptySet DEF Numbering, Rowed
    <3> QED
      BY <1>3, <1>7, <3>1, <3>2
  <2>2. Cardinality(Rows') \in Nat
    BY <1>4, <1>7
  <2>3. Len(<<>>) = 0 /\ DOMAIN <<>> = {}
    OBVIOUS
  <2> QED
    BY <1>1, <2>1, <2>2, <2>3 DEF Queueing, Counting
<1> QED
  BY <1>9, <1>10, <1>11 DEF Numbering

LEMMA NumberingStutters ==
    ASSUME Numbering, UNCHANGED pathVars
    PROVE  Numbering'
<1>1. /\ UNCHANGED <<backend, store_sequence_number, store_message_envelope_queue, storing>>
      /\ UNCHANGED <<writing, db, serial, intact, pubVars>>
      /\ UNCHANGED <<incoming_message_envelope_queue, pub_sequence_number, pub_pc, msg_envelope>>
      /\ UNCHANGED <<isPubBinded, isRepBinded, pub_owner, rep_owner, rep_pc, published, sent>>
  BY DEF pathVars, storeVars, objectVars, storeThreadVars, tableVars, pubVars, pubThreadVars, bindVars
<1>2. Rows' = Rows
  BY <1>1 DEF Rows
<1> QED
  BY <1>1, <1>2 DEF Numbering, Types, PathTypeOK, Rowed, Queueing, Counting

LEMMA NumberingNext == Numbering /\ [PathNext]_pathVars => Numbering'
<1> SUFFICES ASSUME Numbering, [PathNext]_pathVars PROVE Numbering'
  OBVIOUS
<1>1. CASE UNCHANGED pathVars
  BY <1>1, NumberingStutters
<1>2. ASSUME NEW p \in Publishers, NEW id \in Ids, NEW topic \in Topics,
             Publish(p, id, topic), UNCHANGED intact
      PROVE  Numbering'
  BY <1>2, StepPublish
<1>3. ASSUME NEW p \in Publishers, PublisherStep(p), UNCHANGED intact
      PROVE  Numbering'
  BY <1>3, StepTakeMessage, StepStoreMessage, StepSend, StepBind DEF PublisherStep
<1>4. CASE PopStored /\ UNCHANGED <<pubVars, intact>>
  BY <1>4, StepPopStored
<1>5. CASE WriteRow /\ UNCHANGED <<pubVars, intact>>
  BY <1>5, StepWriteRow
<1>6. CASE InsertFails /\ intact' = FALSE /\ UNCHANGED pubVars
  BY <1>6, StepInsertFails
<1>7. CASE Crash
  BY <1>7, StepCrash
<1> QED
  BY <1>1, <1>2, <1>3, <1>4, <1>5, <1>6, <1>7 DEF PathNext

LEMMA NumberingHolds == PathSpec => []Numbering
<1> QED
  BY NumberingInit, NumberingNext, PTL DEF PathSpec

\* The variables of the publishers, their storage and the table keep their types.
THEOREM PublishPathTypes == PathSpec => []PathTypeOK
<1>1. Numbering => PathTypeOK
  BY DEF Numbering, Types
<1> QED
  BY <1>1, NumberingHolds, PTL

\* However many publishers store at once, the storage's count is its rows and what is
\* on the way to them, so it is the number of the last message (store_message_envelope
\* and thread_fn of the three backends).
THEOREM CountIsTheLastNumber == PathSpec => []CountIsRowsAndQueue
<1>1. Numbering => CountIsRowsAndQueue
  BY DEF Numbering, Counting, CountIsRowsAndQueue
<1> QED
  BY <1>1, NumberingHolds, PTL

\* Over failures and restarts the rows are numbered from 1 without a hole, unless the
\* serial of the database has run ahead of its rows (load_sequence_number and the two
\* ways a row gets its number).
THEOREM NumbersHaveNoHole == PathSpec => []RowsHaveNoHole
<1>1. Numbering => RowsHaveNoHole
  <2> SUFFICES ASSUME Numbering, serial \in {0, Cardinality(Rows)}
               PROVE  Rows = 1 .. Cardinality(Rows)
    BY DEF RowsHaveNoHole
  <2>1. serial \in Nat /\ IsFiniteSet(Rows) /\ Cardinality(Rows) \in Nat
    BY FS_CardinalityType DEF Numbering, Types, PathTypeOK, Rowed
  <2>2. CASE backend # "POSTGRESQL"
    BY <2>2 DEF Numbering, Rowed
  <2>3. CASE backend = "POSTGRESQL" /\ serial = 0
    <3>1. Rows = {}
      BY <2>3 DEF Numbering, Rowed
    <3>2. 1 .. 0 = {}
      OBVIOUS
    <3> QED
      BY <3>1, <3>2, FS_EmptySet
  <2>4. CASE backend = "POSTGRESQL" /\ serial = Cardinality(Rows)
    <3>1. Rows \subseteq 1 .. serial
      BY <2>4 DEF Numbering, Rowed
    <3>2. IsFiniteSet(1 .. serial) /\ Cardinality(1 .. serial) = serial
      BY <2>1, SegmentSize
    <3>3. Rows = 1 .. serial
      BY <2>4, <3>1, <3>2, FS_Subset
    <3> QED
      BY <2>4, <3>3
  <2> QED
    BY <2>2, <2>3, <2>4
<1> QED
  BY <1>1, NumberingHolds, PTL

\* A row keeps its number and its payload: what is written next, also after a crash,
\* goes to a number no row has (load_sequence_number, putdb and the INSERT).
THEOREM RowsAreNeverOverwritten == PathSpec => RowsAreKept
<1>1. ASSUME Numbering, [PathNext]_pathVars
      PROVE  [backend # "NULL_DB" => \A k \in Rows : k \in Rows' /\ db'[k] = db[k]]_pathVars
  <2>1. CASE WriteRow
    BY <2>1, <1>1, NewRow
  <2>2. CASE Crash
    BY <2>2 DEF Crash, StoreRestart, StoreRestartAs, Rows
  <2>3. CASE UNCHANGED db
    BY <2>3 DEF Rows
  <2>4. WriteRow \/ Crash \/ UNCHANGED db
    BY <1>1 DEF PathNext, pathVars, PublisherStep, Publish, TakeMessage, StoreMessage,
                StoreMessageEnvelope, SendMessage, SendError, BindPub, BindRep, PopStored,
                InsertFails, storeVars, tableVars
  <2> QED
    BY <2>1, <2>2, <2>3, <2>4
<1> QED
  BY <1>1, NumberingHolds, PTL DEF PathSpec, RowsAreKept

-----------------------------------------------------------------------------
(* Where an envelope is, and the number it has or will get there *)

\* The envelope of this payload is, or is on the way to be, row n.
Placed(id, n) ==
    \/ n \in Rows /\ db[n].id = id
    \/ writing # <<>> /\ n = Cardinality(Rows) + 1 /\ writing[1].id = id
    \/ \E i \in DOMAIN store_message_envelope_queue :
           /\ n = Cardinality(Rows) + Len(writing) + i
           /\ store_message_envelope_queue[i].id = id

LEMMA PlacedIsAccepted ==
    ASSUME Numbering, NEW id, NEW n, Placed(id, n)
    PROVE  \E envelope \in Accepted : envelope.id = id
<1>1. CASE n \in Rows /\ db[n].id = id
  BY <1>1 DEF Accepted
<1>2. CASE writing # <<>> /\ writing[1].id = id
  <2>1. writing \in Seq(Stored) /\ Len(writing) <= 1
    BY DEF Numbering, Types, PathTypeOK
  <2>2. Len(writing) = 1
    BY <1>2, <2>1, OnlyElement
  <2>3. 1 \in DOMAIN writing
    BY <2>1, <2>2
  <2> QED
    BY <1>2, <2>3 DEF Accepted
<1>3. CASE \E i \in DOMAIN store_message_envelope_queue :
               store_message_envelope_queue[i].id = id
  BY <1>3 DEF Accepted
<1> QED
  BY <1>1, <1>2, <1>3 DEF Placed

\* Popping and writing an envelope leave it where it is.
LEMMA PlacedPop ==
    ASSUME Numbering, PopStored, NEW id, NEW n
    PROVE  Placed(id, n)' <=> Placed(id, n)
<1> DEFINE queue == store_message_envelope_queue
<1>1. /\ queue # <<>> /\ writing = <<>> /\ UNCHANGED db
      /\ writing' = <<Head(queue)>> /\ store_message_envelope_queue' = Tail(queue)
  BY DEF PopStored, ThreadFree, tableVars
<1>2. Rows' = Rows /\ Cardinality(Rows) \in Nat
  BY <1>1, FS_CardinalityType DEF Rows, Numbering, Rowed
<1>3. queue \in Seq(Stored) /\ Len(queue) \in Nat \ {0}
  BY <1>1 DEF Numbering, Types, PathTypeOK, Stored
<1>4. /\ Head(queue) = queue[1] /\ DOMAIN queue = 1 .. Len(queue)
      /\ DOMAIN Tail(queue) = 1 .. Len(queue) - 1
      /\ \A i \in 1 .. Len(queue) - 1 : Tail(queue)[i] = queue[i + 1]
  <2> HIDE DEF queue
  <2> QED
    BY <1>1, <1>3
<1>5. Len(writing) = 0 /\ Len(writing') = 1 /\ writing'[1] = queue[1] /\ writing' # <<>>
  BY <1>1, <1>4
<1> HIDE DEF queue
<1>6. (\E i \in DOMAIN queue : n = Cardinality(Rows) + i /\ queue[i].id = id)
      <=> \/ n = Cardinality(Rows) + 1 /\ queue[1].id = id
          \/ \E i \in DOMAIN Tail(queue) :
                 n = Cardinality(Rows) + 1 + i /\ Tail(queue)[i].id = id
  <2>1. ASSUME NEW i \in DOMAIN queue, n = Cardinality(Rows) + i, queue[i].id = id, i # 1
        PROVE  \E j \in DOMAIN Tail(queue) :
                   n = Cardinality(Rows) + 1 + j /\ Tail(queue)[j].id = id
    <3>1. i - 1 \in 1 .. Len(queue) - 1 /\ Tail(queue)[i - 1] = queue[i]
      BY <1>3, <1>4, <2>1
    <3> QED
      BY <1>2, <1>3, <1>4, <2>1, <3>1
  <2>2. ASSUME NEW j \in DOMAIN Tail(queue),
               n = Cardinality(Rows) + 1 + j, Tail(queue)[j].id = id
        PROVE  \E i \in DOMAIN queue : n = Cardinality(Rows) + i /\ queue[i].id = id
    <3>1. j + 1 \in DOMAIN queue /\ queue[j + 1] = Tail(queue)[j]
      BY <1>3, <1>4, <2>2
    <3>2. n = Cardinality(Rows) + (j + 1)
      BY <1>2, <1>3, <1>4, <2>2
    <3> QED
      BY <2>2, <3>1, <3>2
  <2>3. 1 \in DOMAIN queue
    BY <1>3, <1>4
  <2> QED
    BY <2>1, <2>2, <2>3
<1>7. Placed(id, n) <=>
          \/ n \in Rows /\ db[n].id = id
          \/ \E i \in DOMAIN queue : n = Cardinality(Rows) + i /\ queue[i].id = id
  BY <1>1, <1>2, <1>5 DEF Placed, queue
<1>8. Placed(id, n)' <=>
          \/ n \in Rows /\ db[n].id = id
          \/ n = Cardinality(Rows) + 1 /\ queue[1].id = id
          \/ \E i \in DOMAIN Tail(queue) :
                 n = Cardinality(Rows) + 1 + i /\ Tail(queue)[i].id = id
  BY <1>1, <1>2, <1>5 DEF Placed
<1> QED
  BY <1>6, <1>7, <1>8

LEMMA PlacedWrite ==
    ASSUME Numbering, WriteRow, intact, NEW id, NEW n
    PROVE  Placed(id, n)' <=> Placed(id, n)
<1> DEFINE queue == store_message_envelope_queue
<1>1. /\ writing # <<>> /\ Len(writing) = 1 /\ writing' = <<>>
      /\ UNCHANGED store_message_envelope_queue
      /\ Cardinality(Rows) \in Nat /\ NewKey \notin Rows
      /\ Written.id = writing[1].id
      /\ Rows' = Rows \cup {NewKey} /\ db'[NewKey] = Written
      /\ \A k \in Rows : db'[k] = db[k]
      /\ Cardinality(Rows') = Cardinality(Rows) + 1
  BY NewRow
<1>2. NewKey = Cardinality(Rows) + 1
  <2>1. CASE backend = "POSTGRESQL"
    <3>1. Rows = 1 .. serial /\ serial \in Nat
      BY <2>1 DEF Numbering, Counting, Types, PathTypeOK
    <3>2. Cardinality(Rows) = serial
      BY <3>1, SegmentSize
    <3> QED
      BY <2>1, <3>2 DEF NewKey
  <2> QED
    BY <2>1 DEF NewKey
<1>3. Len(writing') = 0
  BY <1>1
<1>4. Cardinality(Rows') + Len(writing') = Cardinality(Rows) + Len(writing)
  BY <1>1, <1>3
<1>5. n \in Rows' /\ db'[n].id = id <=>
          \/ n \in Rows /\ db[n].id = id
          \/ n = Cardinality(Rows) + 1 /\ writing[1].id = id
  BY <1>1, <1>2
<1> QED
  BY <1>1, <1>4, <1>5 DEF Placed

\* Storing places an envelope behind all others.
LEMMA PlacedStore ==
    ASSUME Numbering, NEW p \in Publishers, StoreMessage(p), intact, NEW id, NEW n
    PROVE  Placed(id, n)' <=>
               Placed(id, n) \/ (id = msg_envelope[p].id /\ n = store_sequence_number + 1)
<1> DEFINE envelope == Queued(msg_envelope[p])
           queue == store_message_envelope_queue
<1>1. /\ store_message_envelope_queue' = Append(queue, envelope)
      /\ UNCHANGED <<writing, db>> /\ pub_pc[p] = "store"
  BY DEF StoreMessage, StoreMessageEnvelope, tableVars
<1>2. Rows' = Rows /\ Cardinality(Rows) \in Nat /\ Len(writing) \in Nat
  BY <1>1, FS_CardinalityType DEF Rows, Numbering, Rowed, Types
<1>3. msg_envelope[p] \in Stored
  BY <1>1 DEF Numbering, Types
<1>4. envelope \in Stored /\ envelope.id = msg_envelope[p].id
  BY <1>3, QueuedIsStored DEF Numbering
<1>5. queue \in Seq(Stored) /\ store_sequence_number = Cardinality(Rows) + Len(writing) + Len(queue)
  BY DEF Numbering, Types, PathTypeOK, Stored, Counting
<1> HIDE DEF envelope
<1>6. /\ DOMAIN Append(queue, envelope) = (DOMAIN queue) \cup {Len(queue) + 1}
      /\ \A i \in DOMAIN queue : Append(queue, envelope)[i] = queue[i]
      /\ Append(queue, envelope)[Len(queue) + 1] = envelope
      /\ Len(queue) \in Nat
  BY <1>4, <1>5
<1> HIDE DEF queue
<1>7. (\E i \in DOMAIN Append(queue, envelope) :
           /\ n = Cardinality(Rows) + Len(writing) + i
           /\ Append(queue, envelope)[i].id = id)
      <=> \/ \E i \in DOMAIN queue :
                 n = Cardinality(Rows) + Len(writing) + i /\ queue[i].id = id
          \/ n = Cardinality(Rows) + Len(writing) + (Len(queue) + 1) /\ envelope.id = id
  BY <1>6
<1>8. store_sequence_number + 1 = Cardinality(Rows) + Len(writing) + (Len(queue) + 1)
  BY <1>2, <1>5, <1>6
<1>9. Placed(id, n)' <=>
          \/ n \in Rows /\ db[n].id = id
          \/ writing # <<>> /\ n = Cardinality(Rows) + 1 /\ writing[1].id = id
          \/ \E i \in DOMAIN Append(queue, envelope) :
                 /\ n = Cardinality(Rows) + Len(writing) + i
                 /\ Append(queue, envelope)[i].id = id
  BY <1>1, <1>2 DEF Placed
<1>10. Placed(id, n) <=>
          \/ n \in Rows /\ db[n].id = id
          \/ writing # <<>> /\ n = Cardinality(Rows) + 1 /\ writing[1].id = id
          \/ \E i \in DOMAIN queue :
                 n = Cardinality(Rows) + Len(writing) + i /\ queue[i].id = id
  BY DEF Placed, queue
<1> QED
  BY <1>4, <1>7, <1>8, <1>9, <1>10

\* No other step places anything, unless something fails.
LEMMA PlacedElse ==
    ASSUME UNCHANGED <<db, writing, store_message_envelope_queue>>, NEW id, NEW n
    PROVE  Placed(id, n)' <=> Placed(id, n)
  BY DEF Placed, Rows

\* Each step, by what it does to the places of the envelopes.
LEMMA StepKinds ==
    ASSUME Numbering, [PathNext]_pathVars, intact'
    PROVE  /\ intact
           /\ \/ UNCHANGED pathVars
              \/ \E p \in Publishers, id \in Ids, topic \in Topics : Publish(p, id, topic)
              \/ \E p \in Publishers :
                   \/ TakeMessage(p)
                   \/ StoreMessage(p)
                   \/ SendMessage(p) \/ SendError(p)
                   \/ BindPub(p) \/ BindRep(p)
              \/ (PopStored \/ WriteRow) /\ UNCHANGED pubVars
<1>1. ~ (InsertFails /\ intact' = FALSE) /\ ~ Crash
  BY DEF Crash
<1>2. UNCHANGED pathVars => intact' = intact
  BY DEF pathVars
<1> QED
  BY <1>1, <1>2 DEF PathNext, PublisherStep

\* Unless something fails, an envelope once placed stays where it is.
LEMMA PlacedStays ==
    ASSUME Numbering, [PathNext]_pathVars, intact', NEW id, NEW n, Placed(id, n)
    PROVE  Placed(id, n)'
<1>1. CASE \E p \in Publishers : StoreMessage(p)
  BY <1>1, PlacedStore, StepKinds
<1>2. CASE PopStored \/ WriteRow
  BY <1>2, PlacedPop, PlacedWrite, StepKinds
<1>3. CASE UNCHANGED <<db, writing, store_message_envelope_queue>>
  BY <1>3, PlacedElse
<1>4. \/ \E p \in Publishers : StoreMessage(p)
      \/ PopStored \/ WriteRow
      \/ UNCHANGED <<db, writing, store_message_envelope_queue>>
  BY StepKinds DEF pathVars, Publish, TakeMessage, SendMessage, SendError, BindPub, BindRep,
                   storeVars, storeThreadVars, tableVars
<1> QED
  BY <1>1, <1>2, <1>3, <1>4

\* SentIsAccepted, of what is about to be sent as well.
SentPlaced == \A e \in sent : \E n \in Nat : Placed(e.id, n)

HeldPlaced ==
    \A p \in Publishers :
        pub_pc[p] = "send" => \E n \in Nat : Placed(msg_envelope[p].id, n)

Accepting == intact /\ UseStorage => SentPlaced /\ HeldPlaced

LEMMA AcceptingNext == Numbering /\ Accepting /\ [PathNext]_pathVars => Accepting'
<1> SUFFICES ASSUME Numbering, Accepting, [PathNext]_pathVars, intact', UseStorage'
             PROVE  SentPlaced' /\ HeldPlaced'
  BY DEF Accepting
<1>1. UNCHANGED backend
  BY StepKinds DEF pathVars, Publish, TakeMessage, StoreMessage, StoreMessageEnvelope,
        SendMessage, SendError, BindPub, BindRep, PopStored, WriteRow, storeVars, objectVars
<1>2. UseStorage /\ SentPlaced /\ HeldPlaced
  BY <1>1, StepKinds DEF UseStorage, Accepting
<1>3. ASSUME NEW e \in sent' PROVE \E n \in Nat : Placed(e.id, n)'
  <2>1. e \in sent \/ \E p \in Publishers : pub_pc[p] = "send" /\ e = msg_envelope[p]
    BY <1>3, StepKinds DEF pathVars, pubVars, Publish, TakeMessage, StoreMessage, SendMessage,
          SendError, BindPub, BindRep
  <2>2. PICK n \in Nat : Placed(e.id, n)
    BY <1>2, <2>1 DEF SentPlaced, HeldPlaced
  <2> QED
    BY <2>2, PlacedStays
<1>4. ASSUME NEW q \in Publishers, pub_pc'[q] = "send",
             NEW id, id = msg_envelope'[q].id
      PROVE  \E n \in Nat : Placed(id, n)'
  <2>1. \/ pub_pc[q] = "send" /\ msg_envelope'[q] = msg_envelope[q]
        \/ StoreMessage(q)
    <3>1. ASSUME NEW p \in Publishers, TakeMessage(p)
          PROVE  pub_pc[q] = "send" /\ msg_envelope'[q] = msg_envelope[q]
      BY <1>2, <1>4, <3>1 DEF TakeMessage, AfterNumbering, Numbering, Types, PathTypeOK
    <3>2. ASSUME NEW p \in Publishers, StoreMessage(p)
          PROVE  \/ pub_pc[q] = "send" /\ msg_envelope'[q] = msg_envelope[q]
                 \/ StoreMessage(q)
      BY <1>4, <3>2 DEF StoreMessage, Numbering, Types, PathTypeOK
    <3>3. ASSUME NEW p \in Publishers, SendMessage(p) \/ SendError(p)
          PROVE  pub_pc[q] = "send" /\ msg_envelope'[q] = msg_envelope[q]
      BY <1>4, <3>3 DEF SendMessage, SendError, Numbering, Types, PathTypeOK
    <3>4. CASE UNCHANGED <<pub_pc, msg_envelope>>
      BY <1>4, <3>4
    <3>5. \/ \E p \in Publishers : \/ TakeMessage(p) \/ StoreMessage(p)
                                   \/ SendMessage(p) \/ SendError(p)
          \/ UNCHANGED <<pub_pc, msg_envelope>>
      BY StepKinds DEF pathVars, pubVars, pubThreadVars, Publish, BindPub, BindRep
    <3> QED
      BY <3>1, <3>2, <3>3, <3>4, <3>5
  <2>2. CASE pub_pc[q] = "send" /\ msg_envelope'[q] = msg_envelope[q]
    <3>1. PICK n \in Nat : Placed(id, n)
      BY <1>2, <1>4, <2>2 DEF HeldPlaced
    <3> QED
      BY <3>1, PlacedStays
  <2>3. CASE StoreMessage(q)
    <3>1. PICK n \in Nat : n = store_sequence_number + 1
      BY DEF Numbering, Types, PathTypeOK
    <3>2. id = msg_envelope[q].id
      BY <1>4, <2>3 DEF StoreMessage
    <3>3. intact
      BY StepKinds
    <3>4. Placed(id, n)'
      BY <2>3, <3>1, <3>2, <3>3, PlacedStore
    <3> QED
      BY <3>4
  <2> QED
    BY <2>1, <2>2, <2>3
<1>5. SentPlaced'
  BY <1>3 DEF SentPlaced
<1>6. HeldPlaced'
  <2> SUFFICES ASSUME NEW q \in Publishers, pub_pc'[q] = "send"
               PROVE  (\E n \in Nat : Placed(msg_envelope[q].id, n))'
    BY DEF HeldPlaced
  <2>1. PICK id : id = msg_envelope'[q].id
    OBVIOUS
  <2>2. PICK n \in Nat : Placed(id, n)'
    BY <1>4, <2>1
  <2> QED
    BY <2>1, <2>2 DEF Placed
<1> QED
  BY <1>5, <1>6

\* Nothing is on the wire that the storage has not accepted (the order of the calls in
\* pub_thread_fn, and that popping and writing a row lose no envelope).
THEOREM SentWasAccepted == PathSpec => []SentIsAccepted
<1>1. PathInit => Accepting
  BY DEF PathInit, PublisherInit, Accepting, SentPlaced, HeldPlaced
<1>2. Numbering /\ Accepting => SentIsAccepted
  BY PlacedIsAccepted DEF Accepting, SentPlaced, SentIsAccepted
<1> QED
  BY <1>1, <1>2, NumberingHolds, AcceptingNext, PTL DEF PathSpec

-----------------------------------------------------------------------------
(* One publisher: the number sent is the number stored *)

OnePublisher == \A p, q \in Publishers : p = q

\* A payload on its way to being numbered: neither stored nor sent under any number.
Unplaced(id) ==
    /\ id \in published
    /\ \A n \in Nat : ~ Placed(id, n)
    /\ \A e \in sent : e.id # id

\* An envelope whose number is where it is stored.
Rightly(e) == e.id \in published /\ \A n \in Nat : Placed(e.id, n) => n = e.sequence_number

QueuesFresh ==
    \A p \in Publishers : \A i \in DOMAIN incoming_message_envelope_queue[p] :
        LET id == incoming_message_envelope_queue[p][i].id
        IN  /\ Unplaced(id)
            /\ pub_pc[p] # "take" => msg_envelope[p].id # id
            /\ \A j \in DOMAIN incoming_message_envelope_queue[p] :
                   j # i => incoming_message_envelope_queue[p][j].id # id

HeldRight ==
    \A p \in Publishers :
        /\ pub_pc[p] = "store" =>
             /\ Unplaced(msg_envelope[p].id)
             /\ msg_envelope[p].sequence_number = store_sequence_number + 1
        /\ pub_pc[p] = "send" => Rightly(msg_envelope[p])

SentRight == \A e \in sent : Rightly(e)

PlacedPublished == \A id \in Ids, n \in Nat : Placed(id, n) => id \in published

\* The inductive invariant of one publisher: a payload is published once, so the number
\* it is given is the number of one place, and the only one who can take that place
\* before it is stored is the publisher itself.
Fresh == intact => QueuesFresh /\ HeldRight /\ SentRight /\ PlacedPublished

\* Where nothing is placed or sent, payloads and envelopes stay as they were.
LEMMA UnplacedStays ==
    ASSUME NEW id, Unplaced(id), published \subseteq published', UNCHANGED sent,
           \A n \in Nat : Placed(id, n)' => Placed(id, n)
    PROVE  Unplaced(id)'
  BY DEF Unplaced

LEMMA RightlyStays ==
    ASSUME NEW e, Rightly(e), published \subseteq published',
           \A n \in Nat : Placed(e.id, n)' => Placed(e.id, n)
    PROVE  Rightly(e)'
  BY DEF Rightly

LEMMA FreshPublish ==
    ASSUME Numbering, Fresh, intact, NEW p \in Publishers, NEW id \in Ids, NEW topic \in Topics,
           Publish(p, id, topic)
    PROVE  QueuesFresh' /\ HeldRight' /\ SentRight' /\ PlacedPublished'
<1> DEFINE envelope == [id |-> id, topic |-> topic, sequence_number |-> 0]
           incoming == incoming_message_envelope_queue
<1>1. /\ id \notin published /\ published' = published \cup {id}
      /\ incoming' = [incoming EXCEPT ![p] = Append(incoming[p], envelope)]
      /\ UNCHANGED <<db, writing, store_message_envelope_queue, store_sequence_number>>
      /\ UNCHANGED <<pub_pc, msg_envelope, sent>>
  BY DEF Publish, storeVars, storeThreadVars, tableVars
<1>2. QueuesFresh /\ HeldRight /\ SentRight /\ PlacedPublished
  BY DEF Fresh
<1>3. ASSUME NEW other, NEW n PROVE Placed(other, n)' <=> Placed(other, n)
  BY <1>1, PlacedElse
<1>4. SentRight' /\ PlacedPublished'
  <2>1. PlacedPublished'
    BY <1>1, <1>2, <1>3 DEF PlacedPublished
  <2>2. SentRight'
    BY <1>1, <1>2, <1>3, RightlyStays DEF SentRight
  <2> QED
    BY <2>1, <2>2
<1>5. HeldRight'
  <2> SUFFICES ASSUME NEW q \in Publishers
               PROVE  /\ pub_pc[q] = "store" =>
                           /\ Unplaced(msg_envelope[q].id)'
                           /\ msg_envelope[q].sequence_number = store_sequence_number + 1
                      /\ pub_pc[q] = "send" => Rightly(msg_envelope[q])'
    BY <1>1 DEF HeldRight
  <2>1. PICK held : held = msg_envelope[q] /\ held = msg_envelope'[q]
    BY <1>1
  <2>2. PICK heldId : heldId = held.id
    OBVIOUS
  <2>3. pub_pc[q] = "store" => Unplaced(heldId)'
    <3>1. pub_pc[q] = "store" => Unplaced(heldId)
      BY <1>2, <2>1, <2>2 DEF HeldRight
    <3> QED
      BY <1>1, <1>3, <3>1, UnplacedStays
  <2>4. pub_pc[q] = "send" => Rightly(held)'
    <3>1. pub_pc[q] = "send" => Rightly(held)
      BY <1>2, <2>1 DEF HeldRight
    <3> QED
      BY <1>1, <1>3, <3>1, RightlyStays
  <2> QED
    BY <1>2, <2>1, <2>2, <2>3, <2>4 DEF HeldRight, Unplaced, Rightly
<1>6. QueuesFresh'
  <2>1. Unplaced(id)'
    <3>1. \A n \in Nat : ~ Placed(id, n)
      BY <1>1, <1>2 DEF PlacedPublished
    <3>2. \A e \in sent : e.id # id
      BY <1>1, <1>2 DEF SentRight, Rightly
    <3> QED
      BY <1>1, <1>3, <3>1, <3>2 DEF Unplaced
  <2>2. pub_pc[p] # "take" => msg_envelope[p].id # id
    <3>1. pub_pc[p] \in {"take", "store", "send"}
      BY DEF Numbering, Types, PathTypeOK, PubPoints
    <3> QED
      BY <1>1, <1>2, <3>1 DEF HeldRight, Unplaced, Rightly
  <2>3. incoming[p] \in Seq(Stored) /\ envelope \in Stored /\ envelope.id = id
    BY DEF Numbering, Types, Stored
  <2> HIDE DEF envelope
  <2>4. /\ DOMAIN Append(incoming[p], envelope) = DOMAIN incoming[p] \cup {Len(incoming[p]) + 1}
        /\ \A i \in DOMAIN incoming[p] : Append(incoming[p], envelope)[i] = incoming[p][i]
        /\ Append(incoming[p], envelope)[Len(incoming[p]) + 1] = envelope
        /\ Len(incoming[p]) + 1 \notin DOMAIN incoming[p]
    BY <2>3
  <2>5. \A q \in Publishers : incoming'[q] = IF q = p THEN Append(incoming[p], envelope)
                                                      ELSE incoming[q]
    BY <1>1 DEF Numbering, Types
  <2>6. ASSUME NEW q \in Publishers, NEW i \in DOMAIN incoming[q],
               NEW old, old = incoming[q][i].id
        PROVE  /\ Unplaced(old)' /\ old # id
               /\ pub_pc[q] # "take" => msg_envelope[q].id # old
               /\ \A j \in DOMAIN incoming[q] : j # i => incoming[q][j].id # old
    <3>1. /\ Unplaced(old)
          /\ pub_pc[q] # "take" => msg_envelope[q].id # old
          /\ \A j \in DOMAIN incoming[q] : j # i => incoming[q][j].id # old
      BY <1>2, <2>6 DEF QueuesFresh
    <3>2. Unplaced(old)'
      BY <1>1, <1>3, <3>1, UnplacedStays
    <3> QED
      BY <1>1, <3>1, <3>2 DEF Unplaced
  <2>7. ASSUME NEW q \in Publishers, NEW i \in DOMAIN incoming'[q],
               NEW now, now = incoming'[q][i].id
        PROVE  /\ Unplaced(now)'
               /\ pub_pc'[q] # "take" => msg_envelope'[q].id # now
               /\ \A j \in DOMAIN incoming'[q] : j # i => incoming'[q][j].id # now
    <3>1. CASE i \in DOMAIN incoming[q] /\ incoming'[q][i] = incoming[q][i]
      BY <1>1, <2>3, <2>4, <2>5, <2>6, <2>7, <3>1
    <3>2. CASE q = p /\ i = Len(incoming[p]) + 1 /\ now = id
      <4>1. \A j \in DOMAIN incoming[p] : incoming[p][j].id # id
        BY <2>6
      <4> QED
        BY <1>1, <2>1, <2>2, <2>4, <2>5, <3>2, <4>1
    <3> QED
      BY <2>3, <2>4, <2>5, <2>7, <3>1, <3>2
  <2> QED
    BY <2>7 DEF QueuesFresh, Unplaced, Placed
<1> QED
  BY <1>4, <1>5, <1>6

\* A step that places nothing, and changes neither queues, numbers, envelopes nor sent.
LEMMA FreshElse ==
    ASSUME Fresh, intact,
           UNCHANGED <<incoming_message_envelope_queue, pub_pc, msg_envelope, published, sent>>,
           UNCHANGED store_sequence_number,
           \A id, n : Placed(id, n)' <=> Placed(id, n)
    PROVE  QueuesFresh' /\ HeldRight' /\ SentRight' /\ PlacedPublished'
<1>1. \A id : Unplaced(id)' <=> Unplaced(id)
  BY DEF Unplaced
<1>2. \A e : Rightly(e)' <=> Rightly(e)
  BY DEF Rightly
<1>3. QueuesFresh'
  <2> SUFFICES ASSUME NEW p \in Publishers, NEW i \in DOMAIN incoming_message_envelope_queue[p]
               PROVE  LET id == incoming_message_envelope_queue[p][i].id
                      IN  /\ Unplaced(id)'
                          /\ pub_pc[p] # "take" => msg_envelope[p].id # id
                          /\ \A j \in DOMAIN incoming_message_envelope_queue[p] :
                                 j # i => incoming_message_envelope_queue[p][j].id # id
    BY DEF QueuesFresh
  <2>1. PICK id : id = incoming_message_envelope_queue[p][i].id
    OBVIOUS
  <2>2. Unplaced(id)'
    BY <1>1, <2>1 DEF Fresh, QueuesFresh
  <2> QED
    BY <2>1, <2>2 DEF Fresh, QueuesFresh, Unplaced
<1>4. HeldRight'
  <2> SUFFICES ASSUME NEW p \in Publishers
               PROVE  (/\ pub_pc[p] = "store" =>
                            /\ Unplaced(msg_envelope[p].id)
                            /\ msg_envelope[p].sequence_number = store_sequence_number + 1
                       /\ pub_pc[p] = "send" => Rightly(msg_envelope[p]))'
    BY DEF HeldRight
  <2>1. PICK held, id : held = msg_envelope[p] /\ id = held.id
    OBVIOUS
  <2>2. /\ pub_pc[p] = "store" => Unplaced(id)'
        /\ pub_pc[p] = "send" => Rightly(held)'
    BY <1>1, <1>2, <2>1 DEF Fresh, HeldRight
  <2> QED
    BY <2>1, <2>2 DEF Fresh, HeldRight, Unplaced, Rightly
<1>5. SentRight' /\ PlacedPublished'
  BY <1>2 DEF Fresh, SentRight, PlacedPublished
<1> QED
  BY <1>3, <1>4, <1>5

LEMMA FreshTake ==
    ASSUME Numbering, Fresh, intact, NEW p \in Publishers, TakeMessage(p)
    PROVE  QueuesFresh' /\ HeldRight' /\ SentRight' /\ PlacedPublished'
<1> DEFINE incoming == incoming_message_envelope_queue
           envelope == [Head(incoming[p]) EXCEPT !.sequence_number = NextNumber(p)]
<1>1. /\ incoming[p] # <<>> /\ pub_pc[p] = "take"
      /\ incoming' = [incoming EXCEPT ![p] = Tail(incoming[p])]
      /\ msg_envelope' = [msg_envelope EXCEPT ![p] = envelope]
      /\ pub_pc' = [pub_pc EXCEPT ![p] = AfterNumbering]
      /\ UNCHANGED <<db, writing, store_message_envelope_queue, store_sequence_number>>
      /\ UNCHANGED <<published, sent>>
  BY DEF TakeMessage, storeVars, storeThreadVars, tableVars
<1>2. QueuesFresh /\ HeldRight /\ SentRight /\ PlacedPublished
  BY DEF Fresh
<1>3. ASSUME NEW id, NEW n PROVE Placed(id, n)' <=> Placed(id, n)
  BY <1>1, PlacedElse
<1>4. (\A id : Unplaced(id)' <=> Unplaced(id)) /\ (\A e : Rightly(e)' <=> Rightly(e))
  BY <1>1, <1>3 DEF Unplaced, Rightly
<1>5. incoming[p] \in Seq(Stored) /\ NextNumber(p) \in Nat
  BY DEF Numbering, Types, NextNumber, PathTypeOK
<1>6. /\ Head(incoming[p]) = incoming[p][1] /\ 1 \in DOMAIN incoming[p]
      /\ Head(incoming[p]) \in Stored /\ Len(incoming[p]) \in Nat
      /\ \A i \in DOMAIN Tail(incoming[p]) :
             /\ i \in Nat /\ i + 1 \in DOMAIN incoming[p] /\ i + 1 # 1
             /\ Tail(incoming[p])[i] = incoming[p][i + 1]
  <2> HIDE DEF incoming
  <2> QED
    BY <1>1, <1>5
<1>7. PICK head : head = incoming[p][1].id
  OBVIOUS
<1>8. envelope.id = head /\ envelope.sequence_number = NextNumber(p)
  <2> HIDE DEF incoming
  <2> QED
    BY <1>5, <1>6, <1>7 DEF Stored
<1>9. Unplaced(head) /\ \A i \in DOMAIN incoming[p] : i # 1 => incoming[p][i].id # head
  BY <1>2, <1>6, <1>7 DEF QueuesFresh
<1> HIDE DEF envelope
<1>10. \A q \in Publishers : /\ incoming'[q] = IF q = p THEN Tail(incoming[p]) ELSE incoming[q]
                             /\ msg_envelope'[q] = IF q = p THEN envelope ELSE msg_envelope[q]
                             /\ pub_pc'[q] = IF q = p THEN AfterNumbering ELSE pub_pc[q]
  BY <1>1 DEF Numbering, Types, PathTypeOK
<1>11. QueuesFresh'
  <2>1. ASSUME NEW q \in Publishers, NEW i \in DOMAIN incoming'[q],
               NEW now, now = incoming'[q][i].id
        PROVE  /\ Unplaced(now)
               /\ pub_pc'[q] # "take" => msg_envelope'[q].id # now
               /\ \A j \in DOMAIN incoming'[q] : j # i => incoming'[q][j].id # now
    <3>1. CASE q # p
      BY <1>2, <1>10, <2>1, <3>1 DEF QueuesFresh
    <3>2. CASE q = p
      <4>1. i \in DOMAIN Tail(incoming[p]) /\ now = incoming[p][i + 1].id
        BY <1>6, <1>10, <2>1, <3>2
      <4>2. Unplaced(now) /\ now # head
        BY <1>2, <1>6, <1>9, <4>1 DEF QueuesFresh
      <4>3. ASSUME NEW j \in DOMAIN Tail(incoming[p]), j # i
            PROVE  Tail(incoming[p])[j].id # now
        <5>1. i + 1 # j + 1
          BY <1>6, <4>1, <4>3
        <5> QED
          BY <1>2, <1>6, <4>1, <4>3, <5>1 DEF QueuesFresh
      <4> QED
        BY <1>8, <1>10, <3>2, <4>2, <4>3
    <3> QED
      BY <3>1, <3>2
  <2> SUFFICES ASSUME NEW q \in Publishers, NEW i \in DOMAIN incoming'[q]
               PROVE  (LET id == incoming[q][i].id
                       IN  /\ Unplaced(id)
                           /\ pub_pc[q] # "take" => msg_envelope[q].id # id
                           /\ \A j \in DOMAIN incoming[q] : j # i => incoming[q][j].id # id)'
    BY DEF QueuesFresh
  <2>2. PICK now : now = incoming'[q][i].id
    OBVIOUS
  <2>3. Unplaced(now)'
    BY <1>4, <2>1, <2>2
  <2> QED
    BY <2>1, <2>2, <2>3 DEF Unplaced, Placed
<1>12. HeldRight'
  <2>1. ASSUME NEW q \in Publishers, NEW now, now = msg_envelope'[q], NEW id, id = now.id
        PROVE  /\ pub_pc'[q] = "store" =>
                    Unplaced(id) /\ now.sequence_number = store_sequence_number + 1
               /\ pub_pc'[q] = "send" => Rightly(now)
    <3>1. CASE q # p
      BY <1>2, <1>10, <2>1, <3>1 DEF HeldRight
    <3>2. CASE q = p
      <4>1. now = envelope /\ id = head /\ pub_pc'[q] = AfterNumbering
        BY <1>8, <1>10, <2>1, <3>2
      <4>2. AfterNumbering = "store" => NextNumber(p) = store_sequence_number + 1
        BY DEF AfterNumbering, NextNumber
      <4>3. Rightly(now)
        BY <1>8, <1>9, <4>1 DEF Rightly, Unplaced
      <4> QED
        BY <1>8, <1>9, <4>1, <4>2, <4>3
    <3> QED
      BY <3>1, <3>2
  <2> SUFFICES ASSUME NEW q \in Publishers
               PROVE  (/\ pub_pc[q] = "store" =>
                            /\ Unplaced(msg_envelope[q].id)
                            /\ msg_envelope[q].sequence_number = store_sequence_number + 1
                       /\ pub_pc[q] = "send" => Rightly(msg_envelope[q]))'
    BY DEF HeldRight
  <2>2. PICK now, id : now = msg_envelope'[q] /\ id = now.id
    OBVIOUS
  <2>3. /\ pub_pc'[q] = "store" =>
             Unplaced(id)' /\ now.sequence_number = store_sequence_number + 1
        /\ pub_pc'[q] = "send" => Rightly(now)'
    BY <1>4, <2>1, <2>2
  <2> QED
    BY <1>1, <2>2, <2>3 DEF Unplaced, Rightly
<1>13. SentRight' /\ PlacedPublished'
  BY <1>1, <1>2, <1>3, <1>4 DEF SentRight, PlacedPublished
<1> QED
  BY <1>11, <1>12, <1>13

LEMMA FreshStore ==
    ASSUME Numbering, Fresh, intact, OnePublisher, NEW p \in Publishers, StoreMessage(p)
    PROVE  QueuesFresh' /\ HeldRight' /\ SentRight' /\ PlacedPublished'
<1>1. /\ pub_pc[p] = "store" /\ pub_pc' = [pub_pc EXCEPT ![p] = "send"]
      /\ UNCHANGED <<incoming_message_envelope_queue, msg_envelope, published, sent>>
  BY DEF StoreMessage
<1>2. QueuesFresh /\ HeldRight /\ SentRight /\ PlacedPublished
  BY DEF Fresh
<1>3. PICK held, heldId : held = msg_envelope[p] /\ heldId = held.id
  OBVIOUS
<1>4. /\ Unplaced(heldId) /\ held.sequence_number = store_sequence_number + 1
      /\ held \in Stored /\ heldId \in published
  BY <1>1, <1>2, <1>3 DEF HeldRight, Unplaced, Numbering, Types
<1>5. \A id, n : Placed(id, n)' <=>
                     Placed(id, n) \/ (id = heldId /\ n = store_sequence_number + 1)
  BY <1>3, PlacedStore
<1>6. \A id : id # heldId => (Unplaced(id)' <=> Unplaced(id))
  BY <1>1, <1>5 DEF Unplaced
<1>7. \A e : e.id # heldId => (Rightly(e)' <=> Rightly(e))
  BY <1>1, <1>5 DEF Rightly
<1>8. Rightly(held)'
  BY <1>1, <1>3, <1>4, <1>5 DEF Rightly, Unplaced
<1>9. \A q \in Publishers : q = p
  BY DEF OnePublisher
<1>10. pub_pc'[p] = "send"
  BY <1>1 DEF Numbering, Types, PathTypeOK
<1>11. QueuesFresh'
  <2> SUFFICES ASSUME NEW i \in DOMAIN incoming_message_envelope_queue[p]
               PROVE  (LET id == incoming_message_envelope_queue[p][i].id
                       IN  /\ Unplaced(id)
                           /\ pub_pc[p] # "take" => msg_envelope[p].id # id
                           /\ \A j \in DOMAIN incoming_message_envelope_queue[p] :
                                  j # i => incoming_message_envelope_queue[p][j].id # id)'
    BY <1>1, <1>9 DEF QueuesFresh
  <2>1. PICK id : id = incoming_message_envelope_queue[p][i].id
    OBVIOUS
  <2>2. /\ Unplaced(id) /\ id # heldId
        /\ \A j \in DOMAIN incoming_message_envelope_queue[p] :
               j # i => incoming_message_envelope_queue[p][j].id # id
    BY <1>1, <1>2, <1>3, <2>1 DEF QueuesFresh
  <2>3. Unplaced(id)'
    BY <1>6, <2>2
  <2> QED
    BY <1>1, <1>3, <2>1, <2>2, <2>3 DEF Unplaced
<1>12. HeldRight'
  <2>1. HeldRight' <=> (/\ pub_pc[p] = "store" =>
                            /\ Unplaced(msg_envelope[p].id)
                            /\ msg_envelope[p].sequence_number = store_sequence_number + 1
                        /\ pub_pc[p] = "send" => Rightly(msg_envelope[p]))'
    BY <1>9 DEF HeldRight
  <2> QED
    BY <1>1, <1>3, <1>8, <1>10, <2>1 DEF Rightly
<1>13. SentRight'
  BY <1>1, <1>2, <1>4, <1>7 DEF SentRight, Unplaced
<1>14. PlacedPublished'
  BY <1>1, <1>2, <1>4, <1>5 DEF PlacedPublished
<1> QED
  BY <1>11, <1>12, <1>13, <1>14

LEMMA FreshSend ==
    ASSUME Numbering, Fresh, intact, OnePublisher, NEW p \in Publishers,
           SendMessage(p) \/ SendError(p)
    PROVE  QueuesFresh' /\ HeldRight' /\ SentRight' /\ PlacedPublished'
<1> DEFINE incoming == incoming_message_envelope_queue
<1>1. /\ pub_pc[p] = "send" /\ pub_pc' = [pub_pc EXCEPT ![p] = "take"]
      /\ UNCHANGED <<db, writing, store_message_envelope_queue>>
      /\ UNCHANGED <<incoming, published>>
      /\ sent' \in {sent, sent \cup {msg_envelope[p]}}
  BY DEF SendMessage, SendError, storeVars, storeThreadVars, tableVars
<1>2. QueuesFresh /\ HeldRight /\ SentRight /\ PlacedPublished
  BY DEF Fresh
<1>3. \A id, n : Placed(id, n)' <=> Placed(id, n)
  BY <1>1, PlacedElse
<1>4. \A e : Rightly(e)' <=> Rightly(e)
  BY <1>1, <1>3 DEF Rightly
<1>5. pub_pc'[p] = "take" /\ \A q \in Publishers : q = p
  BY <1>1 DEF OnePublisher, Numbering, Types, PathTypeOK
<1>6. QueuesFresh'
  <2> SUFFICES ASSUME NEW i \in DOMAIN incoming[p]
               PROVE  /\ (Unplaced(incoming[p][i].id))'
                      /\ \A j \in DOMAIN incoming[p] : j # i => incoming[p][j].id # incoming[p][i].id
    BY <1>1, <1>5 DEF QueuesFresh
  <2>1. PICK id : id = incoming[p][i].id
    OBVIOUS
  <2>2. /\ Unplaced(id) /\ id # msg_envelope[p].id
        /\ \A j \in DOMAIN incoming[p] : j # i => incoming[p][j].id # id
    BY <1>1, <1>2, <2>1 DEF QueuesFresh
  <2>3. Unplaced(id)'
    BY <1>1, <1>3, <2>2 DEF Unplaced
  <2> QED
    BY <1>1, <2>1, <2>2, <2>3 DEF Unplaced
<1>7. HeldRight'
  BY <1>5 DEF HeldRight
<1>8. SentRight'
  <2>1. Rightly(msg_envelope[p])
    BY <1>1, <1>2 DEF HeldRight
  <2> QED
    BY <1>1, <1>2, <1>4, <2>1 DEF SentRight
<1>9. PlacedPublished'
  BY <1>1, <1>2, <1>3 DEF PlacedPublished
<1> QED
  BY <1>6, <1>7, <1>8, <1>9

LEMMA FreshInit == PathInit => Fresh
<1> SUFFICES ASSUME PathInit PROVE QueuesFresh /\ HeldRight /\ SentRight /\ PlacedPublished
  BY DEF Fresh
<1>1. /\ Rows = {} /\ writing = <<>> /\ DOMAIN store_message_envelope_queue = {}
      /\ sent = {} /\ \A p \in Publishers : /\ pub_pc[p] = "take"
                                            /\ DOMAIN incoming_message_envelope_queue[p] = {}
  BY EmptyRows DEF PathInit, StoreInit, PublisherInit, EmptyQueues, Rows
<1> QED
  BY <1>1 DEF QueuesFresh, HeldRight, SentRight, PlacedPublished, Placed

LEMMA FreshNext ==
    OnePublisher /\ Numbering /\ Fresh /\ [PathNext]_pathVars => Fresh'
<1> SUFFICES ASSUME OnePublisher, Numbering, Fresh, [PathNext]_pathVars, intact'
             PROVE  QueuesFresh' /\ HeldRight' /\ SentRight' /\ PlacedPublished'
  BY DEF Fresh
<1>1. intact
  BY StepKinds
<1>2. CASE \E p \in Publishers, id \in Ids, topic \in Topics : Publish(p, id, topic)
  BY <1>1, <1>2, FreshPublish
<1>3. CASE \E p \in Publishers : TakeMessage(p)
  BY <1>1, <1>3, FreshTake
<1>4. CASE \E p \in Publishers : StoreMessage(p)
  BY <1>1, <1>4, FreshStore
<1>5. CASE \E p \in Publishers : SendMessage(p) \/ SendError(p)
  BY <1>1, <1>5, FreshSend
<1>6. CASE \/ UNCHANGED pathVars
           \/ \E p \in Publishers : BindPub(p) \/ BindRep(p)
           \/ (PopStored \/ WriteRow) /\ UNCHANGED pubVars
  <2>1. /\ UNCHANGED <<incoming_message_envelope_queue, pub_pc, msg_envelope, published, sent>>
        /\ UNCHANGED store_sequence_number
    BY <1>6 DEF pathVars, pubVars, pubThreadVars, storeVars, BindPub, BindRep, PopStored, WriteRow
  <2>2. \/ PopStored \/ WriteRow
        \/ UNCHANGED <<db, writing, store_message_envelope_queue>>
    BY <1>6 DEF pathVars, storeVars, storeThreadVars, tableVars, BindPub, BindRep
  <2>3. ASSUME NEW id, NEW n PROVE Placed(id, n)' <=> Placed(id, n)
    BY <1>1, <2>2, PlacedPop, PlacedWrite, PlacedElse
  <2> QED
    BY <1>1, <2>1, <2>3, FreshElse
<1> QED
  BY <1>2, <1>3, <1>4, <1>5, <1>6, StepKinds

LEMMA FreshSuffices == Numbering /\ Fresh => LiveNumberIsStored
<1> SUFFICES ASSUME Numbering, Fresh, intact,
                    NEW e \in sent, NEW k \in Rows, db[k].id = e.id
             PROVE  e.sequence_number = k
  BY DEF LiveNumberIsStored
<1>1. k \in Nat /\ Placed(e.id, k)
  BY DEF Placed, Numbering, Types, PathTypeOK
<1> QED
  BY <1>1 DEF Fresh, SentRight, Rightly

\* With one publisher the number a message is sent under is the number its row has, and
\* so the number a subscriber can recover it by, as long as nothing fails: the number is
\* read from the storage before the call that raises it, and nobody else calls
\* (pub_thread_fn and store_message_envelope).
THEOREM OnePublisherNumbersRight ==
    ASSUME OnePublisher
    PROVE  PathSpec => []LiveNumberIsStored
  BY FreshInit, FreshNext, FreshSuffices, NumberingHolds, PTL DEF PathSpec

-----------------------------------------------------------------------------
(* One publisher: a payload is given one number *)

PlacedOnce == \A id \in Ids, n, m \in Nat : Placed(id, n) /\ Placed(id, m) => n = m

\* Whatever backend numbers it, an envelope carries the number of its place.
AcceptedRight == \A a \in Accepted : Placed(a.id, a.sequence_number)

SentOnce == \A e, f \in sent : e.id = f.id => e.sequence_number = f.sequence_number

HeldUnsent ==
    \A p \in Publishers :
        pub_pc[p] # "take" => \A e \in sent : e.id # msg_envelope[p].id

\* The inductive invariant: together with Fresh, a payload has one number, the same
\* wherever it is held.
Once == intact => PlacedOnce /\ AcceptedRight /\ SentOnce /\ HeldUnsent

LEMMA OnceInit == PathInit => Once
<1> SUFFICES ASSUME PathInit PROVE PlacedOnce /\ AcceptedRight /\ SentOnce /\ HeldUnsent
  BY DEF Once
<1>1. /\ Rows = {} /\ writing = <<>> /\ DOMAIN writing = {}
      /\ DOMAIN store_message_envelope_queue = {} /\ sent = {}
  BY EmptyRows DEF PathInit, StoreInit, PublisherInit, Rows
<1> QED
  BY <1>1 DEF PlacedOnce, AcceptedRight, SentOnce, HeldUnsent, Placed, Accepted

\* What the storage's steps add to the envelopes accepted.
LEMMA AcceptedStore ==
    ASSUME Numbering, NEW p \in Publishers, StoreMessage(p)
    PROVE  Accepted' \subseteq Accepted \cup {Queued(msg_envelope[p])}
<1> DEFINE envelope == Queued(msg_envelope[p])
           queue == store_message_envelope_queue
<1>1. /\ store_message_envelope_queue' = Append(queue, envelope)
      /\ UNCHANGED <<writing, db>> /\ pub_pc[p] = "store"
  BY DEF StoreMessage, StoreMessageEnvelope, tableVars
<1>2. queue \in Seq(Stored) /\ envelope \in Stored
  BY <1>1, QueuedIsStored DEF Numbering, Types, PathTypeOK, Stored
<1> HIDE DEF envelope
<1>3. \A i \in DOMAIN Append(queue, envelope) :
          \/ i \in DOMAIN queue /\ Append(queue, envelope)[i] = queue[i]
          \/ Append(queue, envelope)[i] = envelope
  BY <1>2
<1> QED
  BY <1>1, <1>3 DEF Accepted, Rows, envelope

LEMMA AcceptedPop ==
    ASSUME Numbering, PopStored
    PROVE  Accepted' \subseteq Accepted
<1> DEFINE queue == store_message_envelope_queue
<1>1. /\ queue # <<>> /\ UNCHANGED db
      /\ writing' = <<Head(queue)>> /\ store_message_envelope_queue' = Tail(queue)
  BY DEF PopStored, tableVars
<1>2. queue \in Seq(Stored)
  BY DEF Numbering, Types, PathTypeOK, Stored
<1>3. /\ 1 \in DOMAIN queue /\ Head(queue) = queue[1]
      /\ \A i \in DOMAIN Tail(queue) : i + 1 \in DOMAIN queue /\ Tail(queue)[i] = queue[i + 1]
  <2> HIDE DEF queue
  <2> QED
    BY <1>1, <1>2
<1>4. \A i \in DOMAIN writing' : writing'[i] = queue[1]
  BY <1>1, <1>3
<1> HIDE DEF queue
<1> QED
  BY <1>1, <1>3, <1>4 DEF Accepted, Rows, queue

LEMMA AcceptedWrite ==
    ASSUME Numbering, WriteRow
    PROVE  Accepted' \subseteq Accepted \cup {Written} /\ writing[1] \in Accepted
<1>1. /\ writing # <<>> /\ Len(writing) = 1 /\ writing' = <<>>
      /\ UNCHANGED store_message_envelope_queue
      /\ Rows' = Rows \cup {NewKey} /\ db'[NewKey] = Written
      /\ \A k \in Rows : db'[k] = db[k]
  BY NewRow
<1>2. 1 \in DOMAIN writing /\ DOMAIN writing' = {}
  <2>1. writing \in Seq(Stored)
    BY DEF Numbering, Types
  <2> QED
    BY <1>1, <2>1
<1> QED
  BY <1>1, <1>2 DEF Accepted

LEMMA AcceptedTypes == Numbering => Accepted \subseteq Stored
<1> SUFFICES ASSUME Numbering PROVE Accepted \subseteq Stored
  OBVIOUS
<1>1. writing \in Seq(Stored) /\ store_message_envelope_queue \in Seq(Stored)
  BY DEF Numbering, Types, PathTypeOK, Stored
<1>2. \A i \in DOMAIN writing : writing[i] \in Stored
  BY <1>1
<1>3. \A i \in DOMAIN store_message_envelope_queue : store_message_envelope_queue[i] \in Stored
  BY <1>1
<1>4. \A k \in Rows : db[k] \in Stored
  BY DEF Numbering, Types, PathTypeOK, Stored
<1> QED
  BY <1>2, <1>3, <1>4 DEF Accepted

LEMMA OnceNext ==
    OnePublisher /\ Numbering /\ Fresh /\ Once /\ [PathNext]_pathVars => Once'
<1> SUFFICES ASSUME OnePublisher, Numbering, Fresh, Once, [PathNext]_pathVars, intact'
             PROVE  PlacedOnce' /\ AcceptedRight' /\ SentOnce' /\ HeldUnsent'
  BY DEF Once
<1>1. intact /\ PlacedOnce /\ AcceptedRight /\ SentOnce /\ HeldUnsent
  BY StepKinds DEF Once
<1>2. QueuesFresh /\ HeldRight
  BY <1>1 DEF Fresh
<1>3. \A e \in Stored : Placed(e.id, e.sequence_number) => Placed(e.id, e.sequence_number)'
  BY PlacedStays
<1>4. Accepted \subseteq Stored
  BY AcceptedTypes
<1>5. CASE \E p \in Publishers : StoreMessage(p)
  <2>1. PICK p \in Publishers : StoreMessage(p)
    BY <1>5
  <2>2. /\ pub_pc[p] = "store" /\ pub_pc' = [pub_pc EXCEPT ![p] = "send"]
        /\ UNCHANGED <<msg_envelope, sent>>
    BY <2>1 DEF StoreMessage
  <2>3. PICK held, heldId : held = msg_envelope[p] /\ heldId = held.id
    OBVIOUS
  <2>4. /\ held \in Stored /\ heldId \in Ids /\ Unplaced(heldId)
        /\ held.sequence_number = store_sequence_number + 1
    BY <1>2, <2>2, <2>3 DEF HeldRight, Unplaced, Numbering, Types, Stored
  <2>5. \A id, n : Placed(id, n)' <=>
                       Placed(id, n) \/ (id = heldId /\ n = store_sequence_number + 1)
    BY <1>1, <2>1, <2>3, PlacedStore
  <2>6. PlacedOnce'
    BY <1>1, <2>4, <2>5 DEF PlacedOnce, Unplaced
  <2>7. AcceptedRight'
    <3>1. Queued(held).id = heldId /\ Queued(held).sequence_number = store_sequence_number + 1
      <4>1. backend # "LMDB" => Queued(held) = held
        BY DEF Queued
      <4> QED
        BY <2>3, <2>4, <4>1, QueuedIsStored DEF Numbering
    <3>2. Accepted' \subseteq Accepted \cup {Queued(held)}
      BY <2>1, <2>3, AcceptedStore
    <3>3. ASSUME NEW a \in Accepted' PROVE Placed(a.id, a.sequence_number)'
      BY <1>1, <2>5, <3>1, <3>2 DEF AcceptedRight
    <3> QED
      BY <3>3 DEF AcceptedRight
  <2>8. HeldUnsent'
    BY <1>1, <2>2 DEF HeldUnsent, Numbering, Types, PathTypeOK
  <2> QED
    BY <1>1, <2>2, <2>6, <2>7, <2>8 DEF SentOnce
<1>6. CASE (PopStored \/ WriteRow) /\ UNCHANGED pubVars
  <2>1. ASSUME NEW id, NEW n PROVE Placed(id, n)' <=> Placed(id, n)
    BY <1>1, <1>6, PlacedPop, PlacedWrite
  <2>2. PlacedOnce'
    BY <1>1, <2>1 DEF PlacedOnce
  <2>3. ASSUME NEW a \in Accepted' PROVE Placed(a.id, a.sequence_number)'
    <3>1. CASE a \in Accepted
      BY <1>1, <2>1, <3>1 DEF AcceptedRight
    <3>2. CASE a \notin Accepted
      <4>1. WriteRow /\ a = Written
        BY <1>6, <2>3, <3>2, AcceptedPop, AcceptedWrite
      <4>2. CASE backend = "POSTGRESQL"
        <5>1. a.sequence_number = NewKey
          <6>1. writing[1] \in Stored
            BY <1>4, <4>1, AcceptedWrite
          <6> QED
            BY <4>1, <4>2, <6>1 DEF Written, Stored
        <5>2. NewKey \in Rows' /\ db'[NewKey] = a
          BY <4>1, NewRow
        <5>3. PICK key : key = NewKey
          OBVIOUS
        <5> QED
          BY <5>1, <5>2, <5>3 DEF Placed
      <4>3. CASE backend # "POSTGRESQL"
        <5>1. a = writing[1] /\ writing[1] \in Accepted
          BY <4>1, <4>3, AcceptedWrite DEF Written
        <5> QED
          BY <1>1, <2>1, <5>1 DEF AcceptedRight
      <4> QED
        BY <4>2, <4>3
    <3> QED
      BY <3>1, <3>2
  <2>4. UNCHANGED <<pub_pc, msg_envelope, sent>>
    BY <1>6 DEF pubVars, pubThreadVars
  <2> QED
    BY <1>1, <2>2, <2>3, <2>4 DEF AcceptedRight, SentOnce, HeldUnsent
<1>7. ASSUME UNCHANGED <<db, writing, store_message_envelope_queue>>
      PROVE  PlacedOnce' /\ AcceptedRight'
  <2>1. ASSUME NEW id, NEW n PROVE Placed(id, n)' <=> Placed(id, n)
    BY <1>7, PlacedElse
  <2>2. Accepted' = Accepted
    BY <1>7 DEF Accepted, Rows
  <2>3. PlacedOnce'
    BY <1>1, <2>1 DEF PlacedOnce
  <2> QED
    BY <1>1, <2>1, <2>2, <2>3 DEF AcceptedRight
<1>8. CASE \E p \in Publishers : TakeMessage(p)
  <2>1. PICK p \in Publishers : TakeMessage(p)
    BY <1>8
  <2>2. /\ incoming_message_envelope_queue[p] # <<>>
        /\ msg_envelope' = [msg_envelope EXCEPT ![p] =
               [Head(incoming_message_envelope_queue[p]) EXCEPT !.sequence_number = NextNumber(p)]]
        /\ UNCHANGED <<db, writing, store_message_envelope_queue, sent>>
    BY <2>1 DEF TakeMessage, storeVars, storeThreadVars, tableVars
  <2>3. incoming_message_envelope_queue[p] \in Seq(Stored)
    BY DEF Numbering, Types
  <2>4. PICK head : head = Head(incoming_message_envelope_queue[p])
    OBVIOUS
  <2>5. /\ head \in Stored /\ 1 \in DOMAIN incoming_message_envelope_queue[p]
        /\ head = incoming_message_envelope_queue[p][1]
    BY <2>2, <2>3, <2>4
  <2>6. msg_envelope'[p].id = head.id
    BY <2>2, <2>4, <2>5 DEF Numbering, Types, Stored
  <2>7. \A e \in sent : e.id # head.id
    BY <1>2, <2>5 DEF QueuesFresh, Unplaced
  <2>8. \A q \in Publishers : q = p
    BY DEF OnePublisher
  <2> QED
    BY <1>1, <1>7, <2>2, <2>6, <2>7, <2>8 DEF SentOnce, HeldUnsent
<1>9. CASE \E p \in Publishers : SendMessage(p) \/ SendError(p)
  <2>1. PICK p \in Publishers : SendMessage(p) \/ SendError(p)
    BY <1>9
  <2>2. /\ pub_pc[p] = "send" /\ pub_pc' = [pub_pc EXCEPT ![p] = "take"]
        /\ sent' \in {sent, sent \cup {msg_envelope[p]}}
        /\ UNCHANGED <<db, writing, store_message_envelope_queue>>
    BY <2>1 DEF SendMessage, SendError, storeVars, storeThreadVars, tableVars
  <2>3. \A q \in Publishers : pub_pc'[q] = "take"
    BY <2>2 DEF OnePublisher, Numbering, Types, PathTypeOK
  <2>4. \A e \in sent : e.id # msg_envelope[p].id
    BY <1>1, <2>2 DEF HeldUnsent
  <2> QED
    BY <1>1, <1>7, <2>2, <2>3, <2>4 DEF SentOnce, HeldUnsent
<1>10. CASE \/ UNCHANGED pathVars
            \/ \E p \in Publishers, id \in Ids, topic \in Topics : Publish(p, id, topic)
            \/ \E p \in Publishers : BindPub(p) \/ BindRep(p)
  <2>1. UNCHANGED <<db, writing, store_message_envelope_queue, pub_pc, msg_envelope, sent>>
    BY <1>10 DEF pathVars, pubVars, pubThreadVars, storeVars, storeThreadVars, tableVars,
          Publish, BindPub, BindRep
  <2> QED
    BY <1>1, <1>7, <2>1 DEF SentOnce, HeldUnsent
<1> QED
  BY <1>5, <1>6, <1>8, <1>9, <1>10, StepKinds
=============================================================================
