------------------------------ MODULE Publisher ------------------------------
(***************************************************************************)
(* The Publishers of one process (publisher.cpp).  They share the context, *)
(* the addresses they bind and, as in main.cpp, the storage object.  Each  *)
(* has a thread that numbers, stores and sends what was published, one     *)
(* that answers recovery requests, and two that bind the sockets.          *)
(***************************************************************************)
EXTENDS PersistentStorage

CONSTANTS
    Publishers,
    NoPublisher

ASSUME PublisherAssumption == NoPublisher \notin Publishers

VARIABLES
    incoming_message_envelope_queue,  \* each publisher's queue
    pub_sequence_number,              \* each publisher's own count
    pub_pc,                           \* where each sending thread is
    msg_envelope,                     \* the envelope it is working on
    isPubBinded, isRepBinded,         \* the flags of the binding threads
    pub_owner, rep_owner,             \* which publisher's socket has the address
    rep_pc,                           \* the answering thread of rep_owner
    published,                        \* history: payloads given to publish
    sent                              \* history: envelopes given to the PUB socket

pubThreadVars == <<incoming_message_envelope_queue, pub_sequence_number, pub_pc, msg_envelope>>
bindVars      == <<isPubBinded, isRepBinded, pub_owner, rep_owner>>
pubVars       == <<pubThreadVars, bindVars, rep_pc, published, sent>>

PubPoints == {"take", "store", "send"}

RepPoints == {"recv", "scan", "broken"}

NoEnvelope == <<>>

EmptyQueues == [p \in Publishers |-> <<>>]
AllUnbound  == [p \in Publishers |-> FALSE]

\* The constructors' number: get_sequence_number of the storage, or 0.
StartNumbers(number) == [p \in Publishers |-> IF UseStorage THEN number ELSE 0]

PublisherInit ==
    /\ incoming_message_envelope_queue = EmptyQueues
    /\ pub_sequence_number = StartNumbers(store_sequence_number)
    /\ pub_pc = [p \in Publishers |-> "take"]
    /\ msg_envelope = [p \in Publishers |-> NoEnvelope]
    /\ isPubBinded = AllUnbound /\ isRepBinded = AllUnbound
    /\ pub_owner = NoPublisher /\ rep_owner = NoPublisher
    /\ rep_pc = "recv"
    /\ published = {}
    /\ sent = {}

\* The process starts again: every publisher is constructed anew.
PublisherRestart ==
    /\ incoming_message_envelope_queue' = EmptyQueues
    /\ pub_sequence_number' = StartNumbers(store_sequence_number')
    /\ pub_pc' = [p \in Publishers |-> "take"]
    /\ msg_envelope' = [p \in Publishers |-> NoEnvelope]
    /\ isPubBinded' = AllUnbound /\ isRepBinded' = AllUnbound
    /\ pub_owner' = NoPublisher /\ rep_owner' = NoPublisher
    /\ rep_pc' = "recv"
    /\ UNCHANGED <<published, sent>>

-----------------------------------------------------------------------------
(* publish(message_envelope): the caller's envelope is queued under the lock *)

Publish(p, id, topic) ==
    /\ id \notin published
    /\ published' = published \cup {id}
    /\ incoming_message_envelope_queue' =
         [incoming_message_envelope_queue EXCEPT
            ![p] = Append(@, [id |-> id, topic |-> topic, sequence_number |-> 0])]
    /\ UNCHANGED <<storeVars, pub_sequence_number, pub_pc, msg_envelope, bindVars, rep_pc, sent>>

-----------------------------------------------------------------------------
(* pub_thread_fn *)

\* Mutant of NextNumber: the storage's number is used as it is.
SameNumber(p) == IF UseStorage THEN store_sequence_number ELSE pub_sequence_number[p] + 1

NextNumber(p) == IF UseStorage THEN store_sequence_number + 1 ELSE pub_sequence_number[p] + 1

\* Mutant of AfterNumbering: the message is sent without being stored.
AfterNumberingSend == "send"

AfterNumbering == IF UseStorage THEN "store" ELSE "send"

\* Take the next envelope and number it.  The number comes from the storage,
\* read here and raised by the storage only when the envelope is stored.
TakeMessage(p) ==
    /\ pub_pc[p] = "take"
    /\ incoming_message_envelope_queue[p] # <<>>
    /\ incoming_message_envelope_queue' = [incoming_message_envelope_queue EXCEPT ![p] = Tail(@)]
    /\ pub_sequence_number' = [pub_sequence_number EXCEPT ![p] = @ + 1]
    /\ msg_envelope' =
         [msg_envelope EXCEPT ![p] =
            [Head(incoming_message_envelope_queue[p]) EXCEPT
               !.sequence_number = NextNumber(p)]]
    /\ pub_pc' = [pub_pc EXCEPT ![p] = AfterNumbering]
    /\ UNCHANGED <<storeVars, bindVars, rep_pc, published, sent>>

StoreMessage(p) ==
    /\ pub_pc[p] = "store"
    /\ StoreMessageEnvelope(msg_envelope[p])
    /\ pub_pc' = [pub_pc EXCEPT ![p] = "send"]
    /\ UNCHANGED <<incoming_message_envelope_queue, pub_sequence_number, msg_envelope,
                   bindVars, rep_pc, published, sent>>

SendMessage(p) ==
    /\ pub_pc[p] = "send"
    /\ sent' = sent \cup {msg_envelope[p]}
    /\ msg_envelope' = [msg_envelope EXCEPT ![p] = NoEnvelope]
    /\ pub_pc' = [pub_pc EXCEPT ![p] = "take"]
    /\ UNCHANGED <<storeVars, incoming_message_envelope_queue, pub_sequence_number, bindVars, rep_pc,
                   published>>

\* The envelope has been stored and is not sent again.
SendError(p) ==
    /\ "zmq" \in Failures
    /\ pub_pc[p] = "send"
    /\ isPubBinded' = [isPubBinded EXCEPT ![p] = FALSE]
    /\ msg_envelope' = [msg_envelope EXCEPT ![p] = NoEnvelope]
    /\ pub_pc' = [pub_pc EXCEPT ![p] = "take"]
    /\ UNCHANGED <<storeVars, incoming_message_envelope_queue, pub_sequence_number, isRepBinded,
                   pub_owner, rep_owner, rep_pc, published, sent>>

-----------------------------------------------------------------------------
(* pub_binding_thread_fn, rep_binding_thread_fn: bind fails, and is tried    *)
(* again, as long as some socket has the address, be it the publisher's own. *)

BindPub(p) ==
    /\ ~isPubBinded[p]
    /\ pub_owner = NoPublisher
    /\ pub_owner' = p
    /\ isPubBinded' = [isPubBinded EXCEPT ![p] = TRUE]
    /\ UNCHANGED <<storeVars, pubThreadVars, isRepBinded, rep_owner, rep_pc, published, sent>>

BindRep(p) ==
    /\ ~isRepBinded[p]
    /\ rep_owner = NoPublisher
    /\ rep_owner' = p
    /\ isRepBinded' = [isRepBinded EXCEPT ![p] = TRUE]
    /\ UNCHANGED <<storeVars, pubThreadVars, isPubBinded, pub_owner, rep_pc, published, sent>>

-----------------------------------------------------------------------------
(* rep_thread_fn of the publisher whose socket is bound; the others' never   *)
(* receive a request.                                                        *)

ReceiveRequest(request) ==
    /\ rep_owner # NoPublisher
    /\ rep_pc = "recv"
    /\ \/ /\ UseStorage
          /\ BeginGet(TransmittedRequest(request).start_sequence_number,
                      TransmittedRequest(request).end_sequence_number)
       \/ /\ ~UseStorage
          /\ UNCHANGED storeVars
    /\ rep_pc' = "scan"
    /\ UNCHANGED <<pubThreadVars, bindVars, published, sent>>

GetMessageEnvelopes ==
    /\ rep_pc = "scan"
    /\ GetStep
    /\ UNCHANGED pubVars

\* The answer is scan.found, serialized.
SendResponse ==
    /\ rep_pc = "scan"
    /\ ~Scanning
    /\ scan' = ScanEmpty
    /\ rep_pc' = "recv"
    /\ UNCHANGED <<store_sequence_number, objectVars, storeThreadVars, tableVars,
                   pubThreadVars, bindVars, published, sent>>

\* recv throws, and is tried again; or send throws, and the REP socket, still
\* owing an answer, refuses every recv from then on.
RepError ==
    /\ "zmq" \in Failures
    /\ rep_owner # NoPublisher
    /\ \/ rep_pc = "recv" /\ UNCHANGED rep_pc
       \/ rep_pc = "scan" /\ ~Scanning /\ rep_pc' = "broken"
    /\ isRepBinded' = [isRepBinded EXCEPT ![rep_owner] = FALSE]
    /\ UNCHANGED <<storeVars, pubThreadVars, isPubBinded, pub_owner, rep_owner, published, sent>>
=============================================================================
