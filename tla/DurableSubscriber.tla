-------------------------- MODULE DurableSubscriber --------------------------
(***************************************************************************)
(* A Subscriber with the storage it is given, over crashes and restarts of *)
(* its process.  poll() stores every message it hands out; a new           *)
(* Subscriber starts after the number its storage loads.  That storage     *)
(* knows nothing of the publisher's numbers: it loads its own largest row  *)
(* number, or how many rows it has.                                        *)
(*                                                                         *)
(* The publisher is taken to be one that works: message n carries number   *)
(* n, live messages may be lost or delayed, and an answer holds the        *)
(* messages asked for, up to some last one (MessagingCore shows this of    *)
(* the publisher modelled there).                                          *)
(***************************************************************************)
EXTENDS Subscriber, PersistentStorage

CONSTANTS
    MessageIds,  \* the payloads published, in the order of their numbers
    MaxCrashes   \* bound on crashes of the subscribing process

ASSUME DurableAssumption ==
    /\ MessageIds \in Seq(Ids)
    /\ Topics # {}
    /\ MaxCrashes \in Nat

VARIABLES
    handing,   \* the message poll has stored and not yet returned, if any
    returned,  \* history: numbers of the messages poll has returned, in any life
    crashes,   \* history: how often the process has died
    exact      \* history: no statement has failed, no number was drawn in vain

historyVars == <<returned, crashes, exact>>
durableVars == <<subVars, storeVars, handing, historyVars>>

Messages == DOMAIN MessageIds

Message(n) ==
    [id |-> MessageIds[n], topic |-> CHOOSE topic \in Topics : TRUE, sequence_number |-> n]

\* The answers to a request: what there is of the range, up to some message.
Answers(asked) ==
    LET first == IF asked.start_sequence_number = 0 THEN 1 ELSE asked.start_sequence_number IN
    {[i \in 1 .. n |-> Message(first + i - 1)] :
        n \in {m \in 0 .. Len(MessageIds) : first + m - 1 <= Len(MessageIds)}}

-----------------------------------------------------------------------------
(* The constructor asks the storage once more for its number: POSTGRESQL     *)
(* then makes one more query, which may fail, or succeed where the one of    *)
(* its own constructor failed.                                               *)

SubscriberConstructed ==
    Constructed \cup {[new EXCEPT !.number = LoadSequenceNumber] : new \in Constructed}
                \cup IF backend = "POSTGRESQL" /\ Failures \cap {"open", "database"} # {}
                     THEN {[new EXCEPT !.number = 0] : new \in Constructed}
                     ELSE {}

DurableInit ==
    /\ StoreInit
    /\ SubInit
    /\ handing = <<>>
    /\ returned = {}
    /\ crashes = 0
    /\ exact = storing

\* The process dies and starts again with nothing but its table.
SubRestart ==
    /\ crashes < MaxCrashes
    /\ StoreRestartAs(SubscriberConstructed)
    /\ loaded' = store_sequence_number'
    /\ sub_sequence_number' = loaded'
    /\ sub_pc' = "startup"
    /\ constructed' = FALSE
    /\ message_envelopes' = <<>>
    /\ delivered' = <<>>
    /\ isRecoveringNow' = FALSE
    /\ request' = NoRequest
    /\ missed' = <<>>
    /\ req_connected' = FALSE
    /\ isSubConnected' = FALSE
    /\ subscribed' = FALSE
    /\ sleeping' = 0 /\ tripped' = 0 /\ clearing' = 0
    /\ handing' = <<>>
    /\ crashes' = crashes + 1
    /\ exact' = (exact /\ storing' /\ loaded' = LoadSequenceNumber /\ serial' = serial)
    /\ UNCHANGED returned

-----------------------------------------------------------------------------
(* poll: the message is popped, stored, and only then returned.  Before it   *)
(* is stored nobody but the caller knows of it, so popping and storing are   *)
(* one step; the storage's thread may write it before poll returns.          *)

PollStores ==
    /\ handing = <<>>
    /\ Poll
    /\ StoreMessageEnvelope(Head(message_envelopes))
    /\ handing' = <<Head(message_envelopes)>>
    /\ UNCHANGED historyVars

PollReturns ==
    /\ handing # <<>>
    /\ handing' = <<>>
    /\ returned' = returned \cup {handing[1].sequence_number}
    /\ UNCHANGED <<subVars, storeVars, crashes, exact>>

-----------------------------------------------------------------------------
StoringThread ==
    /\ \/ (PopStored \/ WriteRow) /\ UNCHANGED exact
       \/ InsertFails /\ exact' = FALSE
    /\ UNCHANGED <<subVars, handing, returned, crashes>>

ReceivingThread ==
    /\ \/ Startup
       \/ \E n \in Messages : Receive(Message(n))
       \/ \E reply \in Answers(request) : ReceiveResponse(reply)
       \/ RecoveryStep
       \/ RecoveryError
       \/ ReceiveError
       \/ SubConnect
       \/ TimerStep
    /\ UNCHANGED <<storeVars, handing, historyVars>>

DurableNext ==
    \/ ReceivingThread
    \/ PollStores
    \/ PollReturns
    \/ StoringThread
    \/ SubRestart

DurableSpec == DurableInit /\ [][DurableNext]_durableVars

-----------------------------------------------------------------------------
(* What the durable subscriber promises *)

\* The number after which a new subscriber resumes is the number of messages
\* stored, and this is also the number of the last of them: counting is enough
\* to know the position, over any number of crashes, as long as no message is
\* skipped and none is stored twice under another number.
CountIsNumber ==
    exact => store_sequence_number = loaded + Len(delivered)

\* ... and what the table holds as row n is message n, also where a message was stored
\* in one life and, its row being lost, delivered and stored again in the next.
RowIsMessage ==
    exact => \A n \in Rows : n \in Messages /\ db[n].id = MessageIds[n]

\* Both: what CountIsNumber and RowIsMessage say, so that a number loaded from the
\* table is a position in what was published.
CountIsPosition == CountIsNumber /\ RowIsMessage

\* A crash costs the application at most one message, the one that was stored
\* and not yet returned: every other message before the point where the new
\* subscriber resumes has been returned, in this life or an earlier one.
LostAtMostOnePerCrash ==
    exact => Cardinality((1 .. loaded) \ returned) <= crashes
=============================================================================
