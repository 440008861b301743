------------------------------ MODULE Datatypes ------------------------------
(***************************************************************************)
(* The values the components exchange (datatypes.cpp).  The uuid, body,    *)
(* error, success flag and timestamp of an envelope travel unchanged and   *)
(* together, so one identifier stands for them.  What JSON does to the     *)
(* numbers is modelled: they are printed whole, and read back through      *)
(* cJSON's `valueint`, a C int that cJSON saturates.                       *)
(***************************************************************************)
EXTENDS Naturals, Sequences

CONSTANTS
    Ids,              \* payloads: what tells one published message from another
    Topics,           \* topics an envelope may carry
    SequenceNumbers,  \* numbers a received envelope may carry (a C++ long)
    IntMax            \* largest C int

ASSUME NumbersAssumption == SequenceNumbers \subseteq Nat /\ IntMax \in Nat

Envelope == [id : Ids, topic : Topics, sequence_number : SequenceNumbers]

\* A request for the envelopes start..end; end = 0 asks for all up to the last.
RecoveryRequest == [start_sequence_number : Nat, end_sequence_number : Nat]

\* Mutant of ValueInt: the number is read back whole, as a long would be.
ValueIntUnclamped(n) == n

\* `valueint` of a number n: cJSON's parser clamps what does not fit an int.
ValueInt(n) == IF n >= IntMax THEN IntMax ELSE n

\* Serialize followed by Deserialize, for an envelope, a request and a response.
Transmitted(envelope) ==
    [envelope EXCEPT !.sequence_number = ValueInt(@)]

TransmittedRequest(request) ==
    [start_sequence_number |-> ValueInt(request.start_sequence_number),
     end_sequence_number   |-> ValueInt(request.end_sequence_number)]

TransmittedList(envelopes) ==
    [i \in DOMAIN envelopes |-> Transmitted(envelopes[i])]
=============================================================================
