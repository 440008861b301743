--------------------------- MODULE MCMessagingCore ----------------------------
(* Values for checking MessagingCore. *)
EXTENDS MessagingCore, TLC

CONSTANTS topic

MCTopics == {topic}
MCSequenceNumbers == 0 .. 4
MCReplies == {}
Symmetric == Permutations(Ids)
=============================================================================
