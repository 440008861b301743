---------------------------- MODULE MCSubscriber -----------------------------
(* Values for checking Subscriber: one payload and topic, numbers past the   *)
(* largest int, and answers that are empty, hold one envelope or two, in     *)
(* either order, with holes and with repeats.                                *)
EXTENDS Subscriber, FiniteSets

CONSTANT id, topic

MCIds == {id}
MCTopics == {topic}
MCSequenceNumbers == 1 .. 5
MCStoredNumbers == {0, 1}

MCReplies == {<<>>} \cup [1 .. 1 -> Envelope] \cup [1 .. 2 -> Envelope]
=============================================================================
