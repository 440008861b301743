---------------------------- MODULE MCPublishPath -----------------------------
(* Values for checking PublishPath: one topic, a handful of messages, given   *)
(* to publish in a fixed order (they differ in nothing but their names; this  *)
(* takes the place of a symmetry set, which liveness does not allow).         *)
EXTENDS PublishPath, TLC

CONSTANTS topic, a, b, c

MCTopics == {topic}
MCSequenceNumbers == 0 .. 4
InOrder == (c \in published => b \in published) /\ (b \in published => a \in published)
=============================================================================
