------------------------- MODULE MCDurableSubscriber --------------------------
(* Values for checking DurableSubscriber: three messages, two crashes.       *)
EXTENDS DurableSubscriber

CONSTANTS a, b, c, topic

MCIds == {a, b, c}
MCTopics == {topic}
MCSequenceNumbers == 0 .. 3
MCMessageIds == <<a, b, c>>
MCReplies == {}

\* Once inexact, always inexact, and the properties say nothing of it.
WhileExact == exact
=============================================================================
