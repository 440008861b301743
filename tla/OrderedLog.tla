----------------------------- MODULE OrderedLog ------------------------------
(***************************************************************************)
(* What a subscriber is for: a log that only grows, by entries of ever     *)
(* larger numbers above the one it started from, and a reader that takes   *)
(* its entries once each, in order.                                        *)
(***************************************************************************)
EXTENDS Naturals, Sequences

VARIABLES
    first,  \* number the log starts after
    log,    \* every entry accepted
    read    \* how many of them the reader has taken

last == IF log = <<>> THEN first ELSE log[Len(log)].sequence_number

LogInit == log = <<>> /\ read = 0

Accept ==
    /\ Len(log') = Len(log) + 1
    /\ SubSeq(log', 1, Len(log)) = log
    /\ log'[Len(log) + 1].sequence_number > last
    /\ UNCHANGED <<first, read>>

Read ==
    /\ read < Len(log)
    /\ read' = read + 1
    /\ UNCHANGED <<first, log>>

LogSpec == LogInit /\ [][Accept \/ Read]_<<first, log, read>>
=============================================================================
