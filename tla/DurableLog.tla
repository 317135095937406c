----------------------------- MODULE DurableLog -----------------------------
(***************************************************************************)
(* What a stored session promises whoever reads it back, whichever process *)
(* wrote it and however it ended: the log is a sequence of records that    *)
(* grows at its end.  A record may still go while its append has not       *)
(* resolved (it was torn by a crash or rolled back); once acknowledged it  *)
(* keeps its place for ever.                                               *)
(***************************************************************************)
EXTENDS Naturals, Sequences

CONSTANT Record

VARIABLES log,     \* the records a reader of the file gets
          acked    \* the first acked of them belong to appends that resolved

dvars == <<log, acked>>

DInit == log = <<>> /\ acked = 0

\* Records reach the file at its end; some of what is there is acknowledged.
Extend == /\ log' \in Seq(Record) /\ Len(log) <= Len(log')
          /\ SubSeq(log', 1, Len(log)) = log
          /\ acked' \in acked .. Len(log')

\* Bytes of an append that never resolved are cut off.
CutBack == /\ \E n \in acked .. Len(log) : log' = SubSeq(log, 1, n)
           /\ UNCHANGED acked

DNext == Extend \/ CutBack

DSpec == DInit /\ [][DNext]_dvars

\* The acknowledged part of the log is never rewritten, shortened or reordered.
AckedStands == [][ /\ acked <= acked'
                   /\ SubSeq(log', 1, acked) = SubSeq(log, 1, acked) ]_dvars

AckedIsStored == acked <= Len(log)

=============================================================================
