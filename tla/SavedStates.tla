---------------------------- MODULE SavedStates -----------------------------
(***************************************************************************)
(* What a file promises that a program writes its state to, bit by bit:    *)
(* after a crash the program is in a state that it was in before, and in   *)
(* no older one than it had when the last write was completed.             *)
(***************************************************************************)
EXTENDS Naturals, Sequences

VARIABLES
    mem,      \* the state of the program
    since     \* its states from the one that a crash would lead back to until now

vars == <<mem, since>>

Init == since = <<mem>>

Change == since' = Append(since, mem')

\* A write, which need not get to the end
Write ==
    /\ \E k \in 2 .. Len(since) : since' = SubSeq(since, k, Len(since))
    /\ UNCHANGED mem

Crash ==
    /\ \E k \in DOMAIN since : mem' = since[k]
    /\ since' = <<mem'>>

\* What a file does not promise, and what one that is spoilt may do: the program is
\* in a state it was never in.  No step of Next.
Elsewhere == since' = <<mem'>>

Next == Change \/ Write \/ Crash

Spec == Init /\ [][Next]_vars

=============================================================================
