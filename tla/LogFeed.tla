------------------------------ MODULE LogFeed ------------------------------
(***************************************************************************)
(* What a channel's log promises to its readers, whoever writes it and in  *)
(* however many redis commands: a sequence of lines that only grows, and   *)
(* only at its end, until it is thrown away as a whole.                    *)
(***************************************************************************)
EXTENDS Naturals, Sequences

CONSTANTS Chan, Line

VARIABLE feed      \* feed[c]: the lines of channel c that a reader can see

Init == feed = [c \in Chan |-> <<>>]

Extend(c) ==
    /\ feed'[c] \in Seq(Line)
    /\ Len(feed[c]) < Len(feed'[c])
    /\ \A i \in 1 .. Len(feed[c]) : feed'[c][i] = feed[c][i]

Discard(c) == feed'[c] = <<>>

Next ==
    \E c \in Chan :
        /\ Extend(c) \/ Discard(c)
        /\ \A d \in Chan \ {c} : feed'[d] = feed[d]
        /\ DOMAIN feed' = Chan

Spec == Init /\ [][Next]_feed
============================================================================
