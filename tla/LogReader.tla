----------------------------- MODULE LogReader -----------------------------
(***************************************************************************)
(* webserver/LogReader.py: which lines of a channel's log a request reads. *)
(*                                                                         *)
(* A channel's log is one redis hash: the fields `begin' and `end' bound   *)
(* the ids of its lines, and the field named by an id holds that line.     *)
(* The reader asks for begin and end first and for the lines in a second   *)
(* command, so each window below is an operator on the hash as the first   *)
(* command saw it, and GetLog one on the hash as the second one saw it.    *)
(***************************************************************************)
EXTENDS Dict, Functions

CONSTANTS INIT_LOG_LINES, UPDATE_LOG_LINES, OLD_LOG_LINES

ASSUME LogLinesAssumption ==
    /\ INIT_LOG_LINES \in Nat \ {0}
    /\ UPDATE_LOG_LINES \in Nat \ {0}
    /\ OLD_LOG_LINES \in Nat \ {0}

Larger(a, b)  == IF a > b THEN a ELSE b
Smaller(a, b) == IF a < b THEN a ELSE b

\* A hash without both bounds has nothing to read.
Readable(h) == h.begin # Nil /\ h.end # Nil

----------------------------------------------------------------------------
(* The ids asked for; an empty interval is the early return of getLog.     *)

\* Mutant: the interval is taken for a closed one.
RecentIdsClosed(h) ==
    IF Readable(h) THEN Larger(h.begin, h.end - INIT_LOG_LINES) .. h.end ELSE {}

\* LOG_INIT: the last INIT_LOG_LINES lines.
RecentIds(h) ==
    IF Readable(h) THEN Larger(h.begin, h.end - INIT_LOG_LINES) .. h.end - 1 ELSE {}

\* LOG_UPDATE: at most UPDATE_LOG_LINES lines, from the first unknown one.
IdsAfter(h, known) ==
    LET from == Larger(h.begin, known)
    IN  IF Readable(h)
        THEN from .. Smaller(h.end, from + UPDATE_LOG_LINES) - 1
        ELSE {}

\* LOG_OLD: at most OLD_LOG_LINES lines just before the first known one.
IdsBefore(h, known) ==
    LET upTo == Smaller(h.end, known)
    IN  IF Readable(h) THEN Larger(h.begin, upTo - OLD_LOG_LINES) .. upTo - 1 ELSE {}

\* getLog: the lines with these ids that are still there, in id order.
GetLog(h, ids) == Restrict(h.lines, ids \cap DOMAIN h.lines)
============================================================================
