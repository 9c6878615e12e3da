----------------------------- MODULE LogRequest -----------------------------
(***************************************************************************)
(* webserver/webserver.py: what xhrLogInit and xhrLogUpdate do with the    *)
(* ids that LogMetadata gave them.  The lock is free by then, and each     *)
(* channel is read with two redis commands, its bounds first and its lines *)
(* second, while the daemon writes on.                                     *)
(***************************************************************************)
EXTENDS LogMetadata, LogReader

VARIABLES
    window,    \* window[r]: the channel r has the bounds of, and the ids it wants
    reply      \* reply[r]: the channels r has read, and the lines it got

requestVars == <<window, reply>>

\* Mutant: the line after the first unknown one.
WindowLate(r, c) ==
    IF c \in DOMAIN asked[r] THEN IdsAfter(log[c], asked[r][c] + 2)
                             ELSE RecentIds(log[c])

\* A channel the client does not know is read like LOG_INIT reads all of them.
Window(r, c) ==
    IF c \in DOMAIN asked[r] THEN IdsAfter(log[c], asked[r][c] + 1)
                             ELSE RecentIds(log[c])

File(r, c, lines) == reply' = [reply EXCEPT ![r] = Put(@, c, lines)]

\* HMGET begin end of the next channel of the answer.
ReadBounds(r, c) ==
    /\ at[r] = "changed" /\ window[r] = <<>>
    /\ c \in DOMAIN answer[r] \ DOMAIN reply[r]
    /\ IF Window(r, c) = {}
       THEN File(r, c, <<>>) /\ UNCHANGED window
       ELSE /\ window' = [window EXCEPT ![r] = Put(<<>>, c, Window(r, c))]
            /\ UNCHANGED reply
    /\ UNCHANGED <<log, i2h, subscribed, webVars>>

\* HMGET of the lines.
ReadLines(r, c) ==
    /\ c \in DOMAIN window[r]
    /\ File(r, c, GetLog(log[c], window[r][c]))
    /\ window' = [window EXCEPT ![r] = <<>>]
    /\ UNCHANGED <<log, i2h, subscribed, webVars>>

\* The session cannot be checked, or `update' not be published on h2i: processXHR
\* turns the exception into a 500.
Refuse(r) ==
    /\ at[r] = "idle"
    /\ at' = [at EXCEPT ![r] = "refused"]
    /\ UNCHANGED <<log, i2h, subscribed, loaded, lastChatIDs, lock, left,
                   partial, waitingEvents, isSet, asked, answer, requestVars>>

\* A redis command raises while the logs are read: another 500.
ReadFails(r) ==
    /\ at[r] = "changed"
    /\ at' = [at EXCEPT ![r] = "broken"]
    /\ window' = [window EXCEPT ![r] = <<>>]
    /\ UNCHANGED <<log, i2h, subscribed, loaded, lastChatIDs, lock, left,
                   partial, waitingEvents, isSet, asked, answer, reply>>

\* The body of the response; for `no change', the request's channels, empty.
Body(r) == IF at[r] = "nochange" THEN [c \in DOMAIN asked[r] |-> <<>>] ELSE reply[r]

HasBody(r) ==
    \/ at[r] = "nochange"
    \/ at[r] = "changed" /\ DOMAIN reply[r] = DOMAIN answer[r]

Broken(r) == at[r] \in {"failed", "broken", "refused"}

\* The response leaves; the thread is free for the next request.
Finish(r) ==
    /\ at' = [at EXCEPT ![r] = "idle"]
    /\ asked' = [asked EXCEPT ![r] = <<>>]
    /\ answer' = [answer EXCEPT ![r] = <<>>]
    /\ reply' = [reply EXCEPT ![r] = <<>>]
    /\ UNCHANGED <<log, i2h, subscribed, loaded, lastChatIDs, lock, left,
                   partial, waitingEvents, isSet, window>>
=============================================================================
