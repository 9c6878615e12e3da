------------------------------ MODULE Browser ------------------------------
(***************************************************************************)
(* The page that shows the logs and polls for more of them: static/sencha  *)
(* (index.js) and its successor static/mvc (connection.js, Main.js), which *)
(* share their channel dictionary (chaninfo.js).  They differ in two ways, *)
(* chosen by Mvc.  Callbacks run one at a time, so what happens between a  *)
(* response and the next request is one step.                              *)
(***************************************************************************)
EXTENDS Dict, Functions

CONSTANTS Chan, Line, Request,
    Mvc        \* is it the mvc page?

VARIABLES
    page,      \* page[r]: what the callbacks of r's pending request will do
    shown      \* shown[r]: chanDict; for each channel on screen, its log store

browserVars == <<page, shown>>

\* lastid: the last line of the store.
Newest(lines) == CHOOSE i \in DOMAIN lines : \A j \in DOMAIN lines : j <= i

\* Mutant: the next id instead of the last.
LastIDsNext(r) ==
    [c \in {d \in DOMAIN shown[r] : shown[r][d] # <<>>} |-> Newest(shown[r][c]) + 1]

\* RequestLogUpdate: channels without a line have no newestLogID yet.
LastIDs(r) ==
    [c \in {d \in DOMAIN shown[r] : shown[r][d] # <<>>} |-> Newest(shown[r][c])]

\* A line is added when its id is above those in the store; lines come in order.
AddLines(store, lines) ==
    LET new == {i \in DOMAIN lines : \A j \in DOMAIN store : j < i}
    IN  [i \in DOMAIN store \cup new |-> IF i \in new THEN lines[i] ELSE store[i]]

\* ApplyLogUpdate / logUpdate: channels seen for the first time are added.
ApplyLogUpdate(screen, body) ==
    [c \in DOMAIN screen \cup DOMAIN body |->
        LET store == IF c \in DOMAIN screen THEN screen[c] ELSE <<>>
        IN  IF c \in DOMAIN body THEN AddLines(store, body[c]) ELSE store]

\* Mutant: nothing is closed.
CloseNoChannel(screen, body) == screen

\* CloseChannel: the channels the server did not name go.  Mvc has no such thing.
CloseChannel(screen, body) == IF Mvc THEN screen ELSE Restrict(screen, DOMAIN body)

\* The page is loaded and asks for LOG_INIT.
Open(r) ==
    /\ page[r] = "closed"
    /\ page' = [page EXCEPT ![r] = "init"]
    /\ UNCHANGED shown

\* A response, for LOG_INIT or LOG_UPDATE: PollingLogUpdate.
OnSuccess(r, body) ==
    /\ page[r] \in {"init", "poll"}
    /\ shown' = [shown EXCEPT ![r] = CloseChannel(ApplyLogUpdate(@, body), body)]
    /\ page' = [page EXCEPT ![r] = "poll"]

\* The same when there is no updateCallback to call: it throws.
OnSuccessDeaf(r) ==
    /\ page[r] = "deaf"
    /\ page' = [page EXCEPT ![r] = "stopped"]
    /\ UNCHANGED shown

\* An HTTP error: nothing is tried again.
OnServerError(r) ==
    /\ page[r] \in {"init", "poll", "deaf"}
    /\ page' = [page EXCEPT ![r] = "stopped"]
    /\ UNCHANGED shown

\* Mutant: no retry.
AfterNetworkErrorStop(r) == "stopped"

\* The network failed: LOG_UPDATE is sent again, by mvc without its callback.
AfterNetworkError(r) ==
    IF page[r] = "init" THEN "stopped" ELSE IF Mvc THEN "deaf" ELSE "poll"

OnNetworkError(rs) ==
    /\ \A r \in rs : page[r] \in {"init", "poll", "deaf"}
    /\ page' = [r \in Request |-> IF r \in rs THEN AfterNetworkError(r) ELSE page[r]]
    /\ UNCHANGED shown

\* The user reloads the page.
Reload(r) ==
    /\ page[r] # "closed"
    /\ page' = [page EXCEPT ![r] = "closed"]
    /\ shown' = [shown EXCEPT ![r] = <<>>]
============================================================================
