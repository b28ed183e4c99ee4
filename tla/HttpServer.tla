------------------------------ MODULE HttpServer ------------------------------
(* The panel's HTTP server (HttpServer.h): one client at a time, in the order  *)
(* of their connections. A browser may connect ahead of its request and send   *)
(* nothing, or stop within it; reading a request blocks the loop.              *)
EXTENDS Naturals, Sequences, SequencesExt

CONSTANTS Browsers,
          MAX_PENDING     \* the connections lwIP keeps for accept

ASSUME BrowsersAssumption == MAX_PENDING \in Nat \ {0}

VARIABLES data,      \* of each browser: "away", or what it sent: "none", "part", "whole"
          queue,     \* connected and not accepted yet
          client,    \* _client ("" when there is none)
          idle,      \* since it was accepted: "short", over "YIELD_MS", over "WAIT_MS"
          reading,   \* inside _serve
          quiet      \* nothing came for READ_MS of it

httpVars == <<data, queue, client, idle, reading, quiet>>

HttpInit ==
    /\ data = [b \in Browsers |-> "away"] /\ queue = <<>> /\ client = ""
    /\ idle = "short" /\ reading = FALSE /\ quiet = FALSE

Connected == {b \in Browsers : data[b] # "away"}

Connects(b, what) ==
    /\ data[b] = "away" /\ Len(queue) < MAX_PENDING
    /\ data' = [data EXCEPT ![b] = what] /\ queue' = Append(queue, b)
    /\ UNCHANGED <<client, idle, reading, quiet>>

Sends(b, what) ==
    /\ data[b] \in {"none", "part"} /\ data' = [data EXCEPT ![b] = what]
    /\ quiet' = IF b = client THEN FALSE ELSE quiet
    /\ UNCHANGED <<queue, client, idle, reading>>

\* The browser closes before its request is whole. In the queue it is accepted
\* and dropped at once; being read, it ends the reading (_getc).
Leaves(b) ==
    /\ b \in Connected /\ data[b] # "whole"
    /\ data' = [data EXCEPT ![b] = "away"]
    /\ \/ b = client /\ client' = "" /\ reading' = FALSE /\ quiet' = FALSE /\ UNCHANGED queue
       \/ \E i \in DOMAIN queue : queue[i] = b /\ queue' = RemoveAt(queue, i) /\ UNCHANGED <<client, reading, quiet>>
    /\ UNCHANGED idle

Drop ==
    /\ data' = [data EXCEPT ![client] = "away"] /\ client' = ""
    /\ idle' = "short" /\ reading' = FALSE /\ quiet' = FALSE /\ UNCHANGED queue

\* handleClient, in the order of its conditions.
Accepts ==
    /\ client = "" /\ queue # <<>>
    /\ client' = Head(queue) /\ queue' = Tail(queue) /\ idle' = "short"
    /\ UNCHANGED <<data, reading, quiet>>

SentNothing(b) == b # "" /\ data[b] = "none"
Other == Len(queue) = MAX_PENDING \/ \E i \in DOMAIN queue : data[queue[i]] # "none"

Idles ==
    /\ SentNothing(client) /\ idle # "WAIT_MS"
    /\ idle' = IF idle = "short" THEN "YIELD_MS" ELSE "WAIT_MS"
    /\ UNCHANGED <<data, queue, client, reading, quiet>>

\* The idle one yields to another with data, or after WAIT_MS.
Yields == SentNothing(client) /\ (idle = "WAIT_MS" \/ (Other /\ idle = "YIELD_MS")) /\ Drop

Serves ==
    /\ client # "" /\ ~SentNothing(client) /\ ~reading
    /\ reading' = TRUE /\ quiet' = FALSE /\ UNCHANGED <<data, queue, client, idle>>

Answers == reading /\ data[client] = "whole" /\ Drop

ReadWaits == reading /\ ~quiet /\ data[client] = "part" /\ quiet' = TRUE /\ UNCHANGED <<data, queue, client, idle, reading>>
\* Nothing for READ_MS: 400.
ReadEnds == reading /\ quiet /\ data[client] = "part" /\ Drop

\* Mutant: only each chunk has a deadline.
NeverLate == reading /\ quiet /\ data[client] = "part" /\ Drop
\* REQUEST_MS for the whole request, however it trickles in: 408.
Late == reading /\ data[client] = "part" /\ Drop

HttpOff ==
    /\ data' = [b \in Browsers |-> "away"] /\ queue' = <<>> /\ client' = ""
    /\ idle' = "short" /\ reading' = FALSE /\ quiet' = FALSE

=============================================================================
