------------------------------- MODULE McpPool -------------------------------
(***************************************************************************)
(* The pooled client of one MCP server (services/api/src/mcp-discovery.ts) *)
(* and the requests that share it: discoveries, which take turns, and      *)
(* executions (mcp-execution.ts), each a discovery and then a call.        *)
(*                                                                         *)
(* The protocol client is external: closing one rejects the requests it    *)
(* has in flight.  Clients are numbered as they are made; 0 is none.  An   *)
(* idle timer whose handle was overwritten still fires: it is lost.        *)
(***************************************************************************)
EXTENDS Naturals, Sequences

CONSTANTS
  MaxRequests,   \* bound: requests made
  MaxVersions,   \* bound: versions of the server's declaration
  Overlapping    \* whether requests may overlap, as a set of BOOLEAN

ASSUME PoolAssumption ==
  MaxRequests \in Nat /\ MaxVersions \in Nat /\ Overlapping \subseteq BOOLEAN

VARIABLES
  overlap,    \* whether they do: without it, one at a time holds the server's lock
  requests,   \* every request, in the order made
  turns,      \* discoveryQueues: the discoveries that wait or run, in order
  clients,    \* every client made
  pool        \* clients.get(id)

poolVars == <<overlap, requests, turns, clients, pool>>

Requests == DOMAIN requests
Clients == DOMAIN clients

InFlight == { r \in Requests : requests[r].at \in {"connecting", "sent"} }
Pending == { r \in Requests : requests[r].at # "done" }

Init ==
  /\ overlap \in Overlapping
  /\ requests = <<>> /\ turns = <<>> /\ clients = <<>> /\ pool = 0

-----------------------------------------------------------------------------
(* A request's steps *)

\* Each reads the operator's catalog anew, which may have been edited since.
Declared == IF requests = <<>> THEN 1 ELSE requests[Len(requests)].key

Ask ==
  /\ Len(requests) < MaxRequests
  /\ Pending = {} \/ overlap
  /\ \E kind \in {"discovery", "execution"}, key \in Declared..MaxVersions :
       requests' = Append(requests, [kind |-> kind, key |-> key, at |-> "queued",
                                     phase |-> "discovery", client |-> 0,
                                     result |-> "none"])
  /\ turns' = Append(turns, Len(requests) + 1)
  /\ UNCHANGED <<overlap, clients, pool>>

MayPool(r) == \/ requests[r].at = "queued" /\ Head(turns) = r
              \/ requests[r].at = "listed"

Uses(r, client, at) ==
  requests' = [requests EXCEPT ![r].client = client, ![r].at = at]

Ends_keeping_turn(r, result) ==
  /\ requests' = [requests EXCEPT ![r].at = "done", ![r].result = result]
  /\ UNCHANGED turns

\* finally: release the turn, if the request still has it.
Ends(r, result) ==
  /\ requests' = [requests EXCEPT ![r].at = "done", ![r].result = result]
  /\ turns' = IF requests[r].phase = "discovery" THEN Tail(turns) ELSE turns

\* executeMcpTool: what fails before the call is sent serves no other call either.
Failure(r) == IF requests[r].phase = "discovery" THEN "unavailable" ELSE "failed"

Closed(c) == [clients EXCEPT ![c].state = "closed"]

\* pooledClient finds the client, which is no longer idle.
PoolHit(r) ==
  /\ MayPool(r) /\ pool # 0 /\ clients[pool].key = requests[r].key
  /\ Uses(r, pool, "sent")
  /\ clients' = [clients EXCEPT ![pool].idle = FALSE]
  /\ UNCHANGED <<overlap, turns, pool>>

\* It replaces one of another declaration, and connects.
PoolMiss(r) ==
  /\ MayPool(r)
  /\ pool # 0 => clients[pool].key # requests[r].key
  /\ Uses(r, Len(clients) + 1, "connecting")
  /\ clients' = Append(IF pool = 0 THEN clients
                       ELSE [clients EXCEPT ![pool].state = "closed", ![pool].idle = FALSE],
                       [key |-> requests[r].key, state |-> "connecting",
                        idle |-> FALSE, lost |-> 0])
  /\ pool' = 0
  /\ UNCHANGED <<overlap, turns>>

\* The authorization variable is unset: nothing is touched.
PoolRefused(r) ==
  /\ requests[r].at = "queued" /\ MayPool(r)
  /\ Ends(r, "unavailable")
  /\ UNCHANGED <<overlap, clients, pool>>

Connected(r) ==
  /\ requests[r].at = "connecting"
  /\ Uses(r, requests[r].client, "sent")
  /\ clients' = [clients EXCEPT ![requests[r].client].state = "open"]
  /\ pool' = requests[r].client
  /\ UNCHANGED <<overlap, turns>>

ConnectFails(r) ==
  /\ requests[r].at = "connecting"
  /\ Ends(r, Failure(r))
  /\ clients' = Closed(requests[r].client)
  /\ UNCHANGED <<overlap, pool>>

Live(r) == requests[r].at = "sent" /\ clients[requests[r].client].state = "open"

SetIdle_never(r) == UNCHANGED clients

\* discoverUnlocked's finally sets a timer and forgets the one it finds,
\* invokeMcpTool's clears that one; both leave a client alone that is not pooled.
SetIdle(r) ==
  LET c == requests[r].client IN
  clients' = IF pool # c THEN clients
             ELSE [clients EXCEPT ![c].idle = TRUE,
                                  ![c].lost = IF clients[c].idle /\ requests[r].phase = "discovery"
                                              THEN @ + 1 ELSE @]

Listed(r) ==
  /\ Live(r) /\ requests[r].phase = "discovery"
  /\ SetIdle(r)
  /\ \/ requests[r].kind = "discovery" /\ Ends(r, "completed")
     \/ requests[r].kind = "execution" /\ Ends(r, "unavailable")
     \/ /\ requests[r].kind = "execution"
        /\ requests' = [requests EXCEPT ![r].at = "listed", ![r].phase = "call"]
        /\ turns' = Tail(turns)
  /\ UNCHANGED <<overlap, pool>>

Called(r) ==
  /\ Live(r) /\ requests[r].phase = "call"
  /\ SetIdle(r)
  /\ Ends(r, "completed")
  /\ UNCHANGED <<overlap, pool>>

\* catch: forget whatever client is pooled, and close one's own.
Drops(r, result) ==
  /\ Ends(r, result)
  /\ clients' = Closed(requests[r].client)
  /\ pool' = 0
  /\ UNCHANGED overlap

\* A bad answer, too large a one, a timeout or the caller's abort.
RequestFails(r) == Live(r) /\ Drops(r, Failure(r))

\* The client was closed under the request.
Rejected(r) ==
  /\ requests[r].at = "sent" /\ ~ Live(r)
  /\ Drops(r, "cut off")

Fires(c) ==
  /\ pool' = 0
  /\ UNCHANGED <<overlap, requests, turns>>

IdleEnds(c) ==
  \/ /\ clients[c].idle
     /\ clients' = [Closed(c) EXCEPT ![c].idle = FALSE]
     /\ Fires(c)
  \/ /\ clients[c].lost > 0
     /\ clients' = [Closed(c) EXCEPT ![c].lost = @ - 1]
     /\ Fires(c)

-----------------------------------------------------------------------------

\* Every step of a request ends: each has its own time limit.
Step(r) == \/ PoolHit(r) \/ PoolMiss(r) \/ PoolRefused(r)
           \/ Connected(r) \/ ConnectFails(r)
           \/ Listed(r) \/ Called(r) \/ RequestFails(r) \/ Rejected(r)

Next == \/ Ask
        \/ \E r \in Requests : Step(r)
        \/ \E c \in Clients : IdleEnds(c)

PoolFairness == \A r \in 1..MaxRequests : WF_poolVars(r \in Requests /\ Step(r))

PoolSpec == Init /\ [][Next]_poolVars /\ PoolFairness

-----------------------------------------------------------------------------
(* Properties *)

Request == [kind : {"discovery", "execution"}, key : 1..MaxVersions,
            at : {"queued", "connecting", "sent", "listed", "done"},
            phase : {"discovery", "call"}, client : Nat,
            result : {"none", "completed", "unavailable", "failed", "cut off"}]

Client == [key : 1..MaxVersions, state : {"connecting", "open", "closed"},
           idle : BOOLEAN, lost : Nat]

PoolTypeOK ==
  /\ overlap \in BOOLEAN
  /\ requests \in Seq(Request) /\ turns \in Seq(Requests)
  /\ clients \in Seq(Client) /\ pool \in 0..Len(clients)

\* However requests, failures and timers overlap, the pool never offers a
\* closed client, and a request goes to a client of the declaration it read.
PoolIsSound ==
  /\ pool # 0 => clients[pool].state = "open"
  /\ \A r \in InFlight : clients[requests[r].client].key = requests[r].key

\* An open client is in use, or has a timer that will close it.
Remembered(c) ==
  \/ \E r \in InFlight : requests[r].client = c
  \/ clients[c].idle \/ clients[c].lost > 0

NoneForgotten == \A c \in Clients : clients[c].state = "open" => Remembered(c)

\* A call fails by itself only ("anything after fails only this call",
\* mcp-execution.ts:70-71).
CallsFailAlone ==
  \A r \in Requests : requests[r].phase = "call" => requests[r].result # "cut off"

\* While one request at a time reaches the server, as the executions of one
\* batch do, no connection is left open for good and none is cut off.
McpPoolSafe ==
  /\ PoolTypeOK /\ PoolIsSound
  /\ ~ overlap => /\ NoneForgotten
                  /\ \A r \in Requests : requests[r].result # "cut off"

\* Every request is answered: a discovery that fails gives its turn back.  (The
\* requests are MaxRequests at most, so that there comes a time after the last.)
RequestsEnd == []<>(Pending = {})

=============================================================================
