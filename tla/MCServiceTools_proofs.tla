------------------------- MODULE MCServiceTools_proofs -------------------------
(***************************************************************************)
(* Proofs about what the service runs tools with, for any limits of a      *)
(* command and any habits of its processes, and for any number of requests *)
(* to an MCP server and of versions of its declaration.                    *)
(***************************************************************************)
EXTENDS MCServiceTools, TLAPS

-----------------------------------------------------------------------------
(* One command *)

\* What became of the process, by what runCommandTool has returned.
ProcessInv ==
  /\ promise = "uncalled" => leader = "none" /\ outcome = "exited"
  /\ leader \in {"none", "unstarted"} => helper = "none" /\ written = 0
  /\ service = "up" => (live <=> promise = "pending")
  /\ timer => promise = "pending"
  /\ Command!Settled => /\ leader \in {"none", "unstarted", "reaped"}
                        /\ ~ Command!OutputHeld /\ read = written

\* Why the command is stopped has happened.
OutcomeInv ==
  /\ outcome = "exited" => read <= MaxOutput
  /\ outcome = "output_limit_exceeded" => read > MaxOutput
  /\ outcome = "cancelled" => aborted
  /\ outcome = "timeout" => ~ timer

CommandInv ==
  /\ Command!CommandTypeOK /\ read <= written
  /\ ProcessInv /\ OutcomeInv
  /\ Command!ResultIsWhole /\ Command!GoneAfterwards

LEMMA CommandInitInv ==
  ASSUME Command!Init  PROVE CommandInv
<1>1. read = 0 /\ written = 0 /\ read <= written /\ 0 \in 0..MaxChunks /\ read <= MaxOutput
  BY CommandAssumption DEF Command!Init
<1>4. Command!CommandTypeOK
  BY <1>1 DEF Command!Init, Command!CommandTypeOK
<1>5. OutcomeInv
  BY <1>1 DEF Command!Init, OutcomeInv
<1>2. ProcessInv
  BY DEF Command!Init, ProcessInv, Command!Settled
<1>3. Command!ResultIsWhole /\ Command!GoneAfterwards
  BY DEF Command!Init, Command!Settled, Command!ResultIsWhole, Command!GoneAfterwards
<1>. QED  BY <1>1, <1>2, <1>3, <1>4, <1>5 DEF CommandInv

\* What a signal does to the group: nobody comes to life.
LEMMA Signalled ==
  ASSUME NEW signal, Command!KillTree(signal), asked \in BOOLEAN,
         helper \in {"none", "running", "dead"},
         leader \in {"none", "unstarted", "running", "dead", "reaped"}
  PROVE  /\ asked' \in BOOLEAN
         /\ leader' = leader \/ (leader \in {"running", "dead"} /\ leader' = "dead")
         /\ helper' = helper \/ (helper = "running" /\ helper' = "dead")
  BY DEF Command!KillTree, Command!processVars

LEMMA CommandStepInv ==
  ASSUME CommandInv, Command!Next
  PROVE  CommandInv'
<1>. USE CommandAssumption
     DEF CommandInv, Command!CommandTypeOK, ProcessInv, OutcomeInv, Command!Settled,
         Command!OutputHeld, Command!ResultIsWhole, Command!GoneAfterwards, Command!Orphaned
<1>1. CASE Command!Call
  <2>1. Command!CommandTypeOK' /\ read' <= written'
    BY <1>1 DEF Command!Call, Command!natureVars
  <2>2. ProcessInv'
    BY <1>1 DEF Command!Call, Command!natureVars
  <2>3. OutcomeInv'
    BY <1>1 DEF Command!Call, Command!natureVars
  <2>4. Command!ResultIsWhole'
    BY <1>1 DEF Command!Call, Command!natureVars
  <2>5. Command!GoneAfterwards'
    BY <1>1 DEF Command!Call, Command!natureVars
  <2>. QED  BY <2>1, <2>2, <2>3, <2>4, <2>5
<1>2. CASE Command!SpawnError
  <2>1. Command!CommandTypeOK' /\ read' <= written'
    BY <1>2 DEF Command!SpawnError, Command!Settle, Command!natureVars, Command!processVars
  <2>2. ProcessInv'
    BY <1>2 DEF Command!SpawnError, Command!Settle, Command!natureVars, Command!processVars
  <2>3. OutcomeInv'
    BY <1>2 DEF Command!SpawnError, Command!Settle, Command!natureVars, Command!processVars
  <2>4. Command!ResultIsWhole'
    BY <1>2 DEF Command!SpawnError, Command!Settle, Command!natureVars, Command!processVars
  <2>5. Command!GoneAfterwards'
    BY <1>2 DEF Command!SpawnError, Command!Settle, Command!natureVars, Command!processVars
  <2>. QED  BY <2>1, <2>2, <2>3, <2>4, <2>5
<1>3. CASE Command!TimeLimit
  BY <1>3, Signalled DEF Command!TimeLimit, Command!Stop, Command!natureVars, Command!processVars
<1>4. CASE Command!Abort
  <2>1. Command!CommandTypeOK' /\ read' <= written'
    BY <1>4, Signalled DEF Command!Abort, Command!Stop, Command!natureVars, Command!processVars
  <2>2. ProcessInv'
    BY <1>4, Signalled DEF Command!Abort, Command!Stop, Command!natureVars, Command!processVars
  <2>3. OutcomeInv'
    BY <1>4, Signalled DEF Command!Abort, Command!Stop, Command!natureVars, Command!processVars
  <2>4. Command!ResultIsWhole'
    BY <1>4, Signalled DEF Command!Abort, Command!Stop, Command!natureVars, Command!processVars
  <2>5. Command!GoneAfterwards'
    BY <1>4, Signalled DEF Command!Abort, Command!Stop, Command!natureVars, Command!processVars
  <2>. QED  BY <2>1, <2>2, <2>3, <2>4, <2>5
<1>5. CASE Command!Data
  <2>1. /\ service = "up" /\ read < written /\ read' = read + 1 /\ written' = written
        /\ service' = service /\ promise' = promise /\ timer' = timer /\ live' = live
        /\ aborted' = aborted /\ stubborn' = stubborn /\ holding' = holding
    BY <1>5 DEF Command!Data, Command!natureVars
  <2>2. /\ outcome' = outcome \/ (outcome = "exited" /\ outcome' = "output_limit_exceeded")
        /\ read' > MaxOutput => outcome' # "exited"
        /\ outcome' # outcome => read' > MaxOutput
        /\ grace' \in BOOLEAN
    BY <1>5 DEF Command!Data, Command!Stop
  <2>3. /\ asked' \in BOOLEAN
        /\ leader' = leader \/ (leader \in {"running", "dead"} /\ leader' = "dead")
        /\ helper' = helper \/ (helper = "running" /\ helper' = "dead")
    BY <1>5, Signalled DEF Command!Data, Command!Stop, Command!processVars
  <2>4. Command!CommandTypeOK' /\ read' <= written'
    BY <2>1, <2>2, <2>3
  <2>5. ProcessInv'
    BY <2>1, <2>2, <2>3
  <2>6. OutcomeInv'
    BY <2>1, <2>2
  <2>7. Command!ResultIsWhole'
    BY <2>1
  <2>8. Command!GoneAfterwards'
    BY <2>1, <2>3
  <2>. QED  BY <2>4, <2>5, <2>6, <2>7, <2>8
<1>6. CASE Command!GraceEnds
  <2>1. Command!CommandTypeOK' /\ read' <= written'
    BY <1>6, Signalled DEF Command!GraceEnds, Command!natureVars
  <2>2. ProcessInv'
    BY <1>6, Signalled DEF Command!GraceEnds, Command!natureVars
  <2>3. OutcomeInv'
    BY <1>6, Signalled DEF Command!GraceEnds, Command!natureVars
  <2>4. Command!ResultIsWhole'
    BY <1>6, Signalled DEF Command!GraceEnds, Command!natureVars
  <2>5. Command!GoneAfterwards'
    BY <1>6, Signalled DEF Command!GraceEnds, Command!natureVars
  <2>. QED  BY <2>1, <2>2, <2>3, <2>4, <2>5
<1>7. CASE Command!Exit
  BY <1>7 DEF Command!Exit, Command!natureVars
<1>8. CASE Command!Close
  BY <1>8 DEF Command!Close, Command!Closes, Command!Settle, Command!natureVars, Command!processVars
<1>9. CASE Command!Shutdown
  <2>1. /\ service = "up" /\ service' = "down" /\ live' = FALSE
        /\ promise' = promise /\ outcome' = outcome /\ timer' = timer /\ grace' = grace
        /\ aborted' = aborted /\ stubborn' = stubborn /\ holding' = holding
        /\ written' = written /\ read' = read
    BY <1>9 DEF Command!Shutdown, Command!natureVars
  <2>2. /\ asked' \in BOOLEAN
        /\ leader' = leader \/ (leader \in {"running", "dead"} /\ leader' = "dead")
        /\ helper' = helper \/ (helper = "running" /\ helper' = "dead")
    BY <1>9, Signalled DEF Command!Shutdown, Command!processVars
  <2>3. live /\ leader \in {"running", "dead"} => leader' = "dead" /\ helper' # "running"
    BY <1>9 DEF Command!Shutdown, Command!KillTree
  <2>4. Command!CommandTypeOK' /\ read' <= written'
    BY <2>1, <2>2
  <2>5. ProcessInv'
    BY <2>1, <2>2
  <2>6. OutcomeInv' /\ Command!ResultIsWhole'
    BY <2>1
  <2>7. Command!GoneAfterwards'
    <3>1. ~ live => leader \in {"none", "unstarted", "reaped"}
      BY <2>1
    <3>2. leader \in {"none", "unstarted"} => helper = "none"
      OBVIOUS
    <3>. QED  BY <2>1, <2>2, <2>3, <3>1, <3>2
  <2>. QED  BY <2>4, <2>5, <2>6, <2>7
<1>10. CASE Command!Writes
  BY <1>10 DEF Command!Writes, Command!natureVars, Command!processVars
<1>11. CASE Command!StartsHelper
  BY <1>11 DEF Command!StartsHelper, Command!natureVars
<1>12. CASE Command!LeaderEnds \/ Command!HelperEnds \/ Command!Obeys
  <2>1. /\ service' = service /\ promise' = promise /\ outcome' = outcome /\ timer' = timer
        /\ grace' = grace /\ live' = live /\ aborted' = aborted /\ asked' = asked
        /\ stubborn' = stubborn /\ holding' = holding /\ written' = written /\ read' = read
    BY <1>12 DEF Command!LeaderEnds, Command!HelperEnds, Command!Obeys, Command!natureVars
  <2>2. \/ leader = "running" /\ leader' = "dead" /\ helper' = helper
        \/ helper = "running" /\ helper' = "dead" /\ leader' = leader
    BY <1>12 DEF Command!LeaderEnds, Command!HelperEnds, Command!Obeys
  <2>3. Command!CommandTypeOK' /\ read' <= written'
    BY <2>1, <2>2
  <2>4. ProcessInv'
    BY <2>1, <2>2
  <2>5. OutcomeInv' /\ Command!ResultIsWhole'
    BY <2>1
  <2>6. Command!GoneAfterwards'
    BY <2>1, <2>2
  <2>. QED  BY <2>3, <2>4, <2>5, <2>6
<1>. QED
  BY <1>1, <1>2, <1>3, <1>4, <1>5, <1>6, <1>7, <1>8, <1>9, <1>10, <1>11, <1>12
  DEF Command!Next

-----------------------------------------------------------------------------
(* The clients of one MCP server *)

\* A discovery that is not over has a turn, and the first one while it asks.
TurnsInv ==
  \A r \in Requests :
    /\ requests[r].at = "queued" => requests[r].phase = "discovery"
    /\ requests[r].at = "listed" => requests[r].phase = "call"
    /\ requests[r].phase = "discovery" /\ requests[r].at # "done" =>
         /\ \E i \in 1..Len(turns) : turns[i] = r
         /\ requests[r].at # "queued" => turns[1] = r

\* A client that connects is its request's own, and has no timer.
ClientsInv ==
  /\ \A r \in InFlight : requests[r].client \in Clients
  /\ \A r \in Requests : requests[r].at = "connecting" =>
       /\ clients[requests[r].client].state = "connecting"
       /\ \A s \in Requests : s # r => requests[s].client # requests[r].client
  /\ \A r \in Requests : requests[r].client <= Len(clients)
  /\ \A c \in Clients : clients[c].state = "connecting" => ~ clients[c].idle /\ clients[c].lost = 0

\* A request that has the server to itself uses the pooled client, and only the
\* pooled client is open or has a timer, when nobody uses it.
AloneInv == ~ overlap =>
  /\ \A r \in Pending, s \in Pending : r = s
  /\ \A c \in Clients :
       /\ clients[c].lost = 0
       /\ clients[c].state = "open" \/ clients[c].idle => c = pool
  /\ \A r \in Requests :
       /\ requests[r].at = "sent" => requests[r].client = pool /\ pool # 0 /\ ~ clients[pool].idle
       /\ requests[r].at = "connecting" => pool = 0
       /\ requests[r].result # "cut off"
  /\ pool # 0 => clients[pool].idle \/ \E r \in Requests : requests[r].at = "sent"

PoolInv == PoolTypeOK /\ PoolIsSound /\ TurnsInv /\ ClientsInv /\ AloneInv

LEMMA PoolTypes ==
  ASSUME PoolTypeOK
  PROVE  /\ Requests = 1..Len(requests) /\ Len(requests) \in Nat
         /\ Clients = 1..Len(clients) /\ Len(clients) \in Nat
         /\ pool \in Clients \cup {0} /\ 0 \notin Clients
         /\ \A r \in Requests : requests[r] \in Request
         /\ \A c \in Clients : clients[c] \in Client
         /\ \A i \in 1..Len(turns) : turns[i] \in Requests
         /\ Len(turns) \in Nat /\ DOMAIN turns = 1..Len(turns)
  BY DEF PoolTypeOK, Requests, Clients

\* The client d with a state, a timer and lost timers.
Client3(d, state, idle, lost) == [key |-> d.key, state |-> state, idle |-> idle, lost |-> lost]

LEMMA ClientFields ==
  ASSUME NEW d \in Client
  PROVE  /\ d.key \in 1..MaxVersions /\ d.state \in {"connecting", "open", "closed"}
         /\ d.idle \in BOOLEAN /\ d.lost \in Nat
         /\ \A state \in {"connecting", "open", "closed"}, idle \in BOOLEAN, lost \in Nat :
              Client3(d, state, idle, lost) \in Client
         /\ \A state, idle, lost :
              /\ [d EXCEPT !.state = state] = Client3(d, state, d.idle, d.lost)
              /\ [d EXCEPT !.idle = idle] = Client3(d, d.state, idle, d.lost)
              /\ [d EXCEPT !.state = state, !.idle = idle] = Client3(d, state, idle, d.lost)
              /\ [d EXCEPT !.idle = idle, !.lost = lost] = Client3(d, d.state, idle, lost)
              /\ [d EXCEPT !.state = state, !.lost = lost] = Client3(d, state, d.idle, lost)
<1>1. /\ d.key \in 1..MaxVersions /\ d.state \in {"connecting", "open", "closed"}
      /\ d.idle \in BOOLEAN /\ d.lost \in Nat
      /\ d = [key |-> d.key, state |-> d.state, idle |-> d.idle, lost |-> d.lost]
  BY DEF Client
<1>2. ASSUME NEW state \in {"connecting", "open", "closed"}, NEW idle \in BOOLEAN, NEW lost \in Nat
      PROVE  Client3(d, state, idle, lost) \in Client
  BY <1>1 DEF Client, Client3
<1>3. ASSUME NEW state, NEW idle, NEW lost
      PROVE  /\ [d EXCEPT !.state = state] = Client3(d, state, d.idle, d.lost)
             /\ [d EXCEPT !.idle = idle] = Client3(d, d.state, idle, d.lost)
             /\ [d EXCEPT !.state = state, !.idle = idle] = Client3(d, state, idle, d.lost)
             /\ [d EXCEPT !.idle = idle, !.lost = lost] = Client3(d, d.state, idle, lost)
             /\ [d EXCEPT !.state = state, !.lost = lost] = Client3(d, state, d.idle, lost)
  <2>1. [d EXCEPT !.state = state] = Client3(d, state, d.idle, d.lost)
    BY <1>1 DEF Client3
  <2>2. [d EXCEPT !.idle = idle] = Client3(d, d.state, idle, d.lost)
    BY <1>1 DEF Client3
  <2>3. [d EXCEPT !.state = state, !.idle = idle] = Client3(d, state, idle, d.lost)
    <3>1. [d EXCEPT !.state = state, !.idle = idle] = [[d EXCEPT !.state = state] EXCEPT !.idle = idle]
      OBVIOUS
    <3>2. [Client3(d, state, d.idle, d.lost) EXCEPT !.idle = idle] = Client3(d, state, idle, d.lost)
      BY DEF Client3
    <3>. QED  BY <2>1, <3>1, <3>2
  <2>4. [d EXCEPT !.idle = idle, !.lost = lost] = Client3(d, d.state, idle, lost)
    <3>1. [d EXCEPT !.idle = idle, !.lost = lost] = [[d EXCEPT !.idle = idle] EXCEPT !.lost = lost]
      OBVIOUS
    <3>2. [Client3(d, d.state, idle, d.lost) EXCEPT !.lost = lost] = Client3(d, d.state, idle, lost)
      BY DEF Client3
    <3>. QED  BY <2>2, <3>1, <3>2
  <2>5. [d EXCEPT !.state = state, !.lost = lost] = Client3(d, state, d.idle, lost)
    <3>1. [d EXCEPT !.state = state, !.lost = lost] = [[d EXCEPT !.state = state] EXCEPT !.lost = lost]
      OBVIOUS
    <3>2. [Client3(d, state, d.idle, d.lost) EXCEPT !.lost = lost] = Client3(d, state, d.idle, lost)
      BY DEF Client3
    <3>. QED  BY <2>1, <3>1, <3>2
  <2>. QED  BY <2>1, <2>2, <2>3, <2>4, <2>5
<1>. QED  BY <1>1, <1>2, <1>3

\* Client c is made what state, idle and lost say, and no other changes.
Becomes(c, state, idle, lost) ==
  clients' = [clients EXCEPT ![c] = Client3(clients[c], state, idle, lost)]

OnlyClient(c, state, idle, lost) ==
  /\ clients' \in Seq(Client) /\ Clients' = Clients /\ Len(clients') = Len(clients)
  /\ \A d \in Clients : clients'[d].key = clients[d].key
  /\ clients'[c].state = state /\ clients'[c].idle = idle /\ clients'[c].lost = lost
  /\ \A d \in Clients : d # c =>
       /\ clients'[d].state = clients[d].state /\ clients'[d].idle = clients[d].idle
       /\ clients'[d].lost = clients[d].lost

LEMMA ClientChanged ==
  ASSUME PoolTypeOK, NEW c \in Clients, NEW state \in {"connecting", "open", "closed"},
         NEW idle \in BOOLEAN, NEW lost \in Nat, Becomes(c, state, idle, lost)
  PROVE  OnlyClient(c, state, idle, lost)
<1>. DEFINE new == Client3(clients[c], state, idle, lost)
<1>1. new \in Client
  BY PoolTypes, ClientFields
<1>2. /\ clients' \in Seq(Client) /\ Clients' = Clients /\ Len(clients') = Len(clients)
      /\ clients'[c] = new /\ \A d \in Clients : d # c => clients'[d] = clients[d]
  BY <1>1 DEF PoolTypeOK, Clients, Becomes
<1>. QED  BY <1>2 DEF Client3, OnlyClient

\* The requests with one of them changed.
LEMMA OneRequest ==
  ASSUME PoolTypeOK, NEW r \in Requests, NEW new \in Request,
         requests' = [requests EXCEPT ![r] = new]
  PROVE  /\ requests' \in Seq(Request) /\ Requests' = Requests
         /\ requests'[r] = new /\ \A s \in Requests : s # r => requests'[s] = requests[s]
  BY DEF PoolTypeOK, Requests

\* A discovery that asks has the first turn, which it then gives back.
LEMMA TurnBack ==
  ASSUME PoolTypeOK, TurnsInv, NEW r \in Requests,
         requests[r].phase = "discovery", requests[r].at # "done",
         requests[r].at = "queued" => Head(turns) = r
  PROVE  /\ turns # <<>> /\ turns[1] = r /\ Tail(turns) \in Seq(Requests)
         /\ \A s \in Requests : s # r /\ requests[s].phase = "discovery"
                                /\ requests[s].at # "done" =>
              /\ requests[s].at = "queued"
              /\ \E i \in 1..Len(Tail(turns)) : Tail(turns)[i] = s
<1>1. turns # <<>> /\ turns[1] = r
  BY PoolTypes DEF TurnsInv, PoolTypeOK
<1>2. /\ Tail(turns) \in Seq(Requests) /\ Len(Tail(turns)) = Len(turns) - 1
      /\ \A i \in 1..Len(Tail(turns)) : Tail(turns)[i] = turns[i + 1]
  BY <1>1 DEF PoolTypeOK
<1>3. ASSUME NEW s \in Requests, s # r, requests[s].phase = "discovery",
             requests[s].at # "done"
      PROVE  /\ requests[s].at = "queued"
             /\ \E i \in 1..Len(Tail(turns)) : Tail(turns)[i] = s
  <2>1. requests[s].at = "queued"
    BY <1>1, <1>3 DEF TurnsInv
  <2>2. PICK i \in 1..Len(turns) : turns[i] = s
    BY <1>3 DEF TurnsInv
  <2>3. i # 1 /\ i - 1 \in 1..Len(Tail(turns)) /\ Tail(turns)[i - 1] = s
    BY <1>1, <1>2, <1>3, <2>2, PoolTypes
  <2>. QED  BY <2>1, <2>3
<1>. QED  BY <1>1, <1>2, <1>3

Results == {"none", "completed", "unavailable", "failed", "cut off"}

\* What Ends does: the request is over, and so is its turn.
LEMMA Ended ==
  ASSUME PoolTypeOK, TurnsInv, NEW r \in Requests, NEW result \in Results,
         Ends(r, result), requests[r].at # "done",
         requests[r].at = "queued" => Head(turns) = r
  PROVE  /\ requests' \in Seq(Request) /\ turns' \in Seq(Requests') /\ Requests' = Requests
         /\ requests'[r].at = "done" /\ requests'[r].result = result
         /\ requests'[r].client = requests[r].client
         /\ \A s \in Requests : s # r => requests'[s] = requests[s]
         /\ TurnsInv'
<1>. DEFINE new == [requests[r] EXCEPT !.at = "done", !.result = result]
<1>1. new \in Request /\ requests' = [requests EXCEPT ![r] = new]
  BY PoolTypes DEF Ends, Request, Results
<1>2. /\ requests' \in Seq(Request) /\ Requests' = Requests
      /\ requests'[r] = new /\ \A s \in Requests : s # r => requests'[s] = requests[s]
  <2>. HIDE DEF new
  <2>. QED  BY <1>1, OneRequest
<1>3. new.at = "done" /\ new.result = result /\ new.client = requests[r].client
  BY PoolTypes DEF Request
<1>4. turns' \in Seq(Requests') /\ TurnsInv'
  <2>. HIDE DEF new
  <2>1. CASE requests[r].phase = "discovery"
    <3>1. turns' = Tail(turns)
      BY <2>1 DEF Ends
    <3>2. /\ Tail(turns) \in Seq(Requests)
          /\ \A s \in Requests : s # r /\ requests[s].phase = "discovery"
                                 /\ requests[s].at # "done" =>
               /\ requests[s].at = "queued"
               /\ \E i \in 1..Len(Tail(turns)) : Tail(turns)[i] = s
      BY <2>1, TurnBack
    <3>. QED  BY <1>2, <1>3, <3>1, <3>2 DEF TurnsInv
  <2>2. CASE requests[r].phase # "discovery"
    <3>1. turns' = turns
      BY <2>2 DEF Ends
    <3>. QED  BY <1>2, <1>3, <3>1 DEF TurnsInv, PoolTypeOK
  <2>. QED  BY <2>1, <2>2
<1>. QED
  <2>. HIDE DEF new
  <2>. QED  BY <1>2, <1>3, <1>4

\* What Uses does: the request goes on with a client.
LEMMA Used ==
  ASSUME PoolTypeOK, TurnsInv, NEW r \in Requests, NEW client \in Nat,
         NEW at \in {"connecting", "sent"}, Uses(r, client, at), turns' = turns,
         MayPool(r) \/ requests[r].at = "connecting"
  PROVE  /\ requests' \in Seq(Request) /\ turns' \in Seq(Requests') /\ Requests' = Requests
         /\ requests'[r].at = at /\ requests'[r].client = client
         /\ requests'[r].key = requests[r].key /\ requests'[r].result = requests[r].result
         /\ \A s \in Requests : s # r => requests'[s] = requests[s]
         /\ TurnsInv'
<1>. DEFINE new == [requests[r] EXCEPT !.client = client, !.at = at]
<1>1. new \in Request /\ requests' = [requests EXCEPT ![r] = new]
  BY PoolTypes DEF Uses, Request
<1>2. /\ requests' \in Seq(Request) /\ Requests' = Requests
      /\ requests'[r] = new /\ \A s \in Requests : s # r => requests'[s] = requests[s]
  <2>. HIDE DEF new
  <2>. QED  BY <1>1, OneRequest
<1>3. /\ new.at = at /\ new.phase = requests[r].phase /\ new.client = client
      /\ new.key = requests[r].key /\ new.result = requests[r].result
  BY PoolTypes DEF Request
<1>4. new.phase = "discovery" => turns[1] = r /\ \E i \in 1..Len(turns) : turns[i] = r
  BY <1>3, PoolTypes, TurnBack DEF TurnsInv, MayPool
<1>5. TurnsInv'
  <2>. HIDE DEF new
  <2>. QED  BY <1>2, <1>3, <1>4 DEF TurnsInv
<1>. QED
  <2>. HIDE DEF new
  <2>. QED  BY <1>2, <1>3, <1>5 DEF PoolTypeOK

\* A step of r, which may change its client or the pooled one, is sound ...
LEMMA SoundStep ==
  ASSUME PoolIsSound, ClientsInv, NEW r \in Requests, Requests' = Requests,
         \A s \in Requests : s # r => requests'[s] = requests[s],
         Clients \subseteq Clients',
         \A d \in Clients : clients'[d].key = clients[d].key,
         r \in InFlight' => /\ requests'[r].client \in Clients'
                            /\ clients'[requests'[r].client].key = requests'[r].key,
         pool' # 0 => clients'[pool'].state = "open"
  PROVE  PoolIsSound' /\ \A s \in InFlight' : requests'[s].client \in Clients'
<1>1. ASSUME NEW s \in InFlight'
      PROVE  /\ requests'[s].client \in Clients'
             /\ clients'[requests'[s].client].key = requests'[s].key
  <2>1. CASE s = r
    BY <1>1, <2>1
  <2>2. CASE s # r
    <3>1. s \in InFlight /\ requests'[s] = requests[s]
      BY <1>1, <2>2 DEF InFlight
    <3>2. requests[s].client \in Clients
      BY <3>1 DEF ClientsInv
    <3>3. clients[requests[s].client].key = requests[s].key
      BY <3>1 DEF PoolIsSound
    <3>. QED  BY <3>1, <3>2, <3>3
  <2>. QED  BY <2>1, <2>2
<1>. QED  BY <1>1 DEF PoolIsSound

\* ... leaves a client that connects to the request that made it ...
LEMMA ClientsStep ==
  ASSUME PoolTypeOK, ClientsInv, NEW r \in Requests, Requests' = Requests,
         \A s \in Requests : s # r => requests'[s] = requests[s],
         Clients \subseteq Clients', Len(clients') \in Nat, Len(clients) <= Len(clients'),
         \A s \in InFlight' : requests'[s].client \in Clients',
         requests'[r].client <= Len(clients'),
         \A d \in Clients : clients[d].state = "connecting" /\ d # requests[r].client =>
           clients'[d].state = "connecting" /\ d # requests'[r].client,
         requests'[r].at = "connecting" =>
           /\ clients'[requests'[r].client].state = "connecting"
           /\ \A s \in Requests : s # r => requests[s].client # requests'[r].client,
         \A d \in Clients' : clients'[d].state = "connecting" =>
           ~ clients'[d].idle /\ clients'[d].lost = 0
  PROVE  ClientsInv'
<1>1. ASSUME NEW s \in Requests, s # r, requests[s].at = "connecting"
      PROVE  /\ clients'[requests[s].client].state = "connecting"
             /\ requests'[r].client # requests[s].client
             /\ \A t \in Requests : t # s => requests[t].client # requests[s].client
  <2>1. requests[s].client \in Clients
    BY <1>1 DEF ClientsInv, InFlight
  <2>2. /\ clients[requests[s].client].state = "connecting"
        /\ \A t \in Requests : t # s => requests[t].client # requests[s].client
    BY <1>1 DEF ClientsInv
  <2>. QED  BY <1>1, <2>1, <2>2
<1>2. ASSUME NEW s \in Requests, requests'[s].at = "connecting"
      PROVE  /\ clients'[requests'[s].client].state = "connecting"
             /\ \A t \in Requests : t # s => requests'[t].client # requests'[s].client
  <2>1. CASE s = r
    BY <1>2, <2>1
  <2>2. CASE s # r
    BY <1>1, <1>2, <2>2
  <2>. QED  BY <2>1, <2>2
<1>3. ASSUME NEW s \in Requests  PROVE requests'[s].client <= Len(clients')
  <2>1. requests[s].client \in Nat /\ requests[s].client <= Len(clients) /\ Len(clients) \in Nat
    BY PoolTypes DEF ClientsInv, Request
  <2>. QED  BY <2>1
<1>. QED  BY <1>2, <1>3 DEF ClientsInv

\* ... and leaves the server to the next request.
LEMMA AloneStep ==
  ASSUME AloneInv, NEW r \in Requests, requests[r].at # "done", Requests' = Requests,
         \A s \in Requests : s # r => requests'[s] = requests[s],
         overlap' = overlap,
         ~ overlap =>
           /\ \A d \in Clients' : /\ clients'[d].lost = 0
                                  /\ clients'[d].state = "open" \/ clients'[d].idle => d = pool'
           /\ requests'[r].at = "sent" =>
                requests'[r].client = pool' /\ pool' # 0 /\ ~ clients'[pool'].idle
           /\ requests'[r].at = "connecting" => pool' = 0
           /\ requests'[r].result # "cut off"
           /\ pool' # 0 => clients'[pool'].idle \/ requests'[r].at = "sent"
  PROVE  AloneInv'
<1>1. ASSUME ~ overlap, NEW s \in Requests, s # r
      PROVE  requests'[s].at = "done" /\ requests'[s].result # "cut off"
  BY <1>1 DEF AloneInv, Pending
<1>. QED  BY <1>1 DEF AloneInv, Pending

LEMMA Client3Fields ==
  /\ \A d, state, idle, lost, i :
       [Client3(d, state, idle, lost) EXCEPT !.idle = i] = Client3(d, state, i, lost)
  /\ \A d, state, idle, lost, n :
       [Client3(d, state, idle, lost) EXCEPT !.lost = n] = Client3(d, state, idle, n)
  BY DEF Client3

\* What the operations do to a client, one field at a time.
LEMMA ClientUpdates ==
  ASSUME PoolTypeOK, NEW c \in Clients
  PROVE  /\ Closed(c) =
              [clients EXCEPT ![c] = Client3(clients[c], "closed", clients[c].idle, clients[c].lost)]
         /\ [clients EXCEPT ![c].state = "open"] =
              [clients EXCEPT ![c] = Client3(clients[c], "open", clients[c].idle, clients[c].lost)]
         /\ [clients EXCEPT ![c].idle = FALSE] =
              [clients EXCEPT ![c] = Client3(clients[c], clients[c].state, FALSE, clients[c].lost)]
         /\ \A i : [clients EXCEPT ![c].state = "closed", ![c].idle = i] =
              [clients EXCEPT ![c] = Client3(clients[c], "closed", i, clients[c].lost)]
         /\ \A i : [Closed(c) EXCEPT ![c].idle = i] =
              [clients EXCEPT ![c] = Client3(clients[c], "closed", i, clients[c].lost)]
         /\ [Closed(c) EXCEPT ![c].lost = @ - 1] =
              [clients EXCEPT ![c] = Client3(clients[c], "closed", clients[c].idle, clients[c].lost - 1)]
         /\ \A i, n : [clients EXCEPT ![c].idle = i, ![c].lost = n] =
              [clients EXCEPT ![c] = Client3(clients[c], clients[c].state, i, n)]
<1>. DEFINE d == clients[c]
<1>1. clients \in Seq(Client) /\ c \in DOMAIN clients /\ d \in Client
  BY PoolTypes DEF PoolTypeOK, Clients
<1>2. ASSUME NEW x, NEW y, NEW z
      PROVE  [[clients EXCEPT ![c] = x] EXCEPT ![c] = y] = [clients EXCEPT ![c] = y]
  BY <1>1
<1>3. Closed(c) = [clients EXCEPT ![c] = Client3(d, "closed", d.idle, d.lost)]
  BY <1>1, ClientFields DEF Closed
<1>4. Closed(c)[c] = Client3(d, "closed", d.idle, d.lost)
  BY <1>1, <1>3
<1>5. [clients EXCEPT ![c].state = "open"] = [clients EXCEPT ![c] = Client3(d, "open", d.idle, d.lost)]
  BY <1>1, ClientFields
<1>6. [clients EXCEPT ![c].idle = FALSE] = [clients EXCEPT ![c] = Client3(d, d.state, FALSE, d.lost)]
  BY <1>1, ClientFields
<1>7. ASSUME NEW i
      PROVE  [Closed(c) EXCEPT ![c].idle = i] = [clients EXCEPT ![c] = Client3(d, "closed", i, d.lost)]
  <2>1. [Client3(d, "closed", d.idle, d.lost) EXCEPT !.idle = i] = Client3(d, "closed", i, d.lost)
    BY Client3Fields
  <2>2. [Closed(c) EXCEPT ![c].idle = i] = [Closed(c) EXCEPT ![c] = [Closed(c)[c] EXCEPT !.idle = i]]
    OBVIOUS
  <2>. QED  BY <1>2, <1>3, <1>4, <2>1, <2>2
<1>8. [Closed(c) EXCEPT ![c].lost = @ - 1] = [clients EXCEPT ![c] = Client3(d, "closed", d.idle, d.lost - 1)]
  <2>1. /\ Client3(d, "closed", d.idle, d.lost).lost = d.lost
        /\ [Client3(d, "closed", d.idle, d.lost) EXCEPT !.lost = d.lost - 1]
             = Client3(d, "closed", d.idle, d.lost - 1)
    BY Client3Fields DEF Client3
  <2>2. [Closed(c) EXCEPT ![c].lost = @ - 1]
          = [Closed(c) EXCEPT ![c] = [Closed(c)[c] EXCEPT !.lost = Closed(c)[c].lost - 1]]
    OBVIOUS
  <2>. QED  BY <1>2, <1>3, <1>4, <2>1, <2>2
<1>9. ASSUME NEW i
      PROVE  [clients EXCEPT ![c].state = "closed", ![c].idle = i] =
               [clients EXCEPT ![c] = Client3(d, "closed", i, d.lost)]
  <2>1. [clients EXCEPT ![c].state = "closed", ![c].idle = i] = [Closed(c) EXCEPT ![c].idle = i]
    BY DEF Closed
  <2>. QED  BY <1>7, <2>1
<1>10. ASSUME NEW i, NEW n
       PROVE  [clients EXCEPT ![c].idle = i, ![c].lost = n] =
                [clients EXCEPT ![c] = Client3(d, d.state, i, n)]
  <2>. DEFINE idled == [clients EXCEPT ![c].idle = i]
  <2>1. idled = [clients EXCEPT ![c] = Client3(d, d.state, i, d.lost)]
    BY <1>1, ClientFields
  <2>2. [clients EXCEPT ![c].idle = i, ![c].lost = n] = [idled EXCEPT ![c] = [idled[c] EXCEPT !.lost = n]]
    OBVIOUS
  <2>3. idled[c] = Client3(d, d.state, i, d.lost)
    BY <1>1, <2>1
  <2>4. [Client3(d, d.state, i, d.lost) EXCEPT !.lost = n] = Client3(d, d.state, i, n)
    BY Client3Fields
  <2>. HIDE DEF idled
  <2>. QED  BY <1>2, <2>1, <2>2, <2>3, <2>4
<1>. QED  BY <1>3, <1>5, <1>6, <1>7, <1>8, <1>9, <1>10

LEMMA HitStep ==
  ASSUME PoolInv, NEW r \in Requests, PoolHit(r)
  PROVE  PoolInv'
<1>0. /\ PoolTypeOK /\ PoolIsSound /\ TurnsInv /\ ClientsInv /\ AloneInv
      /\ MayPool(r) /\ overlap' = overlap /\ pool' = pool /\ turns' = turns
      /\ pool \in Clients /\ pool \in Nat /\ pool # 0 /\ clients[pool].key = requests[r].key
      /\ requests[r].at \in {"queued", "listed"} /\ clients[pool].state = "open"
  BY PoolTypes DEF PoolInv, PoolHit, MayPool, PoolTypeOK, PoolIsSound
<1>1. /\ requests' \in Seq(Request) /\ turns' \in Seq(Requests') /\ Requests' = Requests
      /\ requests'[r].at = "sent" /\ requests'[r].client = pool
      /\ requests'[r].key = requests[r].key /\ requests'[r].result = requests[r].result
      /\ \A s \in Requests : s # r => requests'[s] = requests[s]
      /\ TurnsInv'
  BY <1>0, Used DEF PoolHit
<1>2. Becomes(pool, "open", FALSE, clients[pool].lost)
  BY <1>0, ClientUpdates DEF PoolHit, Becomes
<1>3. clients[pool] \in Client /\ clients[pool].lost \in Nat
  BY <1>0, PoolTypes, ClientFields
<1>4. /\ clients' \in Seq(Client) /\ Clients' = Clients /\ Len(clients') = Len(clients)
      /\ \A d \in Clients : clients'[d].key = clients[d].key
      /\ clients'[pool].state = "open" /\ clients'[pool].idle = FALSE
      /\ clients'[pool].lost = clients[pool].lost
      /\ \A d \in Clients : d # pool =>
           /\ clients'[d].state = clients[d].state /\ clients'[d].idle = clients[d].idle
           /\ clients'[d].lost = clients[d].lost
  BY <1>0, <1>2, <1>3, ClientChanged DEF OnlyClient
<1>5. PoolTypeOK'
  BY <1>0, <1>1, <1>4 DEF PoolTypeOK
<1>6. PoolIsSound' /\ \A s \in InFlight' : requests'[s].client \in Clients'
  BY <1>0, <1>1, <1>4, SoundStep
<1>7. ClientsInv'
  <2>1. Len(clients) \in Nat /\ pool <= Len(clients)
    BY <1>0, PoolTypes
  <2>2. \A d \in Clients' : clients'[d].state = "connecting" =>
          ~ clients'[d].idle /\ clients'[d].lost = 0
    BY <1>0, <1>4 DEF ClientsInv
  <2>3. \A d \in Clients : clients[d].state = "connecting" =>
          clients'[d].state = "connecting" /\ d # requests'[r].client
    BY <1>0, <1>1, <1>4
  <2>4. Len(clients') \in Nat /\ Len(clients) <= Len(clients') /\ requests'[r].client <= Len(clients')
    BY <1>1, <1>4, <2>1
  <2>. QED  BY <1>0, <1>1, <1>4, <1>6, <2>2, <2>3, <2>4, ClientsStep
<1>8. AloneInv'
  <2>1. ~ overlap => \A d \in Clients' :
          clients'[d].lost = 0 /\ (clients'[d].state = "open" \/ clients'[d].idle => d = pool')
    BY <1>0, <1>4 DEF AloneInv
  <2>2. ~ overlap => requests[r].result # "cut off"
    BY <1>0 DEF AloneInv
  <2>. QED  BY <1>0, <1>1, <1>4, <2>1, <2>2, AloneStep
<1>. QED  BY <1>1, <1>5, <1>6, <1>7, <1>8 DEF PoolInv

LEMMA MissStep ==
  ASSUME PoolInv, NEW r \in Requests, PoolMiss(r)
  PROVE  PoolInv'
<1>. DEFINE n == Len(clients) + 1
            left == IF pool = 0 THEN clients
                    ELSE [clients EXCEPT ![pool].state = "closed", ![pool].idle = FALSE]
            fresh == [key |-> requests[r].key, state |-> "connecting",
                      idle |-> FALSE, lost |-> 0]
<1>0. /\ PoolTypeOK /\ PoolIsSound /\ TurnsInv /\ ClientsInv /\ AloneInv
      /\ MayPool(r) /\ overlap' = overlap /\ pool' = 0 /\ turns' = turns
      /\ pool \in Clients \cup {0} /\ pool \in Nat /\ n \in Nat /\ n \notin Clients /\ 0 \notin Clients
      /\ requests[r].at \in {"queued", "listed"}
      /\ clients' = Append(left, fresh)
  BY PoolTypes DEF PoolInv, PoolMiss, MayPool, PoolTypeOK
<1>1. /\ requests' \in Seq(Request) /\ turns' \in Seq(Requests') /\ Requests' = Requests
      /\ requests'[r].at = "connecting" /\ requests'[r].client = n
      /\ requests'[r].key = requests[r].key /\ requests'[r].result = requests[r].result
      /\ \A s \in Requests : s # r => requests'[s] = requests[s]
      /\ TurnsInv'
  BY <1>0, Used DEF PoolMiss
<1>2. /\ left \in Seq(Client) /\ Len(left) = Len(clients)
      /\ \A d \in Clients : /\ left[d].key = clients[d].key
                            /\ left[d].lost = clients[d].lost
                            /\ d # pool => /\ left[d].state = clients[d].state
                                           /\ left[d].idle = clients[d].idle
      /\ pool # 0 => left[pool].state = "closed" /\ left[pool].idle = FALSE
  <2>1. CASE pool = 0
    BY <1>0, <2>1, PoolTypes DEF PoolTypeOK
  <2>2. CASE pool # 0
    <3>. DEFINE new == Client3(clients[pool], "closed", FALSE, clients[pool].lost)
    <3>1. clients[pool] \in Client /\ new \in Client /\ pool \in DOMAIN clients
      <4>1. pool \in Clients /\ clients[pool] \in Client
        BY <1>0, <2>2, PoolTypes
      <4>2. \A i \in BOOLEAN : Client3(clients[pool], "closed", i, clients[pool].lost) \in Client
        BY <4>1, ClientFields
      <4>. QED  BY <4>1, <4>2 DEF Clients
    <3>2. left = [clients EXCEPT ![pool] = new]
      BY <1>0, <2>2, ClientUpdates
    <3>3. /\ new.key = clients[pool].key /\ new.lost = clients[pool].lost
          /\ new.state = "closed" /\ new.idle = FALSE
      BY DEF Client3
    <3>. HIDE DEF new, left
    <3>4. /\ left \in Seq(Client) /\ Len(left) = Len(clients) /\ left[pool] = new
          /\ \A d \in Clients : d # pool => left[d] = clients[d]
      BY <1>0, <3>1, <3>2 DEF PoolTypeOK, Clients
    <3>5. \A d \in Clients : left[d].key = clients[d].key /\ left[d].lost = clients[d].lost
      BY <3>3, <3>4
    <3>. QED  BY <3>3, <3>4, <3>5 DEF left
  <2>. QED  BY <2>1, <2>2
<1>3. fresh \in Client /\ fresh.key = requests[r].key /\ fresh.state = "connecting"
      /\ fresh.idle = FALSE /\ fresh.lost = 0
  <2>1. requests[r].key \in 1..MaxVersions
    BY <1>0, PoolTypes DEF Request
  <2>. QED  BY <2>1 DEF Client
<1>. HIDE DEF left, fresh
<1>4. /\ clients' \in Seq(Client) /\ Len(clients') = n /\ Clients' = Clients \cup {n}
      /\ clients'[n] = fresh /\ \A d \in Clients : clients'[d] = left[d]
  BY <1>0, <1>2, <1>3, PoolTypes DEF Clients
<1>5. /\ clients'[n].key = requests[r].key /\ clients'[n].state = "connecting"
      /\ clients'[n].idle = FALSE /\ clients'[n].lost = 0
      /\ \A d \in Clients : clients'[d].key = clients[d].key
  BY <1>2, <1>3, <1>4
<1>6. PoolTypeOK'
  BY <1>0, <1>1, <1>4 DEF PoolTypeOK
<1>7. PoolIsSound' /\ \A s \in InFlight' : requests'[s].client \in Clients'
  BY <1>0, <1>1, <1>4, <1>5, SoundStep
<1>8. ClientsInv'
  <2>1. \A s \in Requests : requests[s].client # n
    <3>1. ASSUME NEW s \in Requests  PROVE requests[s].client # n
      <4>1. requests[s].client \in Nat /\ Len(clients) \in Nat
        BY <1>0, PoolTypes DEF Request
      <4>2. requests[s].client <= Len(clients)
        BY <1>0 DEF ClientsInv
      <4>. QED  BY <4>1, <4>2
    <3>. QED  BY <3>1
  <2>2. \A d \in Clients : clients[d].state = "connecting" => d # pool /\ d # n
    BY <1>0 DEF PoolIsSound
  <2>3. \A d \in Clients : clients[d].state = "connecting" =>
          clients'[d].state = "connecting" /\ d # n
    BY <1>2, <1>4, <2>2
  <2>4. \A d \in Clients' : clients'[d].state = "connecting" =>
          ~ clients'[d].idle /\ clients'[d].lost = 0
    <3>1. ASSUME NEW d \in Clients, clients'[d].state = "connecting"
          PROVE  ~ clients'[d].idle /\ clients'[d].lost = 0
      <4>1. d # pool /\ clients'[d] = left[d]
        BY <1>0, <1>2, <1>4, <3>1
      <4>. QED  BY <1>0, <1>2, <3>1, <4>1 DEF ClientsInv
    <3>. QED  BY <1>4, <1>5, <3>1
  <2>5. Len(clients) <= Len(clients') /\ Len(clients') \in Nat /\ n <= Len(clients')
    BY <1>0, <1>4, PoolTypes
  <2>6. /\ clients'[requests'[r].client].state = "connecting"
        /\ \A s \in Requests : s # r => requests[s].client # requests'[r].client
        /\ \A d \in Clients : clients[d].state = "connecting" =>
             clients'[d].state = "connecting" /\ d # requests'[r].client
        /\ requests'[r].client <= Len(clients') /\ Clients \subseteq Clients'
    BY <1>1, <1>4, <1>5, <2>1, <2>3, <2>5
  <2>. QED  BY <1>0, <1>1, <1>7, <2>4, <2>5, <2>6, ClientsStep
<1>9. AloneInv'
  <2>1. ~ overlap => \A d \in Clients' :
          clients'[d].lost = 0 /\ (clients'[d].state = "open" \/ clients'[d].idle => d = pool')
    <3>1. ASSUME ~ overlap, NEW d \in Clients
          PROVE  /\ clients'[d].lost = 0
                 /\ ~ (clients'[d].state = "open" \/ clients'[d].idle)
      <4>1. CASE d = pool
        BY <1>0, <1>2, <1>4, <3>1, <4>1 DEF AloneInv
      <4>2. CASE d # pool
        <5>1. clients[d].lost = 0 /\ ~ (clients[d].state = "open" \/ clients[d].idle)
          BY <1>0, <3>1, <4>2 DEF AloneInv
        <5>. QED  BY <1>2, <1>4, <4>2, <5>1
      <4>. QED  BY <4>1, <4>2
    <3>. QED  BY <1>4, <1>5, <3>1
  <2>2. ~ overlap => requests[r].result # "cut off"
    BY <1>0 DEF AloneInv
  <2>. QED  BY <1>0, <1>1, <2>1, <2>2, AloneStep
<1>. QED  BY <1>1, <1>6, <1>7, <1>8, <1>9 DEF PoolInv

\* r is the only request that changed.
OnlyRequest(r) ==
  /\ requests' \in Seq(Request) /\ turns' \in Seq(Requests') /\ Requests' = Requests
  /\ \A s \in Requests : s # r => requests'[s] = requests[s]
  /\ TurnsInv'

LeavesAlone(r, c, state, idle, lost) ==
  ~ overlap => /\ lost = 0 /\ (state = "open" \/ idle => pool' = c)
               /\ requests'[r].at = "sent" => pool' = c /\ ~ idle
               /\ pool' # 0 => pool' = c /\ (idle \/ requests'[r].at = "sent")
               /\ requests'[r].result # "cut off"

\* A step of r that changes its own client, or none.
LEMMA OwnStep ==
  ASSUME PoolInv, NEW r \in InFlight, NEW c \in Clients, c = requests[r].client,
         NEW state \in {"open", "closed"}, NEW idle \in BOOLEAN, NEW lost \in Nat,
         Becomes(c, state, idle, lost), OnlyRequest(r),
         requests'[r].client = c, requests'[r].at \in {"sent", "listed", "done"},
         requests'[r].at = "sent" => requests'[r].key = requests[r].key,
         overlap' = overlap, pool' \in {0, pool, c}, pool' = c => state = "open",
         LeavesAlone(r, c, state, idle, lost)
  PROVE  PoolInv'
<1>0. /\ PoolTypeOK /\ PoolIsSound /\ TurnsInv /\ ClientsInv /\ AloneInv
      /\ r \in Requests /\ requests[r].at \in {"connecting", "sent"}
      /\ state \in {"connecting", "open", "closed"}
  BY DEF PoolInv, InFlight
<1>z. pool \in Clients \cup {0} /\ 0 \notin Clients
  BY <1>0, PoolTypes
<1>1. /\ clients' \in Seq(Client) /\ Clients' = Clients /\ Len(clients') = Len(clients)
      /\ \A d \in Clients : clients'[d].key = clients[d].key
      /\ clients'[c].state = state /\ clients'[c].idle = idle /\ clients'[c].lost = lost
      /\ \A d \in Clients : d # c =>
           /\ clients'[d].state = clients[d].state /\ clients'[d].idle = clients[d].idle
           /\ clients'[d].lost = clients[d].lost
  BY <1>0, ClientChanged DEF OnlyClient
<1>2. PoolTypeOK'
  <2>1. pool' \in Clients' \cup {0} /\ Clients' = 1..Len(clients')
    BY <1>0, <1>1, <1>z, PoolTypes
  <2>2. Len(clients) \in Nat /\ overlap \in BOOLEAN
    BY <1>0, PoolTypes DEF PoolTypeOK
  <2>3. pool' \in 0..Len(clients')
    BY <1>1, <2>1, <2>2
  <2>. QED  BY <1>1, <2>2, <2>3 DEF PoolTypeOK, OnlyRequest
<1>3. pool' # 0 => clients'[pool'].state = "open"
  BY <1>0, <1>z, <1>1 DEF PoolIsSound
<1>4. clients[c].key = requests[r].key
  BY DEF PoolInv, PoolIsSound
<1>5. PoolIsSound' /\ \A s \in InFlight' : requests'[s].client \in Clients'
  <2>1. r \in InFlight' => requests'[r].key = requests[r].key
    BY DEF InFlight
  <2>2. r \in InFlight' => /\ requests'[r].client \in Clients'
                           /\ clients'[requests'[r].client].key = requests'[r].key
    BY <1>1, <1>4, <2>1
  <2>. QED  BY <1>0, <1>1, <1>3, <2>2, SoundStep DEF OnlyRequest
<1>6. ClientsInv'
  <2>1. \A d \in Clients : clients[d].state = "connecting" /\ d # requests[r].client =>
          clients'[d].state = "connecting" /\ d # requests'[r].client
    BY <1>1
  <2>2. ASSUME NEW d \in Clients', clients'[d].state = "connecting"
        PROVE  ~ clients'[d].idle /\ clients'[d].lost = 0
    <3>1. d # c /\ d \in Clients
      BY <1>1, <2>2
    <3>. QED  BY <1>0, <1>1, <2>2, <3>1 DEF ClientsInv
  <2>3. Len(clients') \in Nat /\ Len(clients) <= Len(clients') /\ requests'[r].client <= Len(clients')
    <3>1. Clients = 1..Len(clients) /\ Len(clients) \in Nat
      BY <1>0, PoolTypes
    <3>. QED  BY <1>1, <3>1
  <2>. QED  BY <1>0, <1>1, <1>5, <2>1, <2>2, <2>3, ClientsStep DEF OnlyRequest
<1>7. AloneInv'
  <2>1. ASSUME ~ overlap, NEW d \in Clients'
        PROVE  /\ clients'[d].lost = 0
               /\ clients'[d].state = "open" \/ clients'[d].idle => d = pool'
    <3>1. CASE d = c
      BY <1>1, <2>1, <3>1 DEF LeavesAlone
    <3>2. CASE d # c
      <4>1. pool \in {0, c}
        BY <1>0, <2>1 DEF AloneInv
      <4>2. d \in Clients /\ d # 0
        BY <1>z, <1>1, <2>1
      <4>3. clients[d].lost = 0 /\ ~ (clients[d].state = "open" \/ clients[d].idle)
        BY <1>0, <2>1, <3>2, <4>1, <4>2 DEF AloneInv
      <4>. QED  BY <1>1, <3>2, <4>2, <4>3
    <3>. QED  BY <3>1, <3>2
  <2>2. ~ overlap /\ requests'[r].at = "sent" =>
          requests'[r].client = pool' /\ pool' # 0 /\ ~ clients'[pool'].idle
    BY <1>1, <1>z DEF LeavesAlone
  <2>3. ~ overlap /\ pool' # 0 => clients'[pool'].idle \/ requests'[r].at = "sent"
    BY <1>1 DEF LeavesAlone
  <2>. QED  BY <1>0, <2>1, <2>2, <2>3, AloneStep DEF OnlyRequest, LeavesAlone
<1>. QED  BY <1>2, <1>5, <1>6, <1>7 DEF PoolInv, OnlyRequest

\* What a request in flight finds.
LEMMA OwnClient ==
  ASSUME PoolInv, NEW r \in InFlight
  PROVE  LET c == requests[r].client IN
         /\ c \in Clients /\ c \in Nat /\ c # 0 /\ clients[c] \in Client
         /\ clients[c].idle \in BOOLEAN /\ clients[c].lost \in Nat
         /\ clients[c].state \in {"connecting", "open", "closed"}
         /\ requests[r].at = "connecting" =>
              clients[c].state = "connecting" /\ clients[c].idle = FALSE /\ clients[c].lost = 0
              /\ pool # c /\ (~ overlap => pool = 0)
         /\ requests[r].at = "sent" /\ ~ overlap =>
              clients[c].state = "open" /\ clients[c].idle = FALSE /\ clients[c].lost = 0 /\ pool = c
<1>. DEFINE c == requests[r].client
<1>1. c \in Clients /\ r \in Requests
  BY DEF PoolInv, ClientsInv, InFlight
<1>2. c \in Nat /\ c # 0 /\ clients[c] \in Client
  BY <1>1, PoolTypes DEF PoolInv
<1>3. /\ clients[c].idle \in BOOLEAN /\ clients[c].lost \in Nat
      /\ clients[c].state \in {"connecting", "open", "closed"}
  BY <1>2, ClientFields
<1>4. ASSUME requests[r].at = "connecting"
      PROVE  clients[c].state = "connecting" /\ clients[c].idle = FALSE /\ clients[c].lost = 0
             /\ pool # c /\ (~ overlap => pool = 0)
  <2>1. clients[c].state = "connecting"
    BY <1>1, <1>4 DEF PoolInv, ClientsInv
  <2>2. ~ clients[c].idle /\ clients[c].lost = 0
    BY <1>1, <2>1 DEF PoolInv, ClientsInv
  <2>3. pool # c
    BY <1>2, <2>1 DEF PoolInv, PoolIsSound
  <2>4. ~ overlap => pool = 0
    BY <1>1, <1>4 DEF PoolInv, AloneInv
  <2>. QED  BY <1>3, <2>1, <2>2, <2>3, <2>4
<1>5. ASSUME requests[r].at = "sent", ~ overlap
      PROVE  clients[c].state = "open" /\ clients[c].idle = FALSE /\ clients[c].lost = 0 /\ pool = c
  <2>1. pool = c /\ pool # 0 /\ ~ clients[pool].idle
    BY <1>1, <1>5 DEF PoolInv, AloneInv
  <2>2. clients[c].lost = 0
    BY <1>1, <1>5 DEF PoolInv, AloneInv
  <2>3. clients[c].state = "open"
    BY <2>1 DEF PoolInv, PoolIsSound
  <2>. QED  BY <1>3, <2>1, <2>2, <2>3
<1>. QED  BY <1>1, <1>2, <1>3, <1>4, <1>5

LEMMA RefusedStep ==
  ASSUME PoolInv, NEW r \in Requests, PoolRefused(r)
  PROVE  PoolInv'
<1>0. /\ PoolTypeOK /\ PoolIsSound /\ TurnsInv /\ ClientsInv /\ AloneInv
      /\ requests[r].at = "queued" /\ Head(turns) = r
      /\ Ends(r, "unavailable") /\ overlap' = overlap /\ clients' = clients /\ pool' = pool
  BY DEF PoolInv, PoolRefused, MayPool
<1>1. /\ requests' \in Seq(Request) /\ turns' \in Seq(Requests') /\ Requests' = Requests
      /\ requests'[r].at = "done" /\ requests'[r].result = "unavailable"
      /\ requests'[r].client = requests[r].client
      /\ \A s \in Requests : s # r => requests'[s] = requests[s]
      /\ TurnsInv'
  BY <1>0, Ended DEF Results
<1>2. Clients' = Clients
  BY <1>0 DEF Clients
<1>3. PoolTypeOK'
  BY <1>0, <1>1 DEF PoolTypeOK
<1>4. PoolIsSound' /\ \A s \in InFlight' : requests'[s].client \in Clients'
  <2>1. r \notin InFlight'
    BY <1>1 DEF InFlight
  <2>2. pool' # 0 => clients'[pool'].state = "open"
    BY <1>0 DEF PoolIsSound
  <2>. QED  BY <1>0, <1>1, <1>2, <2>1, <2>2, SoundStep
<1>5. ClientsInv'
  <2>1. \A d \in Clients' : clients'[d].state = "connecting" =>
          ~ clients'[d].idle /\ clients'[d].lost = 0
    BY <1>0, <1>2 DEF ClientsInv
  <2>2. /\ Len(clients') \in Nat /\ Len(clients) <= Len(clients')
        /\ requests'[r].client <= Len(clients')
    BY <1>0, <1>1, PoolTypes DEF ClientsInv
  <2>3. \A d \in Clients : clients[d].state = "connecting" /\ d # requests[r].client =>
          clients'[d].state = "connecting" /\ d # requests'[r].client
    BY <1>0, <1>1
  <2>. QED  BY <1>0, <1>1, <1>2, <1>4, <2>1, <2>2, <2>3, ClientsStep
<1>6. AloneInv'
  <2>1. ASSUME ~ overlap, NEW s \in Requests  PROVE requests[s].at # "sent"
    <3>1. SUFFICES ASSUME requests[s].at = "sent"  PROVE FALSE
      OBVIOUS
    <3>2. s \in Pending /\ r \in Pending /\ s # r
      BY <1>0, <3>1 DEF Pending
    <3>. QED  BY <1>0, <2>1, <3>2 DEF AloneInv
  <2>2. ~ overlap => /\ \A d \in Clients' :
                          /\ clients'[d].lost = 0
                          /\ clients'[d].state = "open" \/ clients'[d].idle => d = pool'
                     /\ pool' # 0 => clients'[pool'].idle
    BY <1>0, <1>2, <2>1 DEF AloneInv
  <2>3. requests[r].at # "done" /\ requests'[r].at \notin {"sent", "connecting"}
        /\ requests'[r].result # "cut off"
    BY <1>0, <1>1
  <2>4. ~ overlap =>
          /\ \A d \in Clients' : /\ clients'[d].lost = 0
                                 /\ clients'[d].state = "open" \/ clients'[d].idle => d = pool'
          /\ requests'[r].at = "sent" =>
               requests'[r].client = pool' /\ pool' # 0 /\ ~ clients'[pool'].idle
          /\ requests'[r].at = "connecting" => pool' = 0
          /\ requests'[r].result # "cut off"
          /\ pool' # 0 => clients'[pool'].idle \/ requests'[r].at = "sent"
    BY <2>2, <2>3
  <2>5. overlap' = overlap /\ AloneInv /\ Requests' = Requests
        /\ \A s \in Requests : s # r => requests'[s] = requests[s]
    BY <1>0, <1>1
  <2>. QED  BY <2>3, <2>4, <2>5, AloneStep
<1>. QED  BY <1>1, <1>3, <1>4, <1>5, <1>6 DEF PoolInv

LEMMA ConnectedStep ==
  ASSUME PoolInv, NEW r \in Requests, Connected(r)
  PROVE  PoolInv'
<1>. DEFINE c == requests[r].client
<1>0. /\ PoolTypeOK /\ TurnsInv /\ r \in InFlight /\ requests[r].at = "connecting"
      /\ Uses(r, c, "sent") /\ overlap' = overlap /\ turns' = turns /\ pool' = c
      /\ clients' = [clients EXCEPT ![c].state = "open"]
  BY DEF PoolInv, Connected, InFlight
<1>1. /\ c \in Clients /\ c \in Nat /\ clients[c].lost \in Nat /\ clients[c].idle \in BOOLEAN
      /\ ~ clients[c].idle /\ clients[c].lost = 0
  BY <1>0, OwnClient
<1>2. /\ requests'[r].at = "sent" /\ requests'[r].client = c
      /\ requests'[r].key = requests[r].key /\ requests'[r].result = requests[r].result
      /\ OnlyRequest(r)
  BY <1>0, <1>1, Used DEF OnlyRequest
<1>3. Becomes(c, "open", clients[c].idle, clients[c].lost)
  BY <1>0, <1>1, ClientUpdates DEF Becomes
<1>4. LeavesAlone(r, c, "open", clients[c].idle, clients[c].lost)
  <2>1. ~ overlap => requests[r].result # "cut off"
    BY DEF PoolInv, AloneInv
  <2>. QED  BY <1>0, <1>1, <1>2, <2>1 DEF LeavesAlone
<1>. HIDE DEF c
<1>5. c = requests[r].client
  BY DEF c
<1>. QED  BY <1>0, <1>1, <1>2, <1>3, <1>4, <1>5, OwnStep

\* Whoever fails closes his client, pooled or not.
LEMMA ClosingStep ==
  ASSUME PoolInv, NEW r \in InFlight, NEW result \in Results, Ends(r, result),
         clients' = Closed(requests[r].client), overlap' = overlap,
         pool' = 0 \/ (pool' = pool /\ requests[r].at = "connecting"),
         ~ overlap => result # "cut off"
  PROVE  PoolInv'
<1>. DEFINE c == requests[r].client
<1>0. /\ PoolTypeOK /\ TurnsInv /\ r \in Requests /\ requests[r].at \in {"connecting", "sent"}
  BY DEF PoolInv, InFlight
<1>1. /\ c \in Clients /\ c # 0 /\ clients[c].idle \in BOOLEAN /\ clients[c].lost \in Nat
      /\ requests[r].at = "connecting" => pool # c /\ (~ overlap => pool = 0)
      /\ ~ overlap => clients[c].idle = FALSE /\ clients[c].lost = 0
  BY <1>0, OwnClient
<1>2. /\ OnlyRequest(r) /\ requests'[r].at = "done" /\ requests'[r].result = result
      /\ requests'[r].client = c
  BY <1>0, Ended DEF OnlyRequest
<1>3. Becomes(c, "closed", clients[c].idle, clients[c].lost)
  BY <1>0, <1>1, ClientUpdates DEF Becomes
<1>4. LeavesAlone(r, c, "closed", clients[c].idle, clients[c].lost)
  BY <1>1, <1>2 DEF LeavesAlone
<1>5. pool' \in {0, pool} /\ pool' # c
  BY <1>1
<1>. HIDE DEF c
<1>6. c = requests[r].client
  BY DEF c
<1>. QED  BY <1>1, <1>2, <1>3, <1>4, <1>5, <1>6, OwnStep

LEMMA FailureSteps ==
  ASSUME PoolInv, NEW r \in Requests, ConnectFails(r) \/ RequestFails(r) \/ Rejected(r)
  PROVE  PoolInv'
<1>1. Failure(r) \in Results /\ Failure(r) # "cut off" /\ "cut off" \in Results
  BY DEF Failure, Results
<1>2. CASE ConnectFails(r)
  <2>1. r \in InFlight
    BY <1>2 DEF ConnectFails, InFlight
  <2>. QED  BY <1>1, <1>2, <2>1, ClosingStep DEF ConnectFails
<1>3. CASE RequestFails(r)
  <2>1. r \in InFlight
    BY <1>3 DEF RequestFails, Live, InFlight
  <2>. QED  BY <1>1, <1>3, <2>1, ClosingStep DEF RequestFails, Drops
<1>4. CASE Rejected(r)
  <2>1. r \in InFlight /\ requests[r].at = "sent" /\ ~ Live(r)
    BY <1>4 DEF Rejected, InFlight
  <2>2. overlap
    BY <2>1, OwnClient DEF Live
  <2>. QED  BY <1>1, <1>4, <2>1, <2>2, ClosingStep DEF Rejected, Drops
<1>. QED  BY <1>2, <1>3, <1>4


\* After an answer the pooled client has a timer again; another is left as it is.
LEMMA IdleSet ==
  ASSUME PoolInv, NEW r \in Requests, Live(r), SetIdle(r)
  PROVE  \E idle \in BOOLEAN, lost \in Nat :
           /\ Becomes(requests[r].client, "open", idle, lost)
           /\ ~ overlap => lost = 0 /\ idle /\ pool = requests[r].client
<1>. DEFINE c == requests[r].client
<1>0. PoolTypeOK /\ r \in InFlight /\ requests[r].at = "sent" /\ clients[c].state = "open"
  BY DEF PoolInv, Live, InFlight
<1>1. /\ c \in Clients /\ clients[c] \in Client
      /\ clients[c].idle \in BOOLEAN /\ clients[c].lost \in Nat
      /\ ~ overlap => clients[c].idle = FALSE /\ clients[c].lost = 0 /\ pool = c
  BY <1>0, OwnClient
<1>2. CASE pool # c
  <2>1. Client3(clients[c], "open", clients[c].idle, clients[c].lost) = clients[c]
    <3>1. clients[c] = [key |-> clients[c].key, state |-> clients[c].state,
                        idle |-> clients[c].idle, lost |-> clients[c].lost]
      BY <1>1 DEF Client
    <3>. QED  BY <1>0, <3>1 DEF Client3
  <2>2. clients' = clients /\ clients = [clients EXCEPT ![c] = clients[c]]
    BY <1>0, <1>2 DEF SetIdle, PoolTypeOK
  <2>3. Becomes(c, "open", clients[c].idle, clients[c].lost)
    BY <2>1, <2>2 DEF Becomes
  <2>. QED  BY <1>1, <1>2, <2>3
<1>3. CASE pool = c
  <2>. DEFINE n == IF clients[c].idle /\ requests[r].phase = "discovery"
                   THEN clients[c].lost + 1 ELSE clients[c].lost
              set == TRUE
  <2>1. clients' = [clients EXCEPT ![c].idle = set, ![c].lost = n]
    BY <1>3 DEF SetIdle
  <2>2. n \in Nat /\ (~ overlap => n = 0) /\ set \in BOOLEAN /\ set
    BY <1>1
  <2>3. \A i, m : [clients EXCEPT ![c].idle = i, ![c].lost = m] =
                    [clients EXCEPT ![c] = Client3(clients[c], clients[c].state, i, m)]
    <3>. HIDE DEF c
    <3>. QED  BY <1>0, <1>1, ClientUpdates
  <2>. HIDE DEF n, set
  <2>4. [clients EXCEPT ![c].idle = set, ![c].lost = n] =
          [clients EXCEPT ![c] = Client3(clients[c], clients[c].state, set, n)]
    BY <2>3
  <2>5. Becomes(c, "open", set, n)
    BY <1>0, <2>1, <2>4 DEF Becomes
  <2>. QED  BY <1>3, <2>2, <2>5
<1>. QED  BY <1>2, <1>3

LEMMA CalledStep ==
  ASSUME PoolInv, NEW r \in Requests, Called(r)
  PROVE  PoolInv'
<1>. DEFINE c == requests[r].client
<1>0. /\ PoolTypeOK /\ TurnsInv /\ r \in InFlight /\ requests[r].at = "sent"
      /\ Live(r) /\ SetIdle(r) /\ Ends(r, "completed") /\ overlap' = overlap /\ pool' = pool
  BY DEF PoolInv, Called, Live, InFlight
<1>1. c \in Clients
  BY <1>0, OwnClient
<1>2. /\ OnlyRequest(r) /\ requests'[r].at = "done" /\ requests'[r].result = "completed"
      /\ requests'[r].client = c
  BY <1>0, Ended DEF OnlyRequest, Results
<1>3. PICK idle \in BOOLEAN, lost \in Nat :
        Becomes(c, "open", idle, lost) /\ (~ overlap => lost = 0 /\ idle /\ pool = c)
  BY <1>0, IdleSet
<1>4. LeavesAlone(r, c, "open", idle, lost)
  BY <1>0, <1>2, <1>3 DEF LeavesAlone
<1>. HIDE DEF c
<1>5. c = requests[r].client
  BY DEF c
<1>. QED  BY <1>0, <1>1, <1>2, <1>3, <1>4, <1>5, OwnStep

\* A discovery that is over before its call gives its turn back.
LEMMA TurnGiven ==
  ASSUME PoolTypeOK, TurnsInv, NEW r \in Requests,
         requests[r].at = "sent", requests[r].phase = "discovery",
         requests' = [requests EXCEPT ![r].at = "listed", ![r].phase = "call"],
         turns' = Tail(turns)
  PROVE  /\ OnlyRequest(r) /\ requests'[r].at = "listed"
         /\ requests'[r].client = requests[r].client /\ requests'[r].result = requests[r].result
<1>. DEFINE new == [requests[r] EXCEPT !.at = "listed", !.phase = "call"]
<1>1. new \in Request /\ requests' = [requests EXCEPT ![r] = new]
  BY PoolTypes DEF Request
<1>2. /\ new.at = "listed" /\ new.phase = "call"
      /\ new.client = requests[r].client /\ new.result = requests[r].result
  BY PoolTypes DEF Request
<1>. HIDE DEF new
<1>3. /\ requests' \in Seq(Request) /\ Requests' = Requests
      /\ requests'[r] = new /\ \A s \in Requests : s # r => requests'[s] = requests[s]
  BY <1>1, OneRequest
<1>4. /\ Tail(turns) \in Seq(Requests)
      /\ \A s \in Requests : s # r /\ requests[s].phase = "discovery"
                             /\ requests[s].at # "done" =>
           /\ requests[s].at = "queued"
           /\ \E i \in 1..Len(Tail(turns)) : Tail(turns)[i] = s
  BY TurnBack
<1>5. TurnsInv'
  <2>1. ASSUME NEW s \in Requests
        PROVE  /\ requests'[s].at = "queued" => requests'[s].phase = "discovery"
               /\ requests'[s].at = "listed" => requests'[s].phase = "call"
               /\ requests'[s].phase = "discovery" /\ requests'[s].at # "done" =>
                    /\ \E i \in 1..Len(turns') : turns'[i] = s
                    /\ requests'[s].at # "queued" => turns'[1] = s
    <3>1. CASE s = r
      BY <1>2, <1>3, <3>1
    <3>2. CASE s # r
      <4>1. requests'[s] = requests[s]
        BY <1>3, <3>2
      <4>2. /\ requests[s].at = "queued" => requests[s].phase = "discovery"
            /\ requests[s].at = "listed" => requests[s].phase = "call"
        BY DEF TurnsInv
      <4>3. requests[s].phase = "discovery" /\ requests[s].at # "done" =>
              requests[s].at = "queued" /\ \E i \in 1..Len(turns') : turns'[i] = s
        BY <1>4, <3>2
      <4>. QED  BY <4>1, <4>2, <4>3
    <3>. QED  BY <3>1, <3>2
  <2>. QED  BY <1>3, <2>1 DEF TurnsInv
<1>. QED  BY <1>2, <1>3, <1>4, <1>5 DEF OnlyRequest

LEMMA ListedStep ==
  ASSUME PoolInv, NEW r \in Requests, Listed(r)
  PROVE  PoolInv'
<1>. DEFINE c == requests[r].client
<1>0. /\ PoolTypeOK /\ TurnsInv /\ AloneInv /\ r \in InFlight /\ requests[r].at = "sent"
      /\ Live(r) /\ SetIdle(r) /\ overlap' = overlap /\ pool' = pool
      /\ requests[r].phase = "discovery"
  BY DEF PoolInv, Listed, Live, InFlight
<1>1. c \in Clients
  BY <1>0, OwnClient
<1>2. /\ OnlyRequest(r) /\ requests'[r].at \in {"listed", "done"} /\ requests'[r].client = c
      /\ ~ overlap => requests'[r].result # "cut off"
  <2>1. CASE Ends(r, "completed") \/ Ends(r, "unavailable")
    BY <1>0, <2>1, Ended DEF OnlyRequest, Results
  <2>2. CASE /\ requests' = [requests EXCEPT ![r].at = "listed", ![r].phase = "call"]
             /\ turns' = Tail(turns)
    <3>1. ~ overlap => requests[r].result # "cut off"
      BY <1>0 DEF AloneInv
    <3>. QED  BY <1>0, <2>2, <3>1, TurnGiven
  <2>. QED  BY <2>1, <2>2 DEF Listed
<1>3. PICK idle \in BOOLEAN, lost \in Nat :
        Becomes(c, "open", idle, lost) /\ (~ overlap => lost = 0 /\ idle /\ pool = c)
  BY <1>0, IdleSet
<1>4. LeavesAlone(r, c, "open", idle, lost)
  BY <1>0, <1>2, <1>3 DEF LeavesAlone
<1>. HIDE DEF c
<1>5. c = requests[r].client
  BY DEF c
<1>. QED  BY <1>0, <1>1, <1>2, <1>3, <1>4, <1>5, OwnStep


\* A timer that fires closes its client, and forgets whichever is pooled.
LEMMA TimerFires ==
  ASSUME PoolInv, NEW c \in Clients, NEW idle \in BOOLEAN, NEW lost \in Nat,
         Becomes(c, "closed", idle, lost), Fires(c), clients[c].idle \/ clients[c].lost > 0,
         ~ overlap => clients[c].idle /\ ~ idle /\ lost = 0
  PROVE  PoolInv'
<1>0. /\ PoolTypeOK /\ PoolIsSound /\ TurnsInv /\ ClientsInv /\ AloneInv
      /\ overlap' = overlap /\ requests' = requests /\ turns' = turns /\ pool' = 0
  BY DEF PoolInv, Fires
<1>1. /\ clients' \in Seq(Client) /\ Clients' = Clients /\ Len(clients') = Len(clients)
      /\ \A d \in Clients : clients'[d].key = clients[d].key
      /\ clients'[c].state = "closed" /\ clients'[c].idle = idle /\ clients'[c].lost = lost
      /\ \A d \in Clients : d # c =>
           /\ clients'[d].state = clients[d].state /\ clients'[d].idle = clients[d].idle
           /\ clients'[d].lost = clients[d].lost
  BY <1>0, ClientChanged DEF OnlyClient
<1>2. Requests' = Requests /\ InFlight' = InFlight /\ Pending' = Pending
  BY <1>0 DEF Requests, InFlight, Pending
<1>3. PoolTypeOK'
  <2>1. 0 \in 0..Len(clients')
    BY <1>0, <1>1, PoolTypes
  <2>. QED  BY <1>0, <1>1, <1>2, <2>1 DEF PoolTypeOK
<1>4. PoolIsSound'
  <2>1. ASSUME NEW r \in InFlight  PROVE clients'[requests[r].client].key = requests[r].key
    <3>1. requests[r].client \in Clients
      BY <1>0 DEF ClientsInv
    <3>2. clients[requests[r].client].key = requests[r].key
      BY <1>0 DEF PoolIsSound
    <3>. QED  BY <1>1, <3>1, <3>2
  <2>. QED  BY <1>0, <1>2, <2>1 DEF PoolIsSound
<1>5. TurnsInv'
  BY <1>0, <1>2 DEF TurnsInv
<1>6. ClientsInv'
  <2>1. clients[c].state # "connecting"
    <3>1. clients[c].lost \in Nat
      BY <1>0, PoolTypes, ClientFields
    <3>2. SUFFICES ASSUME clients[c].state = "connecting"  PROVE FALSE
      OBVIOUS
    <3>3. ~ clients[c].idle /\ clients[c].lost = 0
      BY <1>0, <3>2 DEF ClientsInv
    <3>. QED  BY <3>1, <3>3
  <2>2. ASSUME NEW r \in Requests, requests[r].at = "connecting"
        PROVE  clients'[requests[r].client].state = "connecting"
    <3>1. requests[r].client \in Clients /\ clients[requests[r].client].state = "connecting"
      BY <1>0, <2>2 DEF ClientsInv, InFlight
    <3>. QED  BY <1>1, <2>1, <3>1
  <2>3. ASSUME NEW d \in Clients, clients'[d].state = "connecting"
        PROVE  ~ clients'[d].idle /\ clients'[d].lost = 0
    <3>1. d # c
      BY <1>1, <2>3
    <3>. QED  BY <1>0, <1>1, <2>3, <3>1 DEF ClientsInv
  <2>4. /\ \A r \in InFlight : requests[r].client \in Clients
        /\ \A r \in Requests : requests[r].at = "connecting" =>
             \A s \in Requests : s # r => requests[s].client # requests[r].client
        /\ \A r \in Requests : requests[r].client <= Len(clients)
    BY <1>0 DEF ClientsInv
  <2>. QED  BY <1>0, <1>1, <1>2, <2>2, <2>3, <2>4 DEF ClientsInv
<1>7. AloneInv'
  <2>1. CASE overlap
    BY <1>0, <2>1 DEF AloneInv
  <2>2. CASE ~ overlap
    <3>1. c = pool /\ clients[pool].idle
      BY <1>0, <2>2 DEF AloneInv
    <3>2. ASSUME NEW d \in Clients
          PROVE  clients'[d].lost = 0 /\ ~ (clients'[d].state = "open" \/ clients'[d].idle)
      <4>1. CASE d = c
        BY <1>1, <2>2, <4>1
      <4>2. CASE d # c
        <5>1. clients[d].lost = 0 /\ ~ (clients[d].state = "open" \/ clients[d].idle)
          BY <1>0, <2>2, <3>1, <4>2 DEF AloneInv
        <5>. QED  BY <1>1, <4>2, <5>1
      <4>. QED  BY <4>1, <4>2
    <3>3. ASSUME NEW r \in Requests
          PROVE  requests[r].at # "sent" /\ requests[r].result # "cut off"
      BY <1>0, <2>2, <3>1 DEF AloneInv
    <3>4. \A r \in Pending, s \in Pending : r = s
      BY <1>0, <2>2 DEF AloneInv
    <3>. QED  BY <1>0, <1>1, <1>2, <3>2, <3>3, <3>4 DEF AloneInv
  <2>. QED  BY <2>1, <2>2
<1>. QED  BY <1>3, <1>4, <1>5, <1>6, <1>7 DEF PoolInv

LEMMA IdleEndsStep ==
  ASSUME PoolInv, NEW c \in Clients, IdleEnds(c)
  PROVE  PoolInv'
<1>1. /\ PoolTypeOK /\ AloneInv /\ clients[c].idle \in BOOLEAN /\ clients[c].lost \in Nat
  BY PoolTypes, ClientFields DEF PoolInv
<1>2. ~ overlap => clients[c].lost = 0
  BY DEF PoolInv, AloneInv
<1>3. CASE clients[c].idle /\ clients' = [Closed(c) EXCEPT ![c].idle = FALSE] /\ Fires(c)
  <2>. DEFINE idle == FALSE
  <2>1. clients' = [Closed(c) EXCEPT ![c].idle = idle] /\ idle \in BOOLEAN /\ ~ idle
    BY <1>3
  <2>. HIDE DEF idle
  <2>2. \A i : [Closed(c) EXCEPT ![c].idle = i] =
                 [clients EXCEPT ![c] = Client3(clients[c], "closed", i, clients[c].lost)]
    BY <1>1, ClientUpdates
  <2>3. Becomes(c, "closed", idle, clients[c].lost)
    BY <2>1, <2>2 DEF Becomes
  <2>. QED  BY <1>1, <1>2, <1>3, <2>1, <2>3, TimerFires
<1>4. CASE clients[c].lost > 0 /\ clients' = [Closed(c) EXCEPT ![c].lost = @ - 1] /\ Fires(c)
  <2>1. [Closed(c) EXCEPT ![c].lost = @ - 1] =
          [clients EXCEPT ![c] = Client3(clients[c], "closed", clients[c].idle, clients[c].lost - 1)]
    BY <1>1, ClientUpdates
  <2>2. Becomes(c, "closed", clients[c].idle, clients[c].lost - 1)
    BY <1>4, <2>1 DEF Becomes
  <2>3. clients[c].lost - 1 \in Nat /\ overlap
    BY <1>1, <1>2, <1>4 DEF PoolInv, PoolTypeOK
  <2>. QED  BY <1>1, <1>4, <2>2, <2>3, TimerFires
<1>. QED  BY <1>3, <1>4 DEF IdleEnds


LEMMA AskStep ==
  ASSUME PoolInv, Ask
  PROVE  PoolInv'
<1>. DEFINE n == Len(requests) + 1
            new(kind, key) == [kind |-> kind, key |-> key, at |-> "queued",
                               phase |-> "discovery", client |-> 0, result |-> "none"]
<1>0. /\ PoolTypeOK /\ PoolIsSound /\ TurnsInv /\ ClientsInv /\ AloneInv
      /\ Pending = {} \/ overlap
      /\ overlap' = overlap /\ clients' = clients /\ pool' = pool /\ turns' = Append(turns, n)
  BY DEF PoolInv, Ask
<1>1. /\ Requests = 1..Len(requests) /\ Len(requests) \in Nat
      /\ n \in Nat /\ n \notin Requests /\ Requests \cup {n} = 1..n /\ Len(clients) \in Nat
  BY <1>0, PoolTypes
<1>2. PICK kind \in {"discovery", "execution"}, key \in Declared..MaxVersions :
        requests' = Append(requests, new(kind, key))
  BY DEF Ask
<1>3. key \in 1..MaxVersions
  <2>1. Declared \in Nat /\ Declared >= 1
    <3>1. CASE requests = <<>>
      BY <3>1 DEF Declared
    <3>2. CASE requests # <<>>
      <4>1. Len(requests) \in Requests
        BY <1>0, <1>1, <3>2 DEF PoolTypeOK
      <4>2. requests[Len(requests)].key \in 1..MaxVersions
        BY <1>0, <4>1, PoolTypes DEF Request
      <4>. QED  BY <3>2, <4>2, PoolAssumption DEF Declared
    <3>. QED  BY <3>1, <3>2
  <2>. QED  BY <1>2, <2>1, PoolAssumption
<1>4. /\ new(kind, key) \in Request /\ new(kind, key).at = "queued"
      /\ new(kind, key).phase = "discovery" /\ new(kind, key).client = 0
      /\ new(kind, key).result = "none"
  BY <1>2, <1>3 DEF Request
<1>. HIDE DEF new
<1>5. /\ requests' \in Seq(Request) /\ Requests' = Requests \cup {n}
      /\ requests'[n] = new(kind, key) /\ \A s \in Requests : requests'[s] = requests[s]
  BY <1>0, <1>1, <1>2, <1>4 DEF PoolTypeOK, Requests
<1>6. /\ turns' \in Seq(Requests') /\ Len(turns') = Len(turns) + 1 /\ Len(turns) \in Nat
      /\ turns'[Len(turns) + 1] = n /\ \A i \in 1..Len(turns) : turns'[i] = turns[i]
  <2>1. turns \in Seq(Requests') /\ n \in Requests'
    BY <1>0, <1>5 DEF PoolTypeOK
  <2>. QED  BY <1>0, <2>1
<1>. HIDE DEF n
<1>7. Clients' = Clients /\ InFlight' = InFlight /\ Pending' = Pending \cup {n}
  BY <1>0, <1>1, <1>4, <1>5 DEF Clients, InFlight, Pending
<1>8. PoolTypeOK'
  BY <1>0, <1>5, <1>6 DEF PoolTypeOK
<1>9. PoolIsSound'
  BY <1>0, <1>5, <1>7 DEF PoolIsSound, InFlight
<1>10. TurnsInv'
  <2>1. ASSUME NEW s \in Requests'
        PROVE  /\ requests'[s].at = "queued" => requests'[s].phase = "discovery"
               /\ requests'[s].at = "listed" => requests'[s].phase = "call"
               /\ requests'[s].phase = "discovery" /\ requests'[s].at # "done" =>
                    /\ \E i \in 1..Len(turns') : turns'[i] = s
                    /\ requests'[s].at # "queued" => turns'[1] = s
    <3>1. CASE s = n
      <4>1. \E i \in 1..Len(turns') : turns'[i] = s
        BY <1>6, <3>1
      <4>. QED  BY <1>4, <1>5, <3>1, <4>1
    <3>2. CASE s # n
      <4>1. s \in Requests /\ requests'[s] = requests[s]
        BY <1>5, <2>1, <3>2
      <4>2. /\ requests[s].at = "queued" => requests[s].phase = "discovery"
            /\ requests[s].at = "listed" => requests[s].phase = "call"
        BY <1>0, <4>1 DEF TurnsInv
      <4>3. ASSUME requests[s].phase = "discovery", requests[s].at # "done"
            PROVE  /\ \E i \in 1..Len(turns') : turns'[i] = s
                   /\ requests[s].at # "queued" => turns'[1] = s
        <5>1. PICK i \in 1..Len(turns) : turns[i] = s
          BY <1>0, <4>1, <4>3 DEF TurnsInv
        <5>2. requests[s].at # "queued" => turns[1] = s
          BY <1>0, <4>1, <4>3 DEF TurnsInv
        <5>3. i \in 1..Len(turns') /\ 1 \in 1..Len(turns)
          BY <1>6, <5>1
        <5>. QED  BY <1>6, <5>1, <5>2, <5>3
      <4>. QED  BY <4>1, <4>2, <4>3
    <3>. QED  BY <3>1, <3>2
  <2>. QED  BY <2>1 DEF TurnsInv
<1>11. ClientsInv'
  <2>1. \A r \in InFlight : requests[r].client \in Clients /\ requests'[r] = requests[r]
    BY <1>0, <1>5 DEF ClientsInv, InFlight
  <2>2. ASSUME NEW r \in Requests', requests'[r].at = "connecting"
        PROVE  /\ clients[requests'[r].client].state = "connecting"
               /\ \A s \in Requests' : s # r => requests'[s].client # requests'[r].client
    <3>1. r \in Requests /\ requests'[r] = requests[r] /\ requests[r].at = "connecting"
      BY <1>4, <1>5, <2>2
    <3>2. clients[requests[r].client].state = "connecting" /\ requests[r].client \in Clients
      BY <1>0, <3>1 DEF ClientsInv, InFlight
    <3>3. requests[r].client # 0
      BY <1>0, <3>2, PoolTypes
    <3>4. \A s \in Requests : s # r => requests[s].client # requests[r].client
      BY <1>0, <3>1 DEF ClientsInv
    <3>. QED  BY <1>4, <1>5, <3>1, <3>2, <3>3, <3>4
  <2>3. ASSUME NEW r \in Requests'  PROVE requests'[r].client <= Len(clients)
    <3>1. CASE r = n
      BY <1>1, <1>4, <1>5, <3>1
    <3>2. CASE r # n
      BY <1>0, <1>5, <2>3, <3>2 DEF ClientsInv
    <3>. QED  BY <3>1, <3>2
  <2>4. \A c \in Clients : clients[c].state = "connecting" => ~ clients[c].idle /\ clients[c].lost = 0
    BY <1>0 DEF ClientsInv
  <2>. QED  BY <1>0, <1>7, <2>1, <2>2, <2>3, <2>4 DEF ClientsInv
<1>12. AloneInv'
  <2>1. CASE overlap
    BY <1>0, <2>1 DEF AloneInv
  <2>2. CASE ~ overlap
    <3>1. \A r \in Pending', s \in Pending' : r = s
      BY <1>0, <1>7, <2>2
    <3>2. ASSUME NEW r \in Requests'
          PROVE  /\ requests'[r].at # "sent" /\ requests'[r].at # "connecting"
                 /\ requests'[r].result # "cut off"
      <4>1. CASE r = n
        BY <1>4, <1>5, <4>1
      <4>2. CASE r # n
        <5>1. r \in Requests /\ requests'[r] = requests[r]
          BY <1>5, <3>2, <4>2
        <5>2. requests[r].at = "done"
          BY <1>0, <2>2, <5>1 DEF Pending
        <5>. QED  BY <1>0, <2>2, <5>1, <5>2 DEF AloneInv
      <4>. QED  BY <4>1, <4>2
    <3>3. pool # 0 => clients[pool].idle
      <4>1. \A r \in Requests : requests[r].at # "sent"
        BY <1>0, <2>2 DEF Pending
      <4>. QED  BY <1>0, <2>2, <4>1 DEF AloneInv
    <3>4. \A c \in Clients : /\ clients[c].lost = 0
                             /\ clients[c].state = "open" \/ clients[c].idle => c = pool
      BY <1>0, <2>2 DEF AloneInv
    <3>. QED  BY <1>0, <1>7, <3>1, <3>2, <3>3, <3>4 DEF AloneInv
  <2>. QED  BY <2>1, <2>2
<1>. QED  BY <1>8, <1>9, <1>10, <1>11, <1>12 DEF PoolInv

LEMMA PoolInitInv ==
  ASSUME Init
  PROVE  PoolInv
<1>1. overlap \in BOOLEAN /\ requests = <<>> /\ turns = <<>> /\ clients = <<>> /\ pool = 0
  BY PoolAssumption DEF Init
<1>2. Requests = {} /\ Clients = {} /\ InFlight = {} /\ Pending = {}
  BY <1>1 DEF Requests, Clients, InFlight, Pending
<1>3. PoolTypeOK
  BY <1>1 DEF PoolTypeOK
<1>. QED  BY <1>1, <1>2, <1>3 DEF PoolInv, PoolIsSound, TurnsInv, ClientsInv, AloneInv

LEMMA PoolStepInv ==
  ASSUME PoolInv, Next
  PROVE  PoolInv'
<1>1. CASE Ask
  BY <1>1, AskStep
<1>2. ASSUME NEW r \in Requests, Step(r)  PROVE PoolInv'
  BY <1>2, HitStep, MissStep, RefusedStep, ConnectedStep, ListedStep, CalledStep, FailureSteps
  DEF Step
<1>3. ASSUME NEW c \in Clients, IdleEnds(c)  PROVE PoolInv'
  BY <1>3, IdleEndsStep
<1>. QED  BY <1>1, <1>2, <1>3 DEF Next

\* Alone on the server, a request loses no connection and leaves none behind.
LEMMA PoolInvIsSafe ==
  ASSUME PoolInv
  PROVE  McpPoolSafe
<1>1. ~ overlap => NoneForgotten
  <2>1. ASSUME ~ overlap, NEW c \in Clients, clients[c].state = "open"
        PROVE  Remembered(c)
    <3>1. c = pool /\ c # 0
      BY <2>1, PoolTypes DEF PoolInv, AloneInv
    <3>2. CASE clients[pool].idle
      BY <3>1, <3>2 DEF Remembered
    <3>3. CASE ~ clients[pool].idle
      <4>1. PICK r \in Requests : requests[r].at = "sent"
        BY <2>1, <3>1, <3>3 DEF PoolInv, AloneInv
      <4>2. r \in InFlight /\ requests[r].client = c
        BY <2>1, <3>1, <4>1 DEF PoolInv, AloneInv, InFlight
      <4>. QED  BY <4>2 DEF Remembered
    <3>. QED  BY <3>2, <3>3
  <2>. QED  BY <2>1 DEF NoneForgotten
<1>2. ~ overlap => \A r \in Requests : requests[r].result # "cut off"
  BY DEF PoolInv, AloneInv
<1>. QED  BY <1>1, <1>2 DEF McpPoolSafe, PoolInv

-----------------------------------------------------------------------------
(* What the tools of the service promise *)

ToolsInv == CommandInv /\ PoolInv

LEMMA PoolStutter ==
  ASSUME PoolInv, UNCHANGED poolVars
  PROVE  PoolInv'
<1>1. /\ overlap' = overlap /\ requests' = requests /\ turns' = turns
      /\ clients' = clients /\ pool' = pool
  BY DEF poolVars
<1>2. /\ Requests' = Requests /\ Clients' = Clients
      /\ InFlight' = InFlight /\ Pending' = Pending
  BY <1>1 DEF Requests, Clients, InFlight, Pending
<1>3. PoolTypeOK'
  BY <1>1, <1>2 DEF PoolInv, PoolTypeOK
<1>4. PoolIsSound'
  BY <1>1, <1>2 DEF PoolInv, PoolIsSound
<1>5. TurnsInv'
  BY <1>1, <1>2 DEF PoolInv, TurnsInv
<1>6. ClientsInv'
  BY <1>1, <1>2 DEF PoolInv, ClientsInv
<1>7. AloneInv'
  BY <1>1, <1>2 DEF PoolInv, AloneInv
<1>. QED  BY <1>3, <1>4, <1>5, <1>6, <1>7 DEF PoolInv

LEMMA CommandStutter ==
  ASSUME CommandInv, UNCHANGED commandVars
  PROVE  CommandInv'
<1>1. /\ service' = service /\ promise' = promise /\ outcome' = outcome /\ timer' = timer
      /\ grace' = grace /\ live' = live /\ aborted' = aborted /\ leader' = leader
      /\ helper' = helper /\ stubborn' = stubborn /\ holding' = holding /\ asked' = asked
      /\ written' = written /\ read' = read
  BY DEF commandVars
<1>2. (Command!CommandTypeOK /\ read <= written)'
  BY <1>1 DEF CommandInv, Command!CommandTypeOK
<1>3. ProcessInv'
  BY <1>1 DEF CommandInv, ProcessInv, Command!Settled, Command!OutputHeld
<1>4. OutcomeInv'
  BY <1>1 DEF CommandInv, OutcomeInv
<1>5. Command!ResultIsWhole' /\ Command!GoneAfterwards'
  BY <1>1 DEF CommandInv, Command!ResultIsWhole, Command!GoneAfterwards, Command!Settled,
              Command!Orphaned
<1>. QED  BY <1>2, <1>3, <1>4, <1>5 DEF CommandInv

LEMMA ToolsInvHolds == ToolsSpec => []ToolsInv
<1>1. ToolsInit => ToolsInv
  BY CommandInitInv, PoolInitInv DEF ToolsInit, ToolsInv
<1>2. ToolsInv /\ [ToolsNext]_toolsVars => ToolsInv'
  <2>1. ASSUME ToolsInv, ToolsNext  PROVE ToolsInv'
    <3>1. CASE Next /\ UNCHANGED commandVars
      BY <2>1, <3>1, PoolStepInv, CommandStutter DEF ToolsInv
    <3>2. CASE Command!Next /\ UNCHANGED poolVars
      BY <2>1, <3>2, CommandStepInv, PoolStutter DEF ToolsInv
    <3>. QED  BY <2>1, <3>1, <3>2 DEF ToolsNext
  <2>2. ASSUME ToolsInv, UNCHANGED toolsVars  PROVE ToolsInv'
    BY <2>2, PoolStutter, CommandStutter DEF ToolsInv, toolsVars
  <2>. QED  BY <2>1, <2>2
<1>. QED  BY <1>1, <1>2, PTL DEF ToolsSpec

\* Whatever its limits and however its processes behave, what a command tool
\* says has happened, an answer taken for its output is all of it, and neither
\* a result nor the end of the service leaves a process behind but a helper that
\* outlived its leader (command-tool-runner.ts:136-243).
THEOREM CommandsEndTrulyHolds == ToolsSpec => []CommandsEndTruly
<1>1. ToolsInv => CommandsEndTruly
  BY DEF ToolsInv, CommandInv, CommandsEndTruly, Command!CommandsEndTruly
<1>. QED  BY <1>1, ToolsInvHolds, PTL

\* However many requests share the pooled client of an MCP server, the pool
\* offers no closed client and no client of another declaration; and requests
\* that come one at a time, as one batch's do, lose no connection and leave none
\* open for good (mcp-discovery.ts, mcp-execution.ts).
THEOREM McpPoolSafeHolds == ToolsSpec => []McpPoolSafe
<1>1. ToolsInv => McpPoolSafe
  BY PoolInvIsSafe DEF ToolsInv
<1>. QED  BY <1>1, ToolsInvHolds, PTL

=============================================================================
