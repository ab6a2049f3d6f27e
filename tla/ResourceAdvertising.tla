------------------------ MODULE ResourceAdvertising ------------------------
(***************************************************************************)
(* How a client daemon finds a server: every server's ResourceBroadcaster  *)
(* broadcasts its number of free jobs in UDP datagrams, which may be lost, *)
(* duplicated, delayed and reordered; the client's ResourceListener keeps  *)
(* the last one heard from each server, forgets servers that fell silent,  *)
(* and lends the advertised jobs to the daemon's requests.                 *)
(*                                                                         *)
(* The clock is discrete, in seconds. A tick waits for the clean-up timer  *)
(* if it is due: its handler runs within the second.                       *)
(***************************************************************************)
EXTENDS Integers, FiniteSets

CONSTANTS
    Servers,     \* build servers
    Reliable,    \* those that never stop
    Requests,    \* requests of this client that look for a server
    NoServer,    \* no server
    MaxJobs,     \* bound: free jobs a server may advertise
    StaleAfter,  \* seconds of silence an entry survives a clean-up (4)
    Period       \* seconds between clean-ups (2)

ASSUME ResourceAdvertisingAssumption ==
    /\ Reliable \subseteq Servers
    /\ NoServer \notin Servers
    /\ MaxJobs \in Nat \ {0}
    /\ StaleAfter \in Nat
    /\ Period \in Nat \ {0}

VARIABLES
    running,         \* servers whose broadcaster runs
    available_jobs,  \* ResourceBroadcaster::_available_jobs of each server
    network,         \* datagrams that may still arrive
    server_nodes,    \* _server_nodes: the free jobs of each server heard of
    age,             \* seconds since last_seen, for the servers heard of
    cleanup_in,      \* seconds until _cleanup_timer expires
    picked,          \* the server each request was given
    lent             \* requests given to a server since its last datagram

vars == <<running, available_jobs, network, server_nodes, age, cleanup_in,
          picked, lent>>

Advert == [server : Servers, jobs : 0 .. MaxJobs]

Known == DOMAIN server_nodes

TypeOK ==
    /\ running \in SUBSET Servers
    /\ available_jobs \in [Servers -> 0 .. MaxJobs]
    /\ network \in SUBSET Advert
    /\ Known \in SUBSET Servers
    /\ server_nodes \in [Known -> 0 .. MaxJobs]
    /\ age \in [Known -> Nat]
    /\ cleanup_in \in 0 .. Period
    /\ picked \in [Requests -> Servers \cup {NoServer}]
    /\ lent \in [Servers -> Nat]

Empty == [v \in {} |-> 0]

Init ==
    /\ running = Servers
    /\ available_jobs = [v \in Servers |-> MaxJobs]
    /\ network = {}
    /\ server_nodes = Empty
    /\ age = Empty
    /\ cleanup_in = Period
    /\ picked = [r \in Requests |-> NoServer]
    /\ lent = [v \in Servers |-> 0]

-----------------------------------------------------------------------------
(* The server's side.                                                      *)

(* The compiler pool stores its number of free jobs (CompilerManager).     *)
set_available_jobs(v, n) ==
    /\ v \in running
    /\ n # available_jobs[v]
    /\ available_jobs' = [available_jobs EXCEPT ![v] = n]
    /\ UNCHANGED <<running, network, server_nodes, age, cleanup_in, picked, lent>>

(* One turn of ResourceBroadcaster::_run.                                  *)
Advertise(v) ==
    /\ v \in running
    /\ network' = network \cup {[server |-> v, jobs |-> available_jobs[v]]}
    /\ UNCHANGED <<running, available_jobs, server_nodes, age, cleanup_in,
                   picked, lent>>

Stop(v) ==
    /\ v \in running \ Reliable
    /\ running' = running \ {v}
    /\ UNCHANGED <<available_jobs, network, server_nodes, age, cleanup_in,
                   picked, lent>>

Lose(m) ==
    /\ network' = network \ {m}
    /\ UNCHANGED <<running, available_jobs, server_nodes, age, cleanup_in,
                   picked, lent>>

-----------------------------------------------------------------------------
(* ResourceListener.                                                       *)

With(fn, key, value) ==
    [k \in DOMAIN fn \cup {key} |-> IF k = key THEN value ELSE fn[k]]

Only(fn, keys) == [k \in keys |-> fn[k]]

(* Mutant: the count of a server that is known is not overwritten.         *)
Receive_OnlyNew(m) ==
    /\ server_nodes' = IF m.server \in Known THEN server_nodes
                       ELSE With(server_nodes, m.server, m.jobs)
    /\ age' = With(age, m.server, 0)
    /\ lent' = [lent EXCEPT ![m.server] = 0]
    /\ UNCHANGED <<running, available_jobs, network, cleanup_in, picked>>

(***************************************************************************)
(* One turn of _receive_loop: the entry is overwritten with the datagram,  *)
(* whichever was sent last. The datagram stays in network: it may arrive   *)
(* again.                                                                  *)
(***************************************************************************)
Receive(m) ==
    /\ server_nodes' = With(server_nodes, m.server, m.jobs)
    /\ age' = With(age, m.server, 0)
    /\ lent' = [lent EXCEPT ![m.server] = 0]
    /\ UNCHANGED <<running, available_jobs, network, cleanup_in, picked>>

(* Mutant: the count is not taken down.                                    *)
pick_compilation_server_NotCounted(r, v) ==
    /\ picked[r] = NoServer
    /\ v \in Known /\ server_nodes[v] > 0
    /\ picked' = [picked EXCEPT ![r] = v]
    /\ lent' = [lent EXCEPT ![v] = @ + 1]
    /\ UNCHANGED <<running, available_jobs, network, server_nodes, age, cleanup_in>>

(***************************************************************************)
(* Any server with free jobs may be chosen; its count is taken down until  *)
(* the next datagram. A request that finds none tries again in 100 ms.     *)
(***************************************************************************)
pick_compilation_server(r, v) ==
    /\ picked[r] = NoServer
    /\ v \in Known /\ server_nodes[v] > 0
    /\ picked' = [picked EXCEPT ![r] = v]
    /\ server_nodes' = [server_nodes EXCEPT ![v] = @ - 1]
    /\ lent' = [lent EXCEPT ![v] = @ + 1]
    /\ UNCHANGED <<running, available_jobs, network, age, cleanup_in>>

(* Mutant: the age is compared with the wrong bound.                       *)
Cleanup_TooOld ==
    /\ cleanup_in = 0
    /\ cleanup_in' = Period
    /\ LET kept == {v \in Known : age[v] <= StaleAfter + 1}
       IN  /\ server_nodes' = Only(server_nodes, kept)
           /\ age' = Only(age, kept)
    /\ UNCHANGED <<running, available_jobs, network, picked, lent>>

(* One turn of _cleanup_loop.                                              *)
Cleanup ==
    /\ cleanup_in = 0
    /\ cleanup_in' = Period
    /\ LET kept == {v \in Known : age[v] <= StaleAfter}
       IN  /\ server_nodes' = Only(server_nodes, kept)
           /\ age' = Only(age, kept)
    /\ UNCHANGED <<running, available_jobs, network, picked, lent>>

Tick ==
    /\ cleanup_in > 0
    /\ cleanup_in' = cleanup_in - 1
    /\ age' = [v \in Known |-> age[v] + 1]
    /\ UNCHANGED <<running, available_jobs, network, server_nodes, picked, lent>>

Next ==
    \/ \E v \in Servers :
          \/ Advertise(v) \/ Stop(v)
          \/ \E n \in 0 .. MaxJobs : set_available_jobs(v, n)
          \/ \E r \in Requests : pick_compilation_server(r, v)
    \/ \E m \in network : Lose(m) \/ Receive(m)
    \/ Cleanup \/ Tick

Spec == Init /\ [][Next]_vars

(***************************************************************************)
(* Timers expire and their handlers run. A server that stays up has a free *)
(* job again and again (CompilerManager's IdleAdvertises, for compilers    *)
(* that end) and some datagram that says so arrives. A request looks at    *)
(* the table every 100 ms, and what a datagram put there stays for         *)
(* seconds, so it does not miss it for ever.                               *)
(***************************************************************************)
FairSpec ==
    /\ Spec
    /\ WF_vars(Cleanup) /\ WF_vars(Tick)
    /\ \A v \in Servers :
          /\ WF_vars(\E n \in 1 .. MaxJobs :
                        available_jobs[v] = 0 /\ set_available_jobs(v, n))
          /\ SF_vars(Advertise(v) /\ available_jobs[v] > 0)
          /\ SF_vars(\E m \in network : m.server = v /\ m.jobs > 0 /\ Receive(m))
    /\ \A r \in Requests :
          SF_vars(\E v \in Servers : pick_compilation_server(r, v))

-----------------------------------------------------------------------------
(* Properties.                                                             *)

(* A silent server is forgotten in bounded time: no entry is ever older    *)
(* than the age a clean-up tolerates plus one period of the clean-up       *)
(* timer, so no request is sent to a server unheard of for longer.         *)
ForgottenInTime == \A v \in Known : age[v] <= StaleAfter + Period

(* Between two datagrams of a server the requests sent to it and the jobs  *)
(* its entry still offers are together no more than a server has, however  *)
(* the daemon's requests race for them and stale datagrams come in between.*)
LentWithinAdvert ==
    \A v \in Known : server_nodes[v] + lent[v] <= MaxJobs

(* A request finds a server, though datagrams are lost and reordered and   *)
(* entries expire, if some server stays up.                                *)
EveryRequestPlaced ==
    \A r \in Requests : <>(picked[r] # NoServer)
=============================================================================
