--------------------- MODULE ResourceAdvertisingProofs ---------------------
(* The listener's table, for any number of servers and requests and any    *)
(* time constants.                                                         *)
EXTENDS ResourceAdvertising, TLAPS

(* The strengthening of ForgottenInTime: an entry is not older than the    *)
(* age it may reach by the next clean-up.                                  *)
AgeBudget == \A v \in Known : age[v] + cleanup_in <= StaleAfter + Period

TableInv == TypeOK /\ AgeBudget /\ LentWithinAdvert

(* The invariant holds initially.                                          *)
LEMMA TableInit ==
  Init => TableInv
<1> SUFFICES ASSUME Init PROVE TableInv
  OBVIOUS
<1> USE ResourceAdvertisingAssumption
<1>1. Known = {} /\ DOMAIN age = {}
  BY DEF Init, Empty, Known
<1>2. TypeOK
  BY <1>1 DEF Init, TypeOK, Empty, Advert
<1> QED
  BY <1>1, <1>2 DEF TableInv, AgeBudget, LentWithinAdvert

(* Every step keeps the invariant.                                         *)
LEMMA TableStep ==
  TableInv /\ [Next]_vars => TableInv'
<1> SUFFICES ASSUME TableInv, [Next]_vars PROVE TableInv'
  OBVIOUS
<1> USE ResourceAdvertisingAssumption
<1>0. TypeOK /\ AgeBudget /\ LentWithinAdvert
  BY DEF TableInv
<1>1. ASSUME NEW v \in Servers,
             Advertise(v) \/ Stop(v) \/ \E n \in 0 .. MaxJobs : set_available_jobs(v, n)
      PROVE  TableInv'
  <2>1. /\ Known' = Known /\ server_nodes' = server_nodes /\ age' = age
        /\ cleanup_in' = cleanup_in /\ lent' = lent /\ picked' = picked
    BY <1>1 DEF Advertise, Stop, set_available_jobs, Known
  <2>2. /\ running' \in SUBSET Servers
        /\ available_jobs' \in [Servers -> 0 .. MaxJobs]
        /\ network' \in SUBSET Advert
    BY <1>0, <1>1 DEF Advertise, Stop, set_available_jobs, TypeOK, Advert
  <2> QED
    BY <1>0, <2>1, <2>2 DEF TableInv, TypeOK, AgeBudget, LentWithinAdvert
<1>2. ASSUME NEW v \in Servers, NEW r \in Requests, pick_compilation_server(r, v)
      PROVE  TableInv'
  <2>1. /\ Known' = Known /\ age' = age /\ cleanup_in' = cleanup_in
        /\ running' = running /\ available_jobs' = available_jobs
        /\ network' = network
    BY <1>0, <1>2 DEF pick_compilation_server, Known, TypeOK
  <2>2. picked' \in [Requests -> Servers \cup {NoServer}]
    BY <1>0, <1>2 DEF pick_compilation_server, TypeOK
  <2>3. /\ v \in Known /\ server_nodes[v] \in 1 .. MaxJobs
        /\ server_nodes' \in [Known -> 0 .. MaxJobs]
        /\ server_nodes'[v] = server_nodes[v] - 1
        /\ \A u \in Known : u # v => server_nodes'[u] = server_nodes[u]
    BY <1>0, <1>2 DEF pick_compilation_server, TypeOK
  <2>4. /\ lent' \in [Servers -> Nat] /\ lent'[v] = lent[v] + 1
        /\ \A u \in Servers : u # v => lent'[u] = lent[u]
    BY <1>0, <1>2 DEF pick_compilation_server, TypeOK
  <2>5. LentWithinAdvert'
    BY <1>0, <2>1, <2>3, <2>4 DEF LentWithinAdvert, TypeOK
  <2> QED
    BY <1>0, <2>1, <2>2, <2>3, <2>4, <2>5 DEF TableInv, TypeOK, AgeBudget
<1>3. ASSUME NEW m \in network, Lose(m)
      PROVE  TableInv'
  <2>1. /\ Known' = Known /\ server_nodes' = server_nodes /\ age' = age
        /\ cleanup_in' = cleanup_in /\ lent' = lent /\ picked' = picked
        /\ running' = running /\ available_jobs' = available_jobs
        /\ network' \subseteq network
    BY <1>3 DEF Lose, Known
  <2> QED
    BY <1>0, <2>1 DEF TableInv, TypeOK, AgeBudget, LentWithinAdvert
<1>4. ASSUME NEW m \in network, Receive(m)
      PROVE  TableInv'
  <2>1. m.server \in Servers /\ m.jobs \in 0 .. MaxJobs
    BY <1>0, <1>4 DEF TypeOK, Advert
  <2>2. /\ cleanup_in' = cleanup_in /\ picked' = picked /\ running' = running
        /\ available_jobs' = available_jobs /\ network' = network
    BY <1>4 DEF Receive
  <2>3. /\ server_nodes \in [DOMAIN server_nodes -> 0 .. MaxJobs]
        /\ DOMAIN age = Known /\ age \in [DOMAIN age -> Nat]
    BY <1>0 DEF TypeOK, Known
  <2>4. /\ Known' = Known \cup {m.server}
        /\ server_nodes' \in [Known' -> 0 .. MaxJobs]
        /\ server_nodes'[m.server] = m.jobs
        /\ \A v \in Known : v # m.server => server_nodes'[v] = server_nodes[v]
    <3>1. server_nodes' = With(server_nodes, m.server, m.jobs)
      BY <1>4 DEF Receive
    <3> QED
      BY <2>1, <2>3, <3>1 DEF With, Known
  <2>5. /\ age' \in [Known' -> Nat] /\ age'[m.server] = 0
        /\ \A v \in Known : v # m.server => age'[v] = age[v]
    <3>1. age' = With(age, m.server, 0)
      BY <1>4 DEF Receive
    <3> QED
      BY <2>3, <2>4, <3>1 DEF With
  <2>6. /\ lent' \in [Servers -> Nat] /\ lent'[m.server] = 0
        /\ \A v \in Servers : v # m.server => lent'[v] = lent[v]
    BY <1>0, <1>4, <2>1 DEF Receive, TypeOK
  <2>7. Known \subseteq Servers /\ Known' \subseteq Servers
    BY <1>0, <2>1, <2>4 DEF TypeOK
  <2>8. TypeOK'
    BY <1>0, <2>2, <2>4, <2>5, <2>6, <2>7 DEF TypeOK
  <2>9. AgeBudget'
    BY <1>0, <2>2, <2>4, <2>5 DEF AgeBudget, TypeOK
  <2>10. LentWithinAdvert'
    BY <1>0, <2>1, <2>4, <2>6, <2>7 DEF LentWithinAdvert
  <2> QED
    BY <2>8, <2>9, <2>10 DEF TableInv
<1>5. CASE Cleanup
  <2> DEFINE kept == {v \in Known : age[v] <= StaleAfter}
  <2>1. /\ server_nodes' = [k \in kept |-> server_nodes[k]]
        /\ age' = [k \in kept |-> age[k]]
        /\ cleanup_in' = Period
        /\ running' = running /\ available_jobs' = available_jobs
        /\ network' = network /\ picked' = picked /\ lent' = lent
    BY <1>5 DEF Cleanup, Only
  <2>2. Known' = kept
    BY <2>1 DEF Known
  <2>3. TypeOK'
    BY <1>0, <2>1, <2>2 DEF TypeOK
  <2>4. AgeBudget'
    BY <1>0, <2>1, <2>2 DEF AgeBudget, TypeOK
  <2>5. LentWithinAdvert'
    BY <1>0, <2>1, <2>2 DEF LentWithinAdvert
  <2> QED
    BY <2>3, <2>4, <2>5 DEF TableInv
<1>6. CASE Tick
  <2>1. /\ Known' = Known /\ age' = [v \in Known |-> age[v] + 1]
        /\ cleanup_in > 0 /\ cleanup_in' = cleanup_in - 1
        /\ running' = running /\ available_jobs' = available_jobs
        /\ network' = network /\ server_nodes' = server_nodes
        /\ picked' = picked /\ lent' = lent
    BY <1>6 DEF Tick, Known
  <2>2. TypeOK'
    BY <1>0, <2>1 DEF TypeOK
  <2>3. AgeBudget' /\ LentWithinAdvert'
    BY <1>0, <2>1 DEF AgeBudget, LentWithinAdvert, TypeOK
  <2> QED
    BY <2>2, <2>3 DEF TableInv
<1>7. CASE UNCHANGED vars
  <2>1. Known' = Known
    BY <1>7 DEF vars, Known
  <2> QED
    BY <1>0, <1>7, <2>1 DEF vars, TableInv, TypeOK, AgeBudget, LentWithinAdvert
<1> QED
  BY <1>1, <1>2, <1>3, <1>4, <1>5, <1>6, <1>7 DEF Next

(* The invariant holds in every reachable state.                           *)
LEMMA TableInvariant ==
  Spec => []TableInv
<1> QED
  BY TableInit, TableStep, PTL DEF Spec

(* The listener's tables keep their types: last-seen times are kept for    *)
(* exactly the servers in _server_nodes, whichever of the receive loop,    *)
(* the clean-up and pick_compilation_server ran last.                      *)
THEOREM TypeCorrect == Spec => []TypeOK
<1>1. TableInv => TypeOK
  BY DEF TableInv
<1> QED
  BY <1>1, TableInvariant, PTL

(* The listener forgets a silent server within StaleAfter + Period         *)
(* seconds of its last datagram (_cleanup_loop), whatever datagrams arrive *)
(* and whatever requests are served meanwhile.                             *)
THEOREM SilentServerForgotten == Spec => []ForgottenInTime
<1>1. TableInv => ForgottenInTime
  BY ResourceAdvertisingAssumption DEF TableInv, TypeOK, AgeBudget, ForgottenInTime
<1> QED
  BY <1>1, TableInvariant, PTL

(* pick_compilation_server never lends more of an entry than a server has, *)
(* for any number of competing requests.                                   *)
THEOREM EntryNotOverdrawn == Spec => []LentWithinAdvert
<1>1. TableInv => LentWithinAdvert
  BY DEF TableInv
<1> QED
  BY <1>1, TableInvariant, PTL
=============================================================================
