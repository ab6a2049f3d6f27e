------------------------- MODULE ClientDaemonProofs -------------------------
(* The client daemon for any number of requests, whatever the faults.      *)
EXTENDS ClientDaemon, FiniteSetTheorems, TLAPS

Starting == {"none", "pick", "connect", "insert", "compile", "refused"}
Disposing == {"retrieve", "abort", "terminate"}

(* Who may be found where: a confirmed session only under its own UUID,    *)
(* while its request has not disposed of it; the nil UUID leads to refused *)
(* sessions only; and a pointer to another request's session is one        *)
(* refused request's pointer to another refused request's session.         *)
KeyInv ==
    /\ \A r \in Requests :
          /\ wrapper[r] = "idle" => ipc_pc[r] = "none"
          /\ session_uuid[r] \in {r, Nil, Garbage}
          /\ ipc_pc[r] \in Starting => client_session[r] = NoRequest
          /\ ipc_pc[r] \in Starting \ {"insert"} => session_uuid[r] # r
          /\ ipc_pc[r] \in {"none", "pick", "connect"} => r \notin terminated
          /\ ipc_pc[r] \in {"compile", "refused"} => r \in terminated
          /\ ipc_pc[r] = "insert" => session_uuid[r] = r
          /\ ipc_pc[r] \in Disposing => client_session[r] # NoRequest
          /\ sess_pc[r] # "none" => session_uuid[r] = r
          /\ client_session[r] # NoRequest =>
                \/ session_uuid[r] = r /\ client_session[r] = r
                \/ r \in RefusedSessions /\ client_session[r] \in RefusedSessions
          /\ client_sessions[r] # NoRequest =>
                client_sessions[r] = r /\ session_uuid[r] = r /\ ipc_pc[r] \in Disposing
    /\ client_sessions[Nil] # NoRequest => client_sessions[Nil] \in RefusedSessions

(* Whose response is where.                                                *)
AnswerInv ==
    \A r \in Requests :
        /\ channel[r] # <<>> => channel[r][1].of = r
        /\ ipc_pc[r] \in {"abort", "terminate"} =>
              response[r] # <<>> /\ response[r][1].of = client_session[r]
        /\ ipc_pc[r] # "done" => answer[r] = <<>>
        /\ wrapper[r] = "answered" => answer[r] # <<>>
        /\ answer[r] # <<>> => answer[r][1].of \in {r, client_session[r]}

AtMostOne == \A x, y \in RefusedSessions : x = y

(* A session leaves the table before its request has disposed of it only   *)
(* when its response is in the channel.                                    *)
WaitInv ==
    \A r \in Requests :
        /\ sess_pc[r] = "terminate" /\ ipc_pc[r] \in {"insert", "retrieve"} =>
              channel[r] # <<>>
        /\ ipc_pc[r] = "retrieve" /\ session_uuid[r] = r =>
              client_sessions[r] = r \/ channel[r] # <<>>
        /\ AtMostOne /\ ipc_pc[r] \in {"refused", "retrieve"} /\ session_uuid[r] # r =>
              channel[r] # <<>>

DaemonInv == TypeOK /\ KeyInv /\ AnswerInv /\ WaitInv

(* The invariant holds initially.                                          *)
LEMMA DaemonInit ==
  Init => DaemonInv
<1> SUFFICES ASSUME Init PROVE DaemonInv
  OBVIOUS
<1> USE ClientDaemonAssumption
<1>1. TypeOK
  BY DEF Init, TypeOK, Keys
<1>2. KeyInv
  BY DEF Init, KeyInv, Starting, Disposing, RefusedSessions, Keys
<1>3. AnswerInv /\ WaitInv
  BY DEF Init, AnswerInv, WaitInv
<1> QED
  BY <1>1, <1>2, <1>3 DEF DaemonInv

-----------------------------------------------------------------------------
(* One lemma per action.                                                   *)

(* A new request has no session yet.                                       *)
LEMMA AskStep ==
  ASSUME DaemonInv, NEW r \in Requests, Ask(r)
  PROVE  DaemonInv'
<1> USE ClientDaemonAssumption DEF DaemonInv, Set, ipcVars, sessVars
<1>1. TypeOK'
  BY DEF Ask, TypeOK, Keys, Response
<1>2. KeyInv'
  BY DEF Ask, TypeOK, Keys, KeyInv, Starting, Disposing, RefusedSessions
<1>3. AnswerInv'
  BY DEF Ask, TypeOK, Keys, Response, KeyInv, Starting, Disposing, AnswerInv
<1>4. AtMostOne' => AtMostOne
  <2>1. RefusedSessions \subseteq RefusedSessions'
    BY DEF Ask, TypeOK, Keys, KeyInv, Starting, Disposing, RefusedSessions
  <2> QED
    BY <2>1 DEF AtMostOne
<1>5. WaitInv'
  BY <1>4 DEF Ask, TypeOK, Keys, KeyInv, Starting, Disposing, WaitInv
<1> QED
  BY <1>1, <1>2, <1>3, <1>5

(* A command run for the wrapper changes the request's own entries only.   *)
LEMMA RunHereStep ==
  ASSUME DaemonInv, NEW r \in Requests, RunHere(r),
         ipc_pc[r] \in {"pick", "rerun"},
         UNCHANGED <<client_session, response, sess_pc, session_uuid, terminated,
                     finished, channel, client_sessions>>
  PROVE  DaemonInv'
<1> USE DEF DaemonInv
<1>1. answer[r] = <<>>
  BY DEF AnswerInv
<1>2. /\ ipc_pc' \in [Requests -> {"none", "pick", "connect", "insert", "compile",
                                   "refused", "retrieve", "abort", "terminate",
                                   "rerun", "hung", "done"}]
      /\ ipc_pc'[r] \in {"done", "hung"}
      /\ \A x \in Requests \ {r} : ipc_pc'[x] = ipc_pc[x]
  BY DEF RunHere, Reply, Fail, Set, TypeOK
<1>3. /\ wrapper' \in [Requests -> {"idle", "waiting", "answered", "failed"}]
      /\ \A x \in Requests \ {r} : wrapper'[x] = wrapper[x]
      /\ wrapper'[r] \in {"answered", "failed", wrapper[r]}
  BY DEF RunHere, Reply, Fail, Set, TypeOK
<1>4. /\ answer' \in [Requests -> Seq(Response)]
      /\ \A x \in Requests \ {r} : answer'[x] = answer[x]
      /\ \/ ipc_pc'[r] = "done" /\ answer'[r] # <<>> /\ answer'[r][1].of = r
         \/ /\ answer'[r] = <<>>
            /\ wrapper'[r] \in {"failed", wrapper[r]}
  <2>1. CASE \E ok \in BOOLEAN : Reply(r, Local(r, ok))
    <3>1. PICK ok \in BOOLEAN : Reply(r, Local(r, ok))
      BY <2>1
    <3>2. Append(answer[r], Local(r, ok)) = <<Local(r, ok)>>
      BY <1>1
    <3>3. /\ answer' = [answer EXCEPT ![r] = <<Local(r, ok)>>]
          /\ ipc_pc' = [ipc_pc EXCEPT ![r] = "done"]
      BY <3>1, <3>2 DEF Reply, Set
    <3>4. <<Local(r, ok)>> \in Seq(Response) /\ Local(r, ok).of = r
      BY DEF Local, Response
    <3> QED
      BY <3>3, <3>4 DEF TypeOK
  <2>2. CASE UNCHANGED answer /\ (Fail(r) \/ UNCHANGED wrapper)
    BY <2>2, <1>1 DEF Fail, Set, TypeOK
  <2> QED
    BY <2>1, <2>2 DEF RunHere
<1>5. TypeOK'
  BY <1>2, <1>3, <1>4 DEF TypeOK
<1>6. RefusedSessions' = RefusedSessions
  BY DEF RefusedSessions
<1>7. KeyInv'
  BY <1>2, <1>3, <1>6 DEF KeyInv, Starting, Disposing, TypeOK
<1>8. AnswerInv'
  BY <1>1, <1>2, <1>3, <1>4 DEF AnswerInv, TypeOK
<1>9. WaitInv'
  BY <1>2, <1>6 DEF WaitInv, AtMostOne
<1> QED
  BY <1>5, <1>7, <1>8, <1>9

(* A link step is answered with its own result and opens no session.       *)
LEMMA RunLinkStep ==
  ASSUME DaemonInv, NEW r \in Requests, RunLink(r)
  PROVE  DaemonInv'
<1> USE DEF DaemonInv
<1>1. /\ ipc_pc[r] = "pick" /\ RunHere(r)
      /\ UNCHANGED <<client_session, response, sess_pc, session_uuid, terminated,
                     finished, channel, client_sessions>>
  BY DEF RunLink, sessVars
<1> QED
  BY <1>1, RunHereStep

(* The uninitialized _session_uuid is nil or garbage, never a UUID in use. *)
LEMMA PickServerStep ==
  ASSUME DaemonInv, NEW r \in Requests, PickServer(r)
  PROVE  DaemonInv'
<1> USE ClientDaemonAssumption DEF DaemonInv, Set, ipcVars, sessVars
<1>1. TypeOK'
  BY DEF PickServer, TypeOK, Keys, Response
<1>2. KeyInv'
  BY DEF PickServer, TypeOK, Keys, KeyInv, Starting, Disposing, RefusedSessions
<1>3. AnswerInv'
  BY DEF PickServer, TypeOK, Keys, Response, KeyInv, Starting, Disposing,
         AnswerInv
<1>4. AtMostOne' => AtMostOne
  <2>1. RefusedSessions \subseteq RefusedSessions'
    BY DEF PickServer, TypeOK, Keys, KeyInv, Starting, Disposing,
           RefusedSessions
  <2> QED
    BY <2>1 DEF AtMostOne
<1>5. WaitInv'
  BY <1>4 DEF PickServer, TypeOK, Keys, KeyInv, Starting, Disposing, WaitInv
<1> QED
  BY <1>1, <1>2, <1>3, <1>5

(* A failed connection leaves no session behind.                           *)
LEMMA ConnectFailsStep ==
  ASSUME DaemonInv, NEW r \in Requests, ConnectFails(r)
  PROVE  DaemonInv'
<1> USE ClientDaemonAssumption DEF DaemonInv, Set, ipcVars, sessVars
<1>1. TypeOK'
  BY DEF Fail, ConnectFails, TypeOK, Keys, Response
<1>2. KeyInv'
  BY DEF Fail, ConnectFails, TypeOK, Keys, KeyInv, Starting, Disposing,
         RefusedSessions
<1>3. AnswerInv'
  BY DEF Fail, ConnectFails, TypeOK, Keys, Response, KeyInv, Starting, Disposing,
         AnswerInv
<1>4. AtMostOne' => AtMostOne
  <2>1. RefusedSessions \subseteq RefusedSessions'
    BY DEF Fail, ConnectFails, TypeOK, Keys, KeyInv, Starting, Disposing,
           RefusedSessions
  <2> QED
    BY <2>1 DEF AtMostOne
<1>5. WaitInv'
  BY <1>4 DEF Fail, ConnectFails, TypeOK, Keys, KeyInv, Starting, Disposing, WaitInv
<1> QED
  BY <1>1, <1>2, <1>3, <1>5

(* The session gets its UUID before anything can find it by that UUID.     *)
LEMMA ConfirmedStep ==
  ASSUME DaemonInv, NEW r \in Requests, Confirmed(r)
  PROVE  DaemonInv'
<1> USE ClientDaemonAssumption DEF DaemonInv, Set, ipcVars, sessVars
<1>1. TypeOK'
  BY DEF Confirmed, TypeOK, Keys, Response
<1>2. KeyInv'
  BY DEF Confirmed, TypeOK, Keys, KeyInv, Starting, Disposing, RefusedSessions
<1>3. AnswerInv'
  BY DEF Confirmed, TypeOK, Keys, Response, KeyInv, Starting, Disposing,
         AnswerInv
<1>4. AtMostOne' => AtMostOne
  <2>1. RefusedSessions \subseteq RefusedSessions'
    BY DEF Confirmed, TypeOK, Keys, KeyInv, Starting, Disposing,
           RefusedSessions
  <2> QED
    BY <2>1 DEF AtMostOne
<1>5. WaitInv'
  BY <1>4 DEF Confirmed, TypeOK, Keys, KeyInv, Starting, Disposing, WaitInv
<1> QED
  BY <1>1, <1>2, <1>3, <1>5

(* A confirmed UUID is not in the table yet, so try_emplace inserts.       *)
LEMMA InsertStep ==
  ASSUME DaemonInv, NEW r \in Requests, Insert(r)
  PROVE  DaemonInv'
<1> USE ClientDaemonAssumption DEF DaemonInv, Set, ipcVars, sessVars
<1>1. /\ session_uuid[r] = r
      /\ client_sessions' = [client_sessions EXCEPT ![r] = r]
      /\ client_session' = [client_session EXCEPT ![r] = r]
      /\ ipc_pc' = [ipc_pc EXCEPT ![r] = "retrieve"]
  BY DEF Insert, TryEmplace, TypeOK, KeyInv, Starting, Disposing
<1>2. TypeOK'
  BY <1>1 DEF Insert, TypeOK, Keys, Response
<1>3. KeyInv'
  BY <1>1 DEF Insert, TypeOK, Keys, KeyInv, Starting, Disposing,
              RefusedSessions
<1>4. AnswerInv'
  BY <1>1 DEF Insert, TypeOK, Keys, KeyInv, Starting, Disposing, AnswerInv
<1>5. AtMostOne' => AtMostOne
  <2>1. RefusedSessions \subseteq RefusedSessions'
    BY <1>1 DEF Insert, TypeOK, Keys, KeyInv, Starting, Disposing,
                RefusedSessions
  <2> QED
    BY <2>1 DEF AtMostOne
<1>6. WaitInv'
  BY <1>1, <1>5 DEF Insert, TypeOK, Keys, KeyInv, Starting, Disposing, WaitInv
<1> QED
  BY <1>2, <1>3, <1>4, <1>6

(* Erasing the unset UUID removes no confirmed session.                    *)
LEMMA RefusedStep ==
  ASSUME DaemonInv, NEW r \in Requests, Refused(r)
  PROVE  DaemonInv'
<1> USE ClientDaemonAssumption DEF DaemonInv, Set, ipcVars, sessVars
<1>1. /\ ipc_pc' = [ipc_pc EXCEPT ![r] = "compile"]
      /\ session_uuid[r] \notin Requests
      /\ \A x \in Requests : client_sessions'[x] = client_sessions[x]
      /\ RefusedSessions' = RefusedSessions \cup {r}
  <2>1. /\ ipc_pc' = [ipc_pc EXCEPT ![r] = "compile"]
        /\ terminated' = terminated \cup {r}
        /\ session_uuid' = session_uuid
        /\ Erase(session_uuid[r])
    BY DEF Refused, terminate_client_session
  <2>2. session_uuid[r] # r /\ session_uuid[r] \in {r, Nil, Garbage}
    BY DEF Refused, KeyInv, Starting
  <2>3. session_uuid[r] \notin Requests
    BY <2>2
  <2>4. \A x \in Requests : client_sessions'[x] = client_sessions[x]
    BY <2>1, <2>3 DEF Erase, Keys
  <2> QED
    BY <2>1, <2>2, <2>3, <2>4 DEF RefusedSessions
<1>2. TypeOK'
  BY DEF Refused, terminate_client_session, Erase, TypeOK, Keys
<1>3. KeyInv'
  BY <1>1 DEF Refused, terminate_client_session, Erase, TypeOK, Keys, KeyInv,
              Starting, Disposing
<1>4. AnswerInv'
  BY <1>1 DEF Refused, TypeOK, AnswerInv
<1>5. AtMostOne' => AtMostOne
  BY <1>1 DEF AtMostOne
<1>6. WaitInv'
  <2>1. \A x \in Requests \ {r} : ipc_pc'[x] = ipc_pc[x]
    BY <1>1 DEF TypeOK
  <2>2. ipc_pc'[r] = "compile"
    BY <1>1 DEF TypeOK
  <2>3. UNCHANGED <<sess_pc, session_uuid, channel>>
    BY DEF Refused
  <2> QED
    BY <1>1, <1>5, <2>1, <2>2, <2>3 DEF WaitInv
<1> QED
  BY <1>2, <1>3, <1>4, <1>6

(* A refused session's result is in its channel before anyone can wait.    *)
LEMMA CompileRefusedStep ==
  ASSUME DaemonInv, NEW r \in Requests, CompileRefused(r)
  PROVE  DaemonInv'
<1> USE DEF DaemonInv
<1>1. /\ UNCHANGED <<answer, client_session, response, sess_pc, session_uuid,
                     terminated, finished, client_sessions>>
      /\ ipc_pc[r] = "compile"
      /\ ipc_pc'[r] \in {"refused", "hung", "done"}
      /\ wrapper'[r] \in {"failed", wrapper[r]}
      /\ \A x \in Requests \ {r} :
            ipc_pc'[x] = ipc_pc[x] /\ wrapper'[x] = wrapper[x] /\ channel'[x] = channel[x]
  BY DEF CompileRefused, Fail, Set, TypeOK
<1>2. \/ channel' = channel /\ ipc_pc'[r] # "refused"
      \/ \E ok \in BOOLEAN : channel' = [channel EXCEPT ![r] = <<Local(r, ok)>>]
  BY DEF CompileRefused, Fail, Set, TypeOK
<1>3. /\ channel' \in [Requests -> Seq(Response)]
      /\ \A x \in Requests : Len(channel'[x]) <= 1
      /\ channel'[r] # <<>> => channel'[r][1].of = r
      /\ ipc_pc'[r] = "refused" => channel'[r] # <<>>
      /\ channel[r] # <<>> => channel'[r] # <<>>
  <2>1. \A ok \in BOOLEAN : <<Local(r, ok)>> \in Seq(Response) /\ Local(r, ok).of = r
    BY DEF Local, Response
  <2>2. CASE channel' = channel /\ ipc_pc'[r] # "refused"
    BY <2>2 DEF TypeOK, AnswerInv
  <2>3. CASE \E ok \in BOOLEAN : channel' = [channel EXCEPT ![r] = <<Local(r, ok)>>]
    <3>1. PICK ok \in BOOLEAN : channel' = [channel EXCEPT ![r] = <<Local(r, ok)>>]
      BY <2>3
    <3>2. /\ channel'[r] = <<Local(r, ok)>>
          /\ \A x \in Requests \ {r} : channel'[x] = channel[x]
          /\ channel' \in [Requests -> Seq(Response)]
      BY <2>1, <3>1 DEF TypeOK
    <3>3. /\ Len(channel'[r]) = 1
          /\ channel'[r] # <<>>
          /\ channel'[r][1].of = r
      BY <2>1, <3>2
    <3>4. \A x \in Requests : Len(channel[x]) <= 1
      BY DEF TypeOK
    <3>5. ASSUME NEW x \in Requests PROVE Len(channel'[x]) <= 1
      <4>1. CASE x = r
        BY <4>1, <3>3
      <4>2. CASE x # r
        BY <4>2, <3>2, <3>4
      <4> QED
        BY <4>1, <4>2
    <3> QED
      BY <3>2, <3>3, <3>5
  <2> QED
    BY <1>2, <2>2, <2>3
<1>4. TypeOK'
  <2>1. ipc_pc' \in [Requests -> {"none", "pick", "connect", "insert", "compile",
                                  "refused", "retrieve", "abort", "terminate",
                                  "rerun", "hung", "done"}]
    BY DEF CompileRefused, Fail, Set, TypeOK
  <2>2. wrapper' \in [Requests -> {"idle", "waiting", "answered", "failed"}]
    BY DEF CompileRefused, Fail, Set, TypeOK
  <2> QED
    BY <1>1, <1>3, <2>1, <2>2 DEF TypeOK
<1>5. RefusedSessions' = RefusedSessions
  BY <1>1 DEF RefusedSessions
<1>6. KeyInv'
  <2>1. r \in RefusedSessions /\ client_session[r] = NoRequest
    BY <1>1 DEF KeyInv, RefusedSessions, Starting
  <2>2. client_sessions[r] = NoRequest /\ wrapper[r] # "idle"
    BY <1>1 DEF KeyInv, Disposing, TypeOK
  <2>3. wrapper'[r] # "idle"
    BY <1>1, <2>2
  <2>4. ASSUME NEW x \in Requests
        PROVE  KeyInv!1!(x)'
    <3>1. CASE x = r
      BY <3>1, <1>1, <1>5, <2>1, <2>2, <2>3 DEF KeyInv, Starting, Disposing
    <3>2. CASE x # r
      BY <3>2, <1>1, <1>5 DEF KeyInv, Starting, Disposing
    <3> QED
      BY <3>1, <3>2
  <2> QED
    BY <1>1, <1>5, <2>4 DEF KeyInv
<1>7. AnswerInv'
  BY <1>1, <1>3 DEF AnswerInv, TypeOK
<1>8. WaitInv'
  BY <1>1, <1>3, <1>5 DEF WaitInv, AtMostOne
<1> QED
  BY <1>4, <1>6, <1>7, <1>8

(* The nil UUID leads from one refused request to another at most.         *)
LEMMA InsertRefusedStep ==
  ASSUME DaemonInv, NEW r \in Requests, InsertRefused(r)
  PROVE  DaemonInv'
<1> USE ClientDaemonAssumption DEF DaemonInv, Set, ipcVars, sessVars
<1>1. TypeOK'
  BY DEF InsertRefused, TryEmplace, TypeOK, Keys, Response
<1>2. KeyInv'
  BY DEF InsertRefused, TryEmplace, TypeOK, Keys, KeyInv, Starting, Disposing,
         RefusedSessions
<1>3. AnswerInv'
  <2>1. /\ answer[r] = <<>>
        /\ ipc_pc'[r] = "retrieve" /\ wrapper[r] # "answered"
        /\ \A x \in Requests \ {r} :
              ipc_pc'[x] = ipc_pc[x] /\ client_session'[x] = client_session[x]
    BY DEF InsertRefused, TryEmplace, TypeOK, AnswerInv
  <2> QED
    BY <2>1 DEF InsertRefused, AnswerInv
<1>4. AtMostOne' => AtMostOne
  <2>1. RefusedSessions \subseteq RefusedSessions'
    BY DEF InsertRefused, TryEmplace, TypeOK, Keys, KeyInv, Starting,
           Disposing, RefusedSessions
  <2> QED
    BY <2>1 DEF AtMostOne
<1>5. WaitInv'
  BY <1>4 DEF InsertRefused, TryEmplace, TypeOK, Keys, KeyInv, Starting,
              Disposing,
              WaitInv
<1> QED
  BY <1>1, <1>2, <1>3, <1>5

(* Only the session's own request, or a refused one, empties its channel.  *)
LEMMA RetrieveStep ==
  ASSUME DaemonInv, NEW r \in Requests, Retrieve(r)
  PROVE  DaemonInv'
<1> USE ClientDaemonAssumption DEF DaemonInv, Set, ipcVars, sessVars
<1> DEFINE s == client_session[r]
<1>1. /\ s \in Requests
      /\ \/ s = r
         \/ /\ r \in RefusedSessions /\ s \in RefusedSessions
            /\ sess_pc[s] = "none" /\ session_uuid[s] # s
  BY DEF Retrieve, TypeOK, KeyInv, Disposing, RefusedSessions
<1>2. TypeOK'
  BY <1>1 DEF Retrieve, TypeOK, Keys
<1>3. KeyInv'
  BY DEF Retrieve, TypeOK, Keys, KeyInv, Starting, Disposing, RefusedSessions
<1>4. AnswerInv'
  BY <1>1 DEF Retrieve, TypeOK, Keys, Response, KeyInv, Starting, Disposing,
              AnswerInv
<1>5. AtMostOne' => AtMostOne
  <2>1. RefusedSessions \subseteq RefusedSessions'
    BY DEF Retrieve, TypeOK, Keys, KeyInv, Starting, Disposing, RefusedSessions
  <2> QED
    BY <2>1 DEF AtMostOne
<1>6. WaitInv'
  <2> SUFFICES ASSUME NEW x \in Requests PROVE WaitInv!(x)'
    BY DEF WaitInv
  <2>1. CASE x = r
    BY <2>1 DEF Retrieve, TypeOK
  <2>2. CASE x # r /\ x # s
    BY <2>2, <1>1, <1>5 DEF Retrieve, TypeOK, WaitInv
  <2>3. CASE x # r /\ x = s
    BY <2>3, <1>1, <1>5 DEF Retrieve, TypeOK, AtMostOne
  <2> QED
    BY <2>1, <2>2, <2>3
<1> QED
  BY <1>2, <1>3, <1>4, <1>6

(* The abort message changes nothing that is shared.                       *)
LEMMA DisposeAbortStep ==
  ASSUME DaemonInv, NEW r \in Requests, DisposeAbort(r)
  PROVE  DaemonInv'
<1> USE ClientDaemonAssumption DEF DaemonInv, Set, ipcVars, sessVars
<1>1. TypeOK'
  BY DEF DisposeAbort, TypeOK, Keys, Response
<1>2. KeyInv'
  BY DEF DisposeAbort, TypeOK, Keys, KeyInv, Starting, Disposing,
         RefusedSessions
<1>3. AnswerInv'
  BY DEF DisposeAbort, TypeOK, Keys, Response, KeyInv, Starting, Disposing,
         AnswerInv
<1>4. AtMostOne' => AtMostOne
  <2>1. RefusedSessions \subseteq RefusedSessions'
    BY DEF DisposeAbort, TypeOK, Keys, KeyInv, Starting, Disposing,
           RefusedSessions
  <2> QED
    BY <2>1 DEF AtMostOne
<1>5. WaitInv'
  BY <1>4 DEF DisposeAbort, TypeOK, Keys, KeyInv, Starting, Disposing, WaitInv
<1> QED
  BY <1>1, <1>2, <1>3, <1>5

(* Disposing erases the own session, or the nil entry.                     *)
LEMMA DisposeTerminateStep ==
  ASSUME DaemonInv, NEW r \in Requests, DisposeTerminate(r)
  PROVE  DaemonInv'
<1> USE ClientDaemonAssumption DEF DaemonInv, Set, ipcVars, sessVars
<1> DEFINE s == client_session[r]
<1>1. /\ s \in Requests
      /\ session_uuid[s] \in {r, Nil, Garbage}
      /\ session_uuid[s] = r => session_uuid[r] = r /\ s = r
      /\ session_uuid[r] = r => session_uuid[s] = r
      /\ s = r \/ s \in RefusedSessions
      /\ session_uuid[s] = s \/ s \in RefusedSessions
  <2>1. s # NoRequest /\ s \in Requests
    BY DEF DisposeTerminate, TypeOK, KeyInv, Disposing
  <2>2. CASE session_uuid[r] = r /\ s = r
    BY <2>1, <2>2
  <2>3. CASE r \in RefusedSessions /\ s \in RefusedSessions
    <3>1. session_uuid[r] # r /\ session_uuid[s] # s
      BY <2>3 DEF RefusedSessions
    <3>2. session_uuid[s] \in {Nil, Garbage}
      BY <2>1, <3>1 DEF KeyInv
    <3> QED
      BY <2>1, <2>3, <3>1, <3>2
  <2> QED
    BY <2>1, <2>2, <2>3 DEF KeyInv
<1>2. /\ Head(response[r]) = response[r][1]
      /\ response[r][1] \in Response
      /\ response[r][1].of = s
      /\ answer[r] = <<>>
  BY DEF DisposeTerminate, TypeOK, AnswerInv
<1>3. \/ /\ wrapper' = [wrapper EXCEPT ![r] = "answered"]
         /\ answer' = [answer EXCEPT ![r] = <<response[r][1]>>]
         /\ ipc_pc' = [ipc_pc EXCEPT ![r] = "done"]
      \/ /\ wrapper' = wrapper /\ answer' = answer
         /\ ipc_pc' = [ipc_pc EXCEPT ![r] = "rerun"]
  <2>1. Append(answer[r], response[r][1]) = <<response[r][1]>>
    BY <1>2
  <2> QED
    BY <1>2, <2>1 DEF DisposeTerminate, Reply
<1>4. /\ \A x \in Requests \ {r} : client_sessions'[x] = client_sessions[x]
      /\ session_uuid[r] = r => client_sessions'[r] = NoRequest
      /\ client_sessions'[r] \in {client_sessions[r], NoRequest}
      /\ client_sessions'[Nil] \in {client_sessions[Nil], NoRequest}
      /\ client_sessions' \in [Keys -> Requests \cup {NoRequest}]
  BY <1>1 DEF DisposeTerminate, terminate_client_session, Erase, TypeOK, Keys
<1>5. UNCHANGED <<client_session, response, sess_pc, session_uuid, finished, channel>>
  BY DEF DisposeTerminate
<1>6. TypeOK'
  <2>1. terminated' \in SUBSET Requests
    BY <1>1 DEF DisposeTerminate, terminate_client_session, TypeOK
  <2>2. answer' \in [Requests -> Seq(Response)]
    <3>1. <<response[r][1]>> \in Seq(Response)
      BY <1>2
    <3>2. \A q \in Seq(Response) :
             [answer EXCEPT ![r] = q] \in [Requests -> Seq(Response)]
      BY DEF TypeOK
    <3>3. answer \in [Requests -> Seq(Response)]
      BY DEF TypeOK
    <3> QED
      BY <1>3, <3>1, <3>2, <3>3, Zenon
  <2>3. wrapper' \in [Requests -> {"idle", "waiting", "answered", "failed"}]
    BY <1>3 DEF TypeOK
  <2>4. ipc_pc' \in [Requests -> {"none", "pick", "connect", "insert", "compile",
                                  "refused", "retrieve", "abort", "terminate",
                                  "rerun", "hung", "done"}]
    BY <1>3 DEF TypeOK
  <2> QED
    BY <1>4, <1>5, <2>1, <2>2, <2>3, <2>4 DEF TypeOK
<1>7. ipc_pc[r] = "terminate"
  BY DEF DisposeTerminate
<1>8. /\ terminated' = terminated \cup {s}
      /\ RefusedSessions' = RefusedSessions
  BY <1>1, <1>5 DEF DisposeTerminate, terminate_client_session, RefusedSessions
<1>9. KeyInv'
  <2>1. \A x \in Requests : x \in terminated' => x \in terminated \/ x = r
    BY <1>1, <1>8 DEF RefusedSessions
  <2>2. ipc_pc'[r] \in {"done", "rerun"}
    BY <1>3 DEF TypeOK
  <2>3. \A x \in Requests \ {r} : wrapper'[x] = wrapper[x] /\ ipc_pc'[x] = ipc_pc[x]
    BY <1>3 DEF TypeOK
  <2>4. wrapper'[r] \in {wrapper[r], "answered"}
    BY <1>3 DEF TypeOK
  <2> HIDE DEF s
  <2>5. /\ client_sessions[Nil] # NoRequest => client_sessions[Nil] \in RefusedSessions
        /\ client_sessions'[Nil] # NoRequest => client_sessions'[Nil] \in RefusedSessions'
    BY <1>4, <1>8 DEF KeyInv
  <2>6. ASSUME NEW x \in Requests
        PROVE  KeyInv!1!(x)'
    <3>1. CASE x = r
      BY <3>1, <1>1, <1>4, <1>5, <1>7, <1>8, <2>2, <2>4 DEF KeyInv, Starting, Disposing
    <3>2. CASE x # r
      BY <3>2, <1>4, <1>5, <1>8, <2>1, <2>3 DEF KeyInv, Starting, Disposing
    <3> QED
      BY <3>1, <3>2
  <2> QED
    BY <2>5, <2>6 DEF KeyInv
<1>10. AnswerInv'
  BY <1>2, <1>3, <1>5, <1>7 DEF TypeOK, AnswerInv
<1>11. WaitInv'
  BY <1>3, <1>4, <1>5, <1>7, <1>8 DEF TypeOK, WaitInv, AtMostOne
<1> QED
  BY <1>6, <1>9, <1>10, <1>11

(* A failed compilation is answered with the result of the local run.      *)
LEMMA RerunStep ==
  ASSUME DaemonInv, NEW r \in Requests, Rerun(r)
  PROVE  DaemonInv'
<1> USE DEF DaemonInv
<1>1. /\ ipc_pc[r] = "rerun" /\ RunHere(r)
      /\ UNCHANGED <<client_session, response, sess_pc, session_uuid, terminated,
                     finished, channel, client_sessions>>
  BY DEF Rerun, sessVars
<1> QED
  BY <1>1, RunHereStep

(* A session publishes its own result.                                     *)
LEMMA ReceiveResultStep ==
  ASSUME DaemonInv, NEW r \in Requests, ReceiveResult(r)
  PROVE  DaemonInv'
<1> USE ClientDaemonAssumption DEF DaemonInv, Set, ipcVars, sessVars
<1>1. TypeOK'
  BY DEF ReceiveResult, TypeOK, Keys, Response
<1>2. KeyInv'
  BY DEF ReceiveResult, TypeOK, Keys, KeyInv, Starting, Disposing,
         RefusedSessions
<1>3. AnswerInv'
  BY DEF ReceiveResult, TypeOK, Keys, Response, KeyInv, Starting, Disposing,
         AnswerInv
<1>4. AtMostOne' => AtMostOne
  <2>1. RefusedSessions \subseteq RefusedSessions'
    BY DEF ReceiveResult, TypeOK, Keys, KeyInv, Starting, Disposing,
           RefusedSessions
  <2> QED
    BY <2>1 DEF AtMostOne
<1>5. WaitInv'
  BY <1>4 DEF ReceiveResult, TypeOK, Keys, KeyInv, Starting, Disposing, WaitInv
<1> QED
  BY <1>1, <1>2, <1>3, <1>5

(* Leaving the publication changes nothing that is shared.                 *)
LEMMA PublishDoneStep ==
  ASSUME DaemonInv, NEW r \in Requests, PublishDone(r)
  PROVE  DaemonInv'
<1> USE ClientDaemonAssumption DEF DaemonInv, Set, ipcVars, sessVars
<1>1. TypeOK'
  BY DEF PublishDone, TypeOK, Keys, Response
<1>2. KeyInv'
  BY DEF PublishDone, TypeOK, Keys, KeyInv, Starting, Disposing,
         RefusedSessions
<1>3. AnswerInv'
  BY DEF PublishDone, TypeOK, Keys, Response, KeyInv, Starting, Disposing,
         AnswerInv
<1>4. AtMostOne' => AtMostOne
  <2>1. RefusedSessions \subseteq RefusedSessions'
    BY DEF PublishDone, TypeOK, Keys, KeyInv, Starting, Disposing,
           RefusedSessions
  <2> QED
    BY <2>1 DEF AtMostOne
<1>5. WaitInv'
  BY <1>4 DEF PublishDone, TypeOK, Keys, KeyInv, Starting, Disposing, WaitInv
<1> QED
  BY <1>1, <1>2, <1>3, <1>5

(* An abort of the server only moves the coroutine.                        *)
LEMMA ReceiveAbortStep ==
  ASSUME DaemonInv, NEW r \in Requests, ReceiveAbort(r)
  PROVE  DaemonInv'
<1> USE ClientDaemonAssumption DEF DaemonInv, Set, ipcVars, sessVars
<1>1. TypeOK'
  BY DEF ReceiveAbort, TypeOK, Keys, Response
<1>2. KeyInv'
  BY DEF ReceiveAbort, TypeOK, Keys, KeyInv, Starting, Disposing,
         RefusedSessions
<1>3. AnswerInv'
  BY DEF ReceiveAbort, TypeOK, Keys, Response, KeyInv, Starting, Disposing,
         AnswerInv
<1>4. AtMostOne' => AtMostOne
  <2>1. RefusedSessions \subseteq RefusedSessions'
    BY DEF ReceiveAbort, TypeOK, Keys, KeyInv, Starting, Disposing,
           RefusedSessions
  <2> QED
    BY <2>1 DEF AtMostOne
<1>5. WaitInv'
  BY <1>4 DEF ReceiveAbort, TypeOK, Keys, KeyInv, Starting, Disposing, WaitInv
<1> QED
  BY <1>1, <1>2, <1>3, <1>5

(* The local compilation only moves the coroutine.                         *)
LEMMA CompileLocallyStep ==
  ASSUME DaemonInv, NEW r \in Requests, CompileLocally(r)
  PROVE  DaemonInv'
<1> USE ClientDaemonAssumption DEF DaemonInv, Set, ipcVars, sessVars
<1>1. TypeOK'
  BY DEF CompileLocally, TypeOK, Keys, Response
<1>2. KeyInv'
  BY DEF CompileLocally, TypeOK, Keys, KeyInv, Starting, Disposing,
         RefusedSessions
<1>3. AnswerInv'
  BY DEF CompileLocally, TypeOK, Keys, Response, KeyInv, Starting, Disposing,
         AnswerInv
<1>4. AtMostOne' => AtMostOne
  <2>1. RefusedSessions \subseteq RefusedSessions'
    BY DEF CompileLocally, TypeOK, Keys, KeyInv, Starting, Disposing,
           RefusedSessions
  <2> QED
    BY <2>1 DEF AtMostOne
<1>5. WaitInv'
  BY <1>4 DEF CompileLocally, TypeOK, Keys, KeyInv, Starting, Disposing,
              WaitInv
<1> QED
  BY <1>1, <1>2, <1>3, <1>5

(* A local result is published before the session may terminate.           *)
LEMMA PublishLocalStep ==
  ASSUME DaemonInv, NEW r \in Requests, PublishLocal(r)
  PROVE  DaemonInv'
<1> USE ClientDaemonAssumption DEF DaemonInv, Set, ipcVars, sessVars
<1>1. TypeOK'
  <2>1. PICK ok \in BOOLEAN : channel' = [channel EXCEPT ![r] = <<Local(r, ok)>>]
    BY DEF PublishLocal
  <2>2. <<Local(r, ok)>> \in Seq(Response)
    BY DEF Local, Response
  <2>3. /\ channel' \in [Requests -> Seq(Response)]
        /\ \A x \in Requests : Len(channel'[x]) <= 1
    BY <2>1, <2>2 DEF TypeOK
  <2> QED
    BY <2>3 DEF PublishLocal, TypeOK
<1>2. KeyInv'
  BY DEF PublishLocal, Local, TypeOK, Keys, KeyInv, Starting, Disposing,
         RefusedSessions
<1>3. AnswerInv'
  BY DEF PublishLocal, Local, TypeOK, Keys, Response, KeyInv, Starting,
         Disposing, AnswerInv
<1>4. AtMostOne' => AtMostOne
  <2>1. RefusedSessions \subseteq RefusedSessions'
    BY DEF PublishLocal, Local, TypeOK, Keys, KeyInv, Starting, Disposing,
           RefusedSessions
  <2> QED
    BY <2>1 DEF AtMostOne
<1>5. WaitInv'
  BY <1>4 DEF PublishLocal, Local, TypeOK, Keys, KeyInv, Starting, Disposing,
              WaitInv
<1> QED
  BY <1>1, <1>2, <1>3, <1>5

(* The session leaves the table with its response in the channel.          *)
LEMMA TerminateSelfStep ==
  ASSUME DaemonInv, NEW r \in Requests, TerminateSelf(r)
  PROVE  DaemonInv'
<1> USE ClientDaemonAssumption DEF DaemonInv, Set, ipcVars, sessVars
<1>1. TypeOK'
  BY DEF TerminateSelf, terminate_client_session, Erase, TypeOK, Keys, Response
<1>2. KeyInv'
  BY DEF TerminateSelf, terminate_client_session, Erase, TypeOK, Keys, KeyInv,
         Starting, Disposing, RefusedSessions
<1>3. AnswerInv'
  BY DEF TerminateSelf, terminate_client_session, Erase, TypeOK, Keys,
         Response, KeyInv, Starting, Disposing, AnswerInv
<1>4. AtMostOne' => AtMostOne
  <2>1. RefusedSessions \subseteq RefusedSessions'
    BY DEF TerminateSelf, terminate_client_session, Erase, TypeOK, Keys,
           KeyInv, Starting, Disposing, RefusedSessions
  <2> QED
    BY <2>1 DEF AtMostOne
<1>5. WaitInv'
  BY <1>4 DEF TerminateSelf, terminate_client_session, Erase, TypeOK, Keys,
              KeyInv, Starting, Disposing, WaitInv
<1> QED
  BY <1>1, <1>2, <1>3, <1>5

(* A lost connection leaves the session in the table.                      *)
LEMMA ReceiveFailsStep ==
  ASSUME DaemonInv, NEW r \in Requests, ReceiveFails(r)
  PROVE  DaemonInv'
<1> USE ClientDaemonAssumption DEF DaemonInv, Set, ipcVars, sessVars
<1>1. TypeOK'
  BY DEF ReceiveFails, TypeOK, Keys, Response
<1>2. KeyInv'
  BY DEF ReceiveFails, TypeOK, Keys, KeyInv, Starting, Disposing,
         RefusedSessions
<1>3. AnswerInv'
  BY DEF ReceiveFails, TypeOK, Keys, Response, KeyInv, Starting, Disposing,
         AnswerInv
<1>4. AtMostOne' => AtMostOne
  <2>1. RefusedSessions \subseteq RefusedSessions'
    BY DEF ReceiveFails, TypeOK, Keys, KeyInv, Starting, Disposing,
           RefusedSessions
  <2> QED
    BY <2>1 DEF AtMostOne
<1>5. WaitInv'
  BY <1>4 DEF ReceiveFails, TypeOK, Keys, KeyInv, Starting, Disposing, WaitInv
<1> QED
  BY <1>1, <1>2, <1>3, <1>5

(* Every step keeps the invariant.                                         *)
LEMMA DaemonStep ==
  DaemonInv /\ [Next]_vars => DaemonInv'
<1> SUFFICES ASSUME DaemonInv, [Next]_vars PROVE DaemonInv'
  OBVIOUS
<1>1. CASE Next
  <2>1. PICK r \in Requests : Ask(r) \/ handle_ipc_request(r) \/ handle_client_session(r)
    BY <1>1 DEF Next
  <2>2. CASE Ask(r)
    BY <2>2, AskStep
  <2>3. CASE handle_ipc_request(r)
    BY <2>3, RunLinkStep, PickServerStep, ConnectFailsStep, ConfirmedStep,
       InsertStep, RefusedStep, CompileRefusedStep, InsertRefusedStep, RetrieveStep,
       DisposeAbortStep, DisposeTerminateStep, RerunStep
       DEF handle_ipc_request
  <2>4. CASE handle_client_session(r)
    BY <2>4, ReceiveResultStep, PublishDoneStep, ReceiveAbortStep,
       CompileLocallyStep, PublishLocalStep, TerminateSelfStep,
       ReceiveFailsStep
       DEF handle_client_session
  <2> QED
    BY <2>1, <2>2, <2>3, <2>4
<1>2. CASE UNCHANGED vars
  BY <1>2 DEF vars, DaemonInv, TypeOK, KeyInv, AnswerInv, WaitInv, AtMostOne,
              RefusedSessions
<1> QED
  BY <1>1, <1>2

(* The invariant holds in every reachable state.                           *)
LEMMA DaemonInvariant ==
  Spec => []DaemonInv
<1> QED
  BY DaemonInit, DaemonStep, PTL DEF Spec

(* A set of at most one element has no two different ones.                 *)
LEMMA OneRefusalPointwise ==
  ASSUME TypeOK, OneRefusal
  PROVE  AtMostOne
<1> SUFFICES ASSUME NEW x \in RefusedSessions, NEW y \in RefusedSessions, x # y
             PROVE  FALSE
  BY DEF AtMostOne
<1>1. IsFiniteSet(RefusedSessions)
  <2>1. RefusedSessions \subseteq Requests
    BY DEF RefusedSessions, TypeOK
  <2> QED
    BY <2>1, ClientDaemonAssumption, FS_Subset
<1>2. IsFiniteSet(RefusedSessions \ {x})
  BY <1>1, FS_RemoveElement
<1>3. /\ Cardinality(RefusedSessions) \in Nat
      /\ Cardinality(RefusedSessions \ {x}) = Cardinality(RefusedSessions) - 1
  BY <1>1, FS_RemoveElement, FS_CardinalityType
<1>4. Cardinality(RefusedSessions \ {x}) = 0
  <2>1. Cardinality(RefusedSessions \ {x}) \in Nat
    BY <1>2, FS_CardinalityType
  <2> QED
    BY <1>3, <2>1 DEF OneRefusal
<1>5. RefusedSessions \ {x} = {}
  BY <1>2, <1>4, FS_EmptySet
<1> QED
  BY <1>5

(* Every variable of the daemon keeps its type; in particular no channel   *)
(* ever holds more than its one element, whoever publishes into it.        *)
THEOREM TypeCorrect ==
  Spec => []TypeOK
<1>1. DaemonInv => TypeOK
  BY DEF DaemonInv
<1> QED
  BY <1>1, DaemonInvariant, PTL

(* Whichever of connect_to_server, the session's coroutine and the IPC     *)
(* coroutine touches _client_sessions last, a request that is over and was *)
(* not refused has left nothing there.                                     *)
THEOREM TableEmptied ==
  Spec => []NothingLeaks
<1>1. DaemonInv => NothingLeaks
  <2> SUFFICES ASSUME DaemonInv, NEW r \in Requests \ RefusedSessions,
                      ipc_pc[r] = "done", NEW k \in Keys
               PROVE  client_sessions[k] # r
    BY DEF NothingLeaks
  <2>1. CASE k = Nil
    BY <2>1, ClientDaemonAssumption DEF DaemonInv, KeyInv
  <2>2. CASE k \in Requests
    BY <2>2, ClientDaemonAssumption DEF DaemonInv, KeyInv, Disposing
  <2> QED
    BY <2>1, <2>2 DEF Keys
<1> QED
  BY <1>1, DaemonInvariant, PTL

(* As long as no two sessions were refused, the answer _handle_ipc_request *)
(* returns to a wrapper is the result of that wrapper's own call.          *)
THEOREM OwnAnswer ==
  Spec => []AnswerIsOwn
<1>1. DaemonInv => AnswerIsOwn
  <2> SUFFICES ASSUME DaemonInv, OneRefusal, NEW r \in Requests,
                      wrapper[r] = "answered"
               PROVE  answer[r][1].of = r
    BY DEF AnswerIsOwn
  <2>1. AtMostOne
    BY OneRefusalPointwise DEF DaemonInv
  <2>2. answer[r] # <<>> /\ answer[r][1].of \in {r, client_session[r]}
    BY DEF DaemonInv, AnswerInv
  <2>3. answer[r][1].of \in Requests
    <3>1. answer[r] \in Seq(Response)
      BY DEF DaemonInv, TypeOK
    <3>2. answer[r][1] \in Response
      BY <2>2, <3>1
    <3> QED
      BY <3>2 DEF Response
  <2>4. client_session[r] \in {r, NoRequest}
    BY <2>1 DEF DaemonInv, KeyInv, AtMostOne
  <2> QED
    BY <2>2, <2>3, <2>4, ClientDaemonAssumption
<1> QED
  BY <1>1, DaemonInvariant, PTL

(* As long as no two sessions were refused, the raw ClientSession pointer  *)
(* through which _handle_ipc_request waits leads to a live session until   *)
(* the response is in its channel.                                         *)
THEOREM WaitsOnLiveSession ==
  Spec => []NoOrphanedWait
<1>1. DaemonInv => NoOrphanedWait
  <2> SUFFICES ASSUME DaemonInv, OneRefusal, NEW r \in Requests,
                      ipc_pc[r] = "retrieve", channel[client_session[r]] = <<>>
               PROVE  SessionAlive(client_session[r])
    BY DEF NoOrphanedWait
  <2>1. AtMostOne
    BY OneRefusalPointwise DEF DaemonInv
  <2>2. client_session[r] = r
    BY <2>1 DEF DaemonInv, KeyInv, AtMostOne, Disposing
  <2>3. session_uuid[r] = r /\ client_sessions[r] = r
    BY <2>1, <2>2 DEF DaemonInv, WaitInv
  <2> QED
    BY <2>2, <2>3 DEF SessionAlive, Keys
<1> QED
  BY <1>1, DaemonInvariant, PTL
=============================================================================
