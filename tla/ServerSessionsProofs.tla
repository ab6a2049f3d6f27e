------------------------ MODULE ServerSessionsProofs ------------------------
(***************************************************************************)
(* Proofs about ServerSessions for any sessions, files, versions and       *)
(* bounds: no session is forgotten, the pool is used as CompileService     *)
(* demands, every variable has its type, and, while no two sessions race   *)
(* for a file, what the clients declared is what is compiled.              *)
(***************************************************************************)
EXTENDS ServerSessions, SequenceTheorems, TLAPS

(* The part of the state both arguments need to be well formed.            *)
Shape ==
    /\ DOMAIN add_pc = Sessions
    /\ DOMAIN handler_pc = Sessions
    /\ file_status \in [Files -> Statuses]
    /\ required_files \in [Sessions -> SUBSET Files]
    /\ job \in [Sessions -> CS!JobStates]

(* _is_compiler_running is set exactly for the sessions whose request has  *)
(* reached the pool, whatever became of it.                                *)
RunningIsRequested ==
    \A s \in Sessions : s \in compiler_running <=> job[s] # "none"

(* Arguments become ready when the scan begins, and the handler starts     *)
(* after the scan: no handler is overtaken by its own add_session.         *)
AddOrder ==
    \A s \in Sessions :
        /\ s \in args_ready => add_pc[s] \in {"scan", "claim", "try", "done"}
        /\ add_pc[s] \notin {"try", "done"} => handler_pc[s] = "off"

SessionInv ==
    /\ Shape
    /\ associated_sessions \subseteq Sessions
    /\ args_ready \subseteq Sessions
    /\ AddOrder
    /\ RunningIsRequested
    /\ NoForgottenSession

(* After a sweep nothing is left to submit, and what was submitted is new. *)
LEMMA Sweep ==
  ASSUME SessionInv, try_compile_for_active_sessions,
         UNCHANGED <<file_status, associated_sessions, required_files, args_ready>>
  PROVE  /\ job' \in [Sessions -> CS!JobStates]
         /\ RunningIsRequested'
         /\ \A s \in associated_sessions' : ReadyToCompile(s)' => s \in compiler_running'
  BY DEF SessionInv, Shape, try_compile_for_active_sessions, RunningIsRequested,
     ReadyToCompile, CS!JobStates

(* The invariant holds initially.                                          *)
LEMMA SessionInit == Init => SessionInv
  BY DEF Init, SessionInv, Shape, AddOrder, Statuses, CS!JobStates, RunningIsRequested,
     NoForgottenSession

(* Every step keeps the invariant.                                         *)
LEMMA SessionStep ==
  ASSUME SessionInv, [Next]_vars
  PROVE  SessionInv'
<1> USE DEF SessionInv, Shape, NoForgottenSession, ReadyToCompile, RunningIsRequested,
            AddOrder, Set, Statuses
<1>1. ASSUME NEW s \in Sessions, NEW F \in SUBSET Files, Register(s, F)
      PROVE  SessionInv'
  BY <1>1, SMTT(30) DEF Register, poolVars, handlerVars
<1>2. ASSUME NEW s \in Sessions, Preprocess(s) PROVE SessionInv'
  BY <1>2 DEF Preprocess, viewVars, poolVars, handlerVars
<1>3. ASSUME NEW s \in Sessions, NEW f \in Files, ScanRead(s, f) PROVE SessionInv'
  BY <1>3 DEF ScanRead, viewVars, poolVars, handlerVars
<1>4. ASSUME NEW s \in Sessions, ScanClaim(s) PROVE SessionInv'
  BY <1>4 DEF ScanClaim, update_file_state, poolVars, handlerVars
<1>5. ASSUME NEW s \in Sessions, Confirm(s) PROVE SessionInv'
  BY <1>5 DEF Confirm, viewVars, poolVars
<1>6. ASSUME NEW s \in Sessions, TryAfterAdd(s) PROVE SessionInv'
  <2>1. UNCHANGED <<file_status, associated_sessions, required_files, args_ready, handler_pc>>
    BY <1>6 DEF TryAfterAdd, viewVars, handlerVars
  <2>2. add_pc' = [add_pc EXCEPT ![s] = "done"] /\ try_compile_for_active_sessions
    BY <1>6 DEF TryAfterAdd
  <2> QED
    BY <2>1, <2>2, Sweep
<1>7. ASSUME NEW s \in Sessions, TryAfterUpload(s) PROVE SessionInv'
  <2>1. UNCHANGED <<file_status, associated_sessions, required_files, args_ready, add_pc>>
    BY <1>7 DEF TryAfterUpload, viewVars, addVars
  <2>2. /\ handler_pc[s] = "try" /\ handler_pc' = [handler_pc EXCEPT ![s] = "recv"]
        /\ try_compile_for_active_sessions
    BY <1>7 DEF TryAfterUpload
  <2> QED
    BY <2>1, <2>2, Sweep
<1>8. ASSUME NEW s \in Sessions, ReceiveChunk(s) \/ CheckSize(s) \/ ReceiveFails(s)
      PROVE  SessionInv'
  BY <1>8 DEF ReceiveChunk, CheckSize, ReceiveFails, viewVars, addVars, poolVars, handlerVars
<1>9. ASSUME NEW s \in Sessions, RejectUpload(s) \/ CheckSha(s) PROVE SessionInv'
  BY <1>9 DEF RejectUpload, CheckSha, update_file_state, addVars, poolVars
<1>10. ASSUME NEW s \in Sessions, AcceptUpload(s) PROVE SessionInv'
  BY <1>10 DEF AcceptUpload, update_file_state, addVars, poolVars
<1>11. ASSUME NEW s \in Sessions, ReceiveAbort(s) PROVE SessionInv'
  BY <1>11 DEF ReceiveAbort, viewVars, addVars, CS!JobStates
<1>12. ASSUME NEW s \in Sessions, RemoveSession(s) PROVE SessionInv'
  BY <1>12 DEF RemoveSession, addVars, poolVars
<1>13. ASSUME NEW s \in Sessions, Pool(s) PROVE SessionInv'
  BY <1>13 DEF Pool, StartJob, DropJob, FinishJob, PublishJob, CS!Start, CS!Drop,
     CS!Finish, CS!Publish, CS!Move, CS!JobStates, viewVars, addVars, handlerVars
<1>14. CASE UNCHANGED <<viewVars, addVars, handlerVars, poolVars>>
  BY <1>14 DEF viewVars, addVars, handlerVars, poolVars
<1> QED
  BY <1>1, <1>2, <1>3, <1>4, <1>5, <1>6, <1>7, <1>8, <1>9, <1>10, <1>11, <1>12,
     <1>13, <1>14
  DEF Next, add_session, handle_server_session, process_file_chunk, ClientReceive,
      ClientEdits, Disconnect, vars

(* Whatever uploads, sweeps, terminations and lost connections interleave, *)
(* a session whose files have all become AVAILABLE has been submitted or is*)
(* about to be: try_compile_for_active_sessions is called often enough.    *)
THEOREM NoSessionForgotten == Spec => []NoForgottenSession
<1>1. Init => SessionInv
  BY SessionInit
<1>2. SessionInv /\ [Next]_vars => SessionInv'
  BY SessionStep
<1>3. SessionInv => NoForgottenSession
  BY DEF SessionInv
<1> QED
  BY <1>1, <1>2, <1>3, PTL DEF Spec

-----------------------------------------------------------------------------
(* Each step of the sessions is a step CompileService allows, or none.     *)
LEMMA PoolStep ==
  ASSUME SessionInv, [Next]_vars
  PROVE  [CS!Next]_job
<1>1. ASSUME try_compile_for_active_sessions PROVE [CS!Next]_job
  <2> DEFINE S == {s \in associated_sessions :
                      ReadyToCompile(s) /\ s \notin compiler_running}
  <2>1. S \in SUBSET Sessions /\ S \subseteq CS!JobsIn("none")
    BY DEF SessionInv, RunningIsRequested, CS!JobsIn
  <2>2. job' = [s \in Sessions |-> IF s \in S THEN "queued" ELSE job[s]]
    BY <1>1 DEF try_compile_for_active_sessions
  <2>3. CASE S = {}
    BY <2>2, <2>3 DEF SessionInv, Shape
  <2>4. CASE S # {}
    <3>1. CS!Request(S)
      BY <2>1, <2>2 DEF CS!Request
    <3> QED
      BY <2>1, <2>4, <3>1 DEF CS!Next
  <2> QED
    BY <2>3, <2>4
<1>2. ASSUME NEW s \in Sessions, ReceiveAbort(s) PROVE [CS!Next]_job
  BY <1>2 DEF ReceiveAbort, Set, CS!Next, CS!Cancel, CS!Move
<1>3. ASSUME NEW s \in Sessions, Pool(s) PROVE CS!Next
  BY <1>3 DEF Pool, StartJob, DropJob, FinishJob, PublishJob, CS!Next
<1>4. CASE UNCHANGED job
  BY <1>4
<1> QED
  BY <1>1, <1>2, <1>3, <1>4
  DEF Next, add_session, handle_server_session, process_file_chunk, ClientReceive,
      ClientEdits, Disconnect, Register, Preprocess, ScanRead, ScanClaim, Confirm,
      TryAfterAdd, ReceiveChunk, CheckSize, RejectUpload, CheckSha, AcceptUpload,
      TryAfterUpload, RemoveSession, ReceiveFails, poolVars, vars

(* The sessions use the pool as CompileService demands: however sweeps of  *)
(* different coroutines race, a session's compilation is requested once.   *)
THEOREM SessionsKeepPoolContract == Spec => PoolContract
<1>1. Init => SessionInv /\ CS!Init
  BY SessionInit DEF Init, CS!Init
<1>2. SessionInv /\ [Next]_vars => SessionInv' /\ [CS!Next]_job
  BY SessionStep, PoolStep
<1> QED
  BY <1>1, <1>2, PTL DEF Spec, CS!Spec, PoolContract

-----------------------------------------------------------------------------
(* Type correctness.                                                       *)

(* Updating a function at one argument.                                    *)
LEMMA SetType ==
  ASSUME NEW S, NEW T, NEW fn \in [S -> T], NEW key \in S, NEW value \in T
  PROVE  Set(fn, key, value) \in [S -> T]
  BY DEF Set

(* What the server sends is a ServerMsg, whoever receives it.              *)
LEMMA SendType ==
  ASSUME TypeOK, NEW s \in Sessions, NEW msg \in ServerMsg, Send(s, msg)
  PROVE  down' \in [Sessions -> Seq(ServerMsg)]
<1>1. down \in [Sessions -> Seq(ServerMsg)]
  BY DEF TypeOK
<1>2. Append(down[s], msg) \in Seq(ServerMsg)
  BY <1>1, AppendProperties
<1> QED
  BY <1>1, <1>2, SetType DEF Send

(* Every message of the server is a ServerMsg.                             *)
LEMMA ServerMsgs ==
  /\ AbortMsg \in ServerMsg /\ CompleteMsg \in ServerMsg
  /\ \A b \in BOOLEAN : ObjMsg(b) \in ServerMsg
  /\ \A files \in Seq(Files) : ConfirmMsg(files) \in ServerMsg
  BY DEF ServerMsg, AbortMsg, CompleteMsg, ObjMsg, ConfirmMsg

(* The chunks of a file, as the client sends them.                         *)
LEMMA FileChunksType ==
  ASSUME TypeOK, NEW f \in Files
  PROVE  FileChunks(f) \in Seq(Chunk)
<1>1. client_version[f] \in Versions /\ Chunks[client_version[f]] \in Nat
  BY ServerSessionsAssumption DEF TypeOK
<1>2. \A i \in 1 .. Chunks[client_version[f]] :
         [kind |-> "chunk", file |-> f, no |-> i, version |-> client_version[f],
          is_last |-> i = Chunks[client_version[f]] /\ client_version[f] \notin Exact] \in Chunk
  BY <1>1 DEF Chunk
<1> QED
  BY <1>1, <1>2, IsASeq DEF FileChunks

(* Taking a message from the stream of the client.                         *)
LEMMA UpTail ==
  ASSUME TypeOK, NEW s \in Sessions, up[s] # <<>>
  PROVE  /\ Head(up[s]) \in Chunk \cup {AbortMsg}
         /\ Set(up, s, Tail(up[s])) \in [Sessions -> Seq(Chunk \cup {AbortMsg})]
<1>1. up \in [Sessions -> Seq(Chunk \cup {AbortMsg})]
  BY DEF TypeOK
<1>2. /\ Head(up[s]) \in Chunk \cup {AbortMsg}
      /\ Tail(up[s]) \in Seq(Chunk \cup {AbortMsg})
  BY <1>1, HeadTailProperties
<1> QED
  BY <1>1, <1>2, SetType

(* The next file and the abort go into the client's stream.                *)
LEMMA SendNextFileType ==
  ASSUME TypeOK, NEW s \in Sessions, NEW files \in Seq(Files), SendNextFile(s, files)
  PROVE  /\ to_send' \in [Sessions -> Seq(Files)]
         /\ up' \in [Sessions -> Seq(Chunk \cup {AbortMsg})]
<1>0. /\ up \in [Sessions -> Seq(Chunk \cup {AbortMsg})]
      /\ to_send \in [Sessions -> Seq(Files)]
  BY DEF TypeOK
<1>1. CASE files = <<>>
  BY <1>0, <1>1 DEF SendNextFile, Set
<1>2. CASE files # <<>>
  <2>1. Head(files) \in Files /\ Tail(files) \in Seq(Files)
    BY <1>2, HeadTailProperties
  <2>2. FileChunks(Head(files)) \in Seq(Chunk \cup {AbortMsg})
    BY <2>1, FileChunksType, SeqMonotonic
  <2>3. up[s] \o FileChunks(Head(files)) \in Seq(Chunk \cup {AbortMsg})
    BY <1>0, <2>2, ConcatProperties
  <2> QED
    BY <1>0, <1>2, <2>1, <2>3 DEF SendNextFile, Set
<1> QED
  BY <1>1, <1>2

(* The end of the client.                                                  *)
LEMMA ConcludeType ==
  ASSUME TypeOK, NEW s \in Sessions, NEW how \in {"remote", "local"}, Conclude(s, how)
  PROVE  /\ client_pc' \in [Sessions -> {"idle", "await", "active", "remote", "local", "gone"}]
         /\ up' \in [Sessions -> Seq(Chunk \cup {AbortMsg})]
<1>1. Append(up[s], AbortMsg) \in Seq(Chunk \cup {AbortMsg})
  BY AppendProperties DEF TypeOK
<1> QED
  BY <1>1, SetType DEF TypeOK, Conclude

(* A file that is overwritten or extended is a sequence of chunks.         *)
LEMMA WriteType ==
  ASSUME NEW contents \in Seq(Versions \cup {Hole}), NEW no \in Nat \ {0}, NEW v \in Versions
  PROVE  /\ WriteAt(contents, no, v) \in Seq(Versions \cup {Hole})
         /\ <<v>> \in Seq(Versions \cup {Hole})
  BY DEF WriteAt

(* The sweep.                                                              *)
LEMMA SweepType ==
  ASSUME TypeOK, try_compile_for_active_sessions
  PROVE  compiler_running' \in SUBSET Sessions /\ job' \in [Sessions -> CS!JobStates]
  BY DEF TypeOK, try_compile_for_active_sessions, CS!JobStates

(* A coroutine that is to act on a file has one.                           *)
PointersSet ==
    \A s \in Sessions :
        /\ add_pc[s] = "claim" => claim[s] \in Files
        /\ handler_pc[s] \in {"size", "fault", "sha", "accept", "try"} => uploaded[s] \in Files

TypeInv == TypeOK /\ PointersSet

(* The invariant holds initially.                                          *)
LEMMA TypeInit == Init => TypeInv
<1>1. Init => TypeOK
  BY ServerSessionsAssumption, EmptySeq DEF Init, TypeOK, Statuses, CS!JobStates
<1>2. Init => PointersSet
  BY DEF Init, PointersSet
<1> QED
  BY <1>1, <1>2 DEF TypeInv

(* Every step keeps the invariant.                                         *)
LEMMA TypeStep ==
  ASSUME TypeInv, [Next]_vars
  PROVE  TypeInv'
<1>0. TypeOK /\ PointersSet
  BY DEF TypeInv
<1>1. ASSUME NEW s \in Sessions, NEW F \in SUBSET Files, Register(s, F) PROVE TypeInv'
  BY <1>0, <1>1 DEF Register, TypeInv, PointersSet, TypeOK, Set, handlerVars, poolVars, Statuses
<1>2. ASSUME NEW s \in Sessions, Preprocess(s) PROVE TypeInv'
  BY <1>0, <1>2 DEF Preprocess, TypeInv, PointersSet, TypeOK, Set, viewVars, handlerVars, poolVars,
     clientVars
<1>3. ASSUME NEW s \in Sessions, NEW f \in Files, ScanRead(s, f) PROVE TypeInv'
  <2>1. Append(requested_files[s], f) \in Seq(Files)
    BY <1>0, AppendProperties DEF TypeOK
  <2>2. requested_files' \in [Sessions -> Seq(Files)]
    BY <1>0, <1>3, <2>1 DEF ScanRead, TypeOK, Set
  <2>3. /\ add_pc' \in [Sessions -> {"none", "registered", "scan", "claim", "try", "done"}]
        /\ claim' \in [Sessions -> Files \cup {NoFile}]
        /\ to_scan' \in [Sessions -> SUBSET Files]
    <3>1. to_scan' \in [Sessions -> SUBSET Files]
      BY <1>0, <1>3 DEF ScanRead, TypeOK, Set
    <3>2. CASE UNCHANGED <<add_pc, claim>>
      BY <1>0, <3>1, <3>2 DEF TypeOK
    <3>3. CASE add_pc' = Set(add_pc, s, "claim") /\ claim' = Set(claim, s, f)
      BY <1>0, <3>1, <3>3 DEF TypeOK, Set
    <3> QED
      BY <1>3, <3>2, <3>3 DEF ScanRead
  <2>4. TypeOK'
    BY <1>0, <1>3, <2>2, <2>3 DEF ScanRead, TypeOK, viewVars, handlerVars, poolVars, clientVars
  <2>5. PointersSet'
    BY <1>0, <1>3 DEF ScanRead, PointersSet, TypeOK, Set, handlerVars
  <2> QED
    BY <2>4, <2>5 DEF TypeInv
<1>4. ASSUME NEW s \in Sessions, ScanClaim(s) PROVE TypeInv'
  <2>1. claim[s] \in Files
    BY <1>0, <1>4 DEF ScanClaim, PointersSet
  <2>2. Append(requested_files[s], claim[s]) \in Seq(Files)
    BY <1>0, <2>1, AppendProperties DEF TypeOK
  <2> QED
    BY <1>0, <1>4, <2>1, <2>2 DEF ScanClaim, update_file_state, TypeInv, PointersSet, TypeOK, Set,
       handlerVars, poolVars, clientVars, Statuses
<1>5. ASSUME NEW s \in Sessions, Confirm(s) PROVE TypeInv'
  <2>1. ConfirmMsg(requested_files[s]) \in ServerMsg
    BY <1>0, ServerMsgs DEF TypeOK
  <2>2. down' \in [Sessions -> Seq(ServerMsg)]
    BY <1>0, <1>5, <2>1, SendType DEF Confirm
  <2> QED
    BY <1>0, <1>5, <2>2 DEF Confirm, TypeInv, PointersSet, TypeOK, Set, viewVars, poolVars, clientVars
<1>6. ASSUME NEW s \in Sessions, TryAfterAdd(s) PROVE TypeInv'
  <2>1. compiler_running' \in SUBSET Sessions /\ job' \in [Sessions -> CS!JobStates]
    BY <1>0, <1>6, SweepType DEF TryAfterAdd
  <2> QED
    BY <1>0, <1>6, <2>1 DEF TryAfterAdd, TypeInv, PointersSet, TypeOK, Set, viewVars, handlerVars,
       clientVars
<1>7. ASSUME NEW s \in Sessions, ReceiveChunk(s) PROVE TypeInv'
  <2>1. Head(up[s]) \in Chunk
    BY <1>0, <1>7, UpTail DEF ReceiveChunk, AbortMsg
  <2>2. up' \in [Sessions -> Seq(Chunk \cup {AbortMsg})]
    BY <1>0, <1>7, UpTail DEF ReceiveChunk
  <2> DEFINE c == Head(up[s])
  <2>3. c.file \in Files /\ c.no \in Nat \ {0} /\ c.version \in Versions
    BY <2>1 DEF Chunk
  <2>4. disk' \in [Files -> Seq(Versions \cup {Hole})]
    <3>1. disk[c.file] \in Seq(Versions \cup {Hole})
      BY <1>0, <2>3 DEF TypeOK
    <3>2. (IF c.no = 1 THEN <<c.version>> ELSE WriteAt(disk[c.file], c.no, c.version))
             \in Seq(Versions \cup {Hole})
      BY <2>3, <3>1, WriteType
    <3> QED
      BY <1>0, <1>7, <2>3, <3>2, SetType DEF ReceiveChunk, TypeOK
  <2>5. /\ handler_pc' \in [Sessions -> {"off", "recv", "size", "fault", "sha",
                                           "accept", "try", "remove", "ended"}]
        /\ uploaded' \in [Sessions -> Files \cup {NoFile}]
        /\ PointersSet'
    <3>0. UNCHANGED <<add_pc, claim>>
      BY <1>7 DEF ReceiveChunk, addVars
    <3>1. CASE UNCHANGED handlerVars
      BY <1>0, <3>0, <3>1 DEF handlerVars, PointersSet, TypeOK
    <3>2. CASE handler_pc' = Set(handler_pc, s, "size") /\ uploaded' = Set(uploaded, s, c.file)
      BY <1>0, <2>3, <3>0, <3>2 DEF PointersSet, TypeOK, Set
    <3> QED
      BY <1>7, <3>1, <3>2 DEF ReceiveChunk
  <2> QED
    BY <1>0, <1>7, <2>2, <2>4, <2>5 DEF ReceiveChunk, TypeInv, TypeOK, viewVars, addVars, poolVars,
       clientVars
<1>8. ASSUME NEW s \in Sessions, CheckSize(s) \/ ReceiveFails(s) PROVE TypeInv'
  BY <1>0, <1>8, ZenonT(60) DEF CheckSize, ReceiveFails, TypeInv, PointersSet, TypeOK, Set, viewVars, addVars,
     poolVars, clientVars
<1>9. ASSUME NEW s \in Sessions, RejectUpload(s) PROVE TypeInv'
  <2>1. uploaded[s] \in Files
    BY <1>0, <1>9 DEF RejectUpload, PointersSet
  <2>2. down' \in [Sessions -> Seq(ServerMsg)]
    BY <1>0, <1>9, ServerMsgs, SendType DEF RejectUpload
  <2> QED
    BY <1>0, <1>9, <2>1, <2>2 DEF RejectUpload, update_file_state, TypeInv, PointersSet, TypeOK, Set,
       addVars, poolVars, clientVars, Statuses
<1>10. ASSUME NEW s \in Sessions, CheckSha(s) \/ AcceptUpload(s) PROVE TypeInv'
  <2>1. uploaded[s] \in Files
    BY <1>0, <1>10 DEF CheckSha, AcceptUpload, PointersSet
  <2>2. file_status' \in [Files -> Statuses]
    BY <1>0, <1>10, <2>1, ZenonT(60) DEF CheckSha, AcceptUpload, update_file_state, TypeOK, Set, Statuses
  <2>3. /\ handler_pc' \in [Sessions -> {"off", "recv", "size", "fault", "sha",
                                           "accept", "try", "remove", "ended"}]
        /\ PointersSet'
    BY <1>0, <1>10 DEF CheckSha, AcceptUpload, PointersSet, TypeOK, Set, addVars
  <2> QED
    BY <1>0, <1>10, <2>2, <2>3 DEF CheckSha, AcceptUpload, TypeInv, TypeOK, addVars, poolVars,
       clientVars
<1>11. ASSUME NEW s \in Sessions, TryAfterUpload(s) PROVE TypeInv'
  <2>1. compiler_running' \in SUBSET Sessions /\ job' \in [Sessions -> CS!JobStates]
    BY <1>0, <1>11, SweepType DEF TryAfterUpload
  <2>2. down' \in [Sessions -> Seq(ServerMsg)]
    BY <1>0, <1>11, ServerMsgs, SendType DEF TryAfterUpload
  <2> QED
    BY <1>0, <1>11, <2>1, <2>2 DEF TryAfterUpload, TypeInv, PointersSet, TypeOK, Set, viewVars,
       addVars, clientVars
<1>12. ASSUME NEW s \in Sessions, ReceiveAbort(s) PROVE TypeInv'
  <2>1. up' \in [Sessions -> Seq(Chunk \cup {AbortMsg})]
    BY <1>0, <1>12, UpTail DEF ReceiveAbort
  <2> QED
    BY <1>0, <1>12, <2>1 DEF ReceiveAbort, TypeInv, PointersSet, TypeOK, Set, viewVars, addVars,
       clientVars, CS!JobStates
<1>13. ASSUME NEW s \in Sessions, RemoveSession(s) PROVE TypeInv'
  BY <1>0, <1>13 DEF RemoveSession, TypeInv, PointersSet, TypeOK, Set, addVars, poolVars, clientVars
<1>14. ASSUME NEW s \in Sessions, StartJob(s) \/ DropJob(s) \/ FinishJob(s) PROVE TypeInv'
  BY <1>0, <1>14, ZenonT(60) DEF StartJob, DropJob, FinishJob, CS!Start, CS!Drop, CS!Finish, CS!Move,
     CS!JobStates, TypeInv, PointersSet, TypeOK, Set, viewVars, addVars, handlerVars, clientVars
<1>15. ASSUME NEW s \in Sessions, PublishJob(s) PROVE TypeInv'
  <2>1. down' \in [Sessions -> Seq(ServerMsg)]
    BY <1>0, <1>15, ServerMsgs, SendType, ServerSessionsAssumption DEF PublishJob
  <2> QED
    BY <1>0, <1>15, <2>1 DEF PublishJob, CS!Publish, CS!Move, CS!JobStates, TypeInv, PointersSet,
       TypeOK, viewVars, addVars, handlerVars, clientVars
<1>16. ASSUME NEW s \in Sessions, ClientReceive(s) PROVE TypeInv'
  <2> DEFINE msg == Head(down[s])
  <2>1. msg \in ServerMsg /\ Tail(down[s]) \in Seq(ServerMsg)
    BY <1>0, <1>16, HeadTailProperties DEF ClientReceive, TypeOK
  <2>2. down' \in [Sessions -> Seq(ServerMsg)]
    BY <1>0, <1>16, <2>1, SetType DEF ClientReceive, TypeOK
  <2>3. msg.kind = "confirmed" => msg.files \in Seq(Files)
    BY <2>1 DEF ServerMsg, AbortMsg, CompleteMsg
  <2>4. /\ client_pc' \in [Sessions -> {"idle", "await", "active", "remote", "local", "gone"}]
        /\ to_send' \in [Sessions -> Seq(Files)]
        /\ up' \in [Sessions -> Seq(Chunk \cup {AbortMsg})]
    <3>1. CASE ClientAwaitsConfirm(s, msg) /\ msg.kind = "confirmed"
      <4>1. SendNextFile(s, msg.files) /\ client_pc' = Set(client_pc, s, "active")
        BY <3>1 DEF ClientAwaitsConfirm
      <4> QED
        BY <1>0, <2>3, <3>1, <4>1, SendNextFileType DEF TypeOK, Set
    <3>2. CASE Conclude(s, "local") \/ Conclude(s, "remote")
      BY <1>0, <3>2, ConcludeType DEF Conclude, TypeOK
    <3>3. CASE SendNextFile(s, to_send[s]) /\ UNCHANGED client_pc
      BY <1>0, <3>3, SendNextFileType DEF TypeOK
    <3>4. CASE UNCHANGED <<client_pc, to_send, up>>
      BY <1>0, <3>4 DEF TypeOK
    <3> QED
      BY <1>16, <3>1, <3>2, <3>3, <3>4 DEF ClientReceive, ClientAwaitsConfirm, ClientHandles
  <2> QED
    BY <1>0, <1>16, <2>2, <2>4 DEF ClientReceive, TypeInv, PointersSet, TypeOK, viewVars, addVars,
       handlerVars, poolVars
<1>17. ASSUME NEW f \in Files, NEW v \in Versions, ClientEdits(f, v) PROVE TypeInv'
  BY <1>0, <1>17, ServerSessionsAssumption DEF ClientEdits, TypeInv, PointersSet, TypeOK, Set,
     viewVars, addVars, handlerVars, poolVars
<1>18. ASSUME NEW s \in Sessions, Disconnect(s) PROVE TypeInv'
  <2>1. /\ up' \in [Sessions -> Seq(Chunk \cup {AbortMsg})]
        /\ down' \in [Sessions -> Seq(ServerMsg)]
    BY <1>0, <1>18, EmptySeq, SetType DEF Disconnect, TypeOK
  <2> QED
    BY <1>0, <1>18, <2>1, ServerSessionsAssumption DEF Disconnect, TypeInv, PointersSet, TypeOK, Set,
       viewVars, addVars, handlerVars, poolVars
<1>19. CASE UNCHANGED vars
  BY <1>0, <1>19 DEF vars, viewVars, addVars, handlerVars, poolVars, clientVars, TypeInv, PointersSet,
     TypeOK
<1> QED
  BY <1>1, <1>2, <1>3, <1>4, <1>5, <1>6, <1>7, <1>8, <1>9, <1>10, <1>11, <1>12, <1>13, <1>14, <1>15,
     <1>16, <1>17, <1>18, <1>19
  DEF Next, add_session, handle_server_session, process_file_chunk, Pool

(* Every variable keeps its type; in particular no entry is made for a file*)
(* that is none, and every message is one the receiver has a case for.     *)
THEOREM TypeCorrect == Spec => []TypeOK
<1>1. Init => TypeInv
  BY TypeInit
<1>2. TypeInv /\ [Next]_vars => TypeInv'
  BY TypeStep
<1>3. TypeInv => TypeOK
  BY DEF TypeInv
<1> QED
  BY <1>1, <1>2, <1>3, PTL DEF Spec

-----------------------------------------------------------------------------
(* Uploads: what a sole uploader sent is what is compiled, a file that is  *)
(* being uploaded has an uploader, and the pool outlives no requester.     *)
(*                                                                         *)
(* The properties speak of states reached without a race for a file        *)
(* (NoDoubleUpload), an edit or a lost connection. NoDoubleUpload is about *)
(* all that was ever asked for, so a state without a race is reached       *)
(* through states without one, and the invariant UploadInv may assume so:  *)
(* OrderInv holds always, CalmInv unless there was a race or an edit, and  *)
(* QuietInv unless a connection was lost as well.                          *)
(*                                                                         *)
(* Each file asked for has one owner. A step of session s touches a file   *)
(* only if s owns it, so the parts of the invariant that belong to the     *)
(* other sessions are kept (the frame lemmas), and what remains to prove is*)
(* what the step does to s.                                                *)

(* The elements of a sequence, and one that repeats none.                  *)
Elems(q) == {q[i] : i \in 1 .. Len(q)}
Distinct(q) == \A i, j \in 1 .. Len(q) : q[i] = q[j] => i = j

(* The scan asks for a file of the session, for none twice, and for none   *)
(* it has not looked at yet.                                               *)
ScanOK(s) ==
    /\ claim[s] # NoFile <=> add_pc[s] = "claim"
    /\ claim[s] # NoFile => claim[s] \in required_files[s]
    /\ claim[s] \notin Elems(requested_files[s])
    /\ claim[s] \notin to_scan[s]
    /\ to_scan[s] \cap Elems(requested_files[s]) = {}
    /\ to_scan[s] \subseteq required_files[s]
    /\ Elems(requested_files[s]) \subseteq required_files[s]
    /\ add_pc[s] \in {"none", "registered"} => requested_files[s] = <<>> /\ to_scan[s] = {}
    /\ Distinct(requested_files[s])

(* The two ends of a connection: the client sends nothing before it has the*)
(* confirmation, which lists what the scan asks for.                       *)
DialogueOK(s) ==
    /\ client_pc[s] = "idle" <=> add_pc[s] = "none"
    /\ client_pc[s] \in {"idle", "await"} =>
          /\ to_send[s] = <<>> /\ up[s] = <<>> /\ uploaded[s] = NoFile
          /\ \A m \in Elems(down[s]) : m.kind # "complete"
    /\ handler_pc[s] \in {"size", "fault", "sha", "accept", "try"} <=> uploaded[s] # NoFile
    /\ \A m \in Elems(down[s]) : m.kind = "confirmed" =>
          m.files = requested_files[s] /\ add_pc[s] \in {"try", "done"}

(* Nobody lost the race for a file, and nobody edited one; and nobody left.*)
Calm == NoDoubleUpload /\ edits = 0
Quiet == Calm /\ disconnects = 0

(* Without edits there is one version of everything.                       *)
OneVersion ==
    /\ \A f \in Files : client_version[f] = FirstVersion /\ file_version[f] = FirstVersion
    /\ \A s \in Sessions : \A f \in Files : declared[s][f] = FirstVersion

(* A file a session asked for is being uploaded until it is available; one *)
(* it is about to ask for is still INITIAL.                                *)
StatusOK(s) ==
    /\ \A f \in Elems(requested_files[s]) : file_status[f] \in {"UPLOADING", "AVAILABLE"}
    /\ claim[s] # NoFile => file_status[claim[s]] = "INITIAL"
    /\ client_pc[s] \in {"idle", "await"} =>
          \A f \in Elems(requested_files[s]) : file_status[f] = "UPLOADING"

Size == Chunks[FirstVersion]
Beginning(n) == [k \in 1 .. n |-> FirstVersion]

IsChunk(msg) == msg.kind = "chunk"
ChunkFiles(q) == {q[i].file : i \in {j \in 1 .. Len(q) : IsChunk(q[j])}}

(* The chunks of a file follow each other in a stream without a gap.       *)
Consecutive(q) ==
    \A i \in 1 .. Len(q) : IsChunk(q[i]) =>
        /\ q[i].version = FirstVersion
        /\ q[i].no \in 1 .. Size
        /\ q[i].is_last => q[i].no = Size
        /\ q[i].no > 1 /\ i > 1 => /\ IsChunk(q[i - 1])
                                   /\ q[i - 1].file = q[i].file
                                   /\ q[i - 1].no = q[i].no - 1
        /\ \A j \in 1 .. Len(q) : IsChunk(q[j]) /\ q[j].file = q[i].file =>
              q[j].no - q[i].no = j - i

(* A requested file is waiting, in the stream, or being processed, in this *)
(* order and once; the disk has what precedes the next chunk.              *)
StreamOK(s) ==
    /\ Consecutive(up[s]) /\ Distinct(to_send[s])
    /\ Elems(to_send[s]) \cap ChunkFiles(up[s]) = {}
    /\ uploaded[s] \notin Elems(to_send[s])
    /\ uploaded[s] \notin ChunkFiles(up[s])
    /\ \A f \in Elems(to_send[s]) \cup ChunkFiles(up[s]) :
          f \in Elems(requested_files[s]) /\ file_status[f] = "UPLOADING"
    /\ up[s] # <<>> /\ IsChunk(up[s][1]) /\ up[s][1].no > 1 =>
          disk[up[s][1].file] = Beginning(up[s][1].no - 1)

(* A file whose last chunk was written is complete.                        *)
UploadedOK(s) ==
    uploaded[s] # NoFile =>
        /\ uploaded[s] \in Elems(requested_files[s])
        /\ disk[uploaded[s]] = Beginning(Size)
        /\ handler_pc[s] # "fault"
        /\ file_status[uploaded[s]] =
              IF handler_pc[s] = "try" THEN "AVAILABLE" ELSE "UPLOADING"

FilesOK ==
    \A f \in Files : /\ file_status[f] # "FAULT"
                     /\ file_status[f] = "AVAILABLE" => disk[f] = Beginning(Size)

(* A session that was submitted has its files, and keeps them.             *)
CompiledOK(s) ==
    /\ s \in compiler_running => \A f \in required_files[s] : file_status[f] = "AVAILABLE"
    /\ output[s] # "other"

(* Without failures the client stays until its object file is published.   *)
OwnerOK(s) ==
    /\ client_pc[s] # "gone"
    /\ \A m \in Elems(down[s]) : m.kind # "abort" /\ (m.kind = "obj" => job[s] = "published")
    /\ client_pc[s] \in {"remote", "local"} => job[s] = "published"
    /\ AbortMsg \in Elems(up[s]) => client_pc[s] \in {"remote", "local"}
    /\ handler_pc[s] \in {"remove", "ended"} => client_pc[s] \in {"remote", "local"}

UploadsOwned ==
    \A f \in Files : file_status[f] = "UPLOADING" =>
        \E s \in Sessions : f \in Elems(requested_files[s])

OrderInv ==
    /\ compiler_running \subseteq args_ready
    /\ \A s \in Sessions : ScanOK(s) /\ DialogueOK(s)
CalmInv ==
    /\ OneVersion /\ FilesOK
    /\ \A s \in Sessions : StatusOK(s) /\ StreamOK(s) /\ UploadedOK(s) /\ CompiledOK(s)
QuietInv == UploadsOwned /\ \A s \in Sessions : OwnerOK(s)

UploadInv == OrderInv /\ (Calm => CalmInv) /\ (Quiet => QuietInv)

-----------------------------------------------------------------------------
(* Sequences that lose their head or gain a last element.                  *)

(* Appending adds one element, and repeats none that is new.               *)
LEMMA AppendElems ==
  ASSUME NEW S, NEW q \in Seq(S), NEW x \in S
  PROVE  /\ Append(q, x) \in Seq(S) /\ Len(Append(q, x)) = Len(q) + 1
         /\ \A i \in 1 .. Len(q) : Append(q, x)[i] = q[i]
         /\ Append(q, x)[Len(q) + 1] = x
         /\ Elems(Append(q, x)) = Elems(q) \cup {x}
         /\ Distinct(q) /\ x \notin Elems(q) => Distinct(Append(q, x))
<1>1. /\ Append(q, x) \in Seq(S) /\ Len(Append(q, x)) = Len(q) + 1
      /\ \A i \in 1 .. Len(q) : Append(q, x)[i] = q[i]
      /\ Append(q, x)[Len(q) + 1] = x
  BY AppendProperties
<1>2. \A i \in 1 .. Len(Append(q, x)) : i = Len(q) + 1 \/ i \in 1 .. Len(q)
  BY <1>1
<1>3. Elems(Append(q, x)) = Elems(q) \cup {x}
  <2>1. ASSUME NEW y \in Elems(Append(q, x)) PROVE y \in Elems(q) \cup {x}
    BY <1>1, <1>2 DEF Elems
  <2>2. ASSUME NEW y \in Elems(q) PROVE y \in Elems(Append(q, x))
    <3>1. PICK i \in 1 .. Len(q) : q[i] = y
      BY <2>2 DEF Elems
    <3>2. i \in 1 .. Len(Append(q, x)) /\ Append(q, x)[i] = y
      BY <1>1, <3>1
    <3> QED
      BY <3>2 DEF Elems
  <2>3. x \in Elems(Append(q, x))
    <3>1. Len(q) + 1 \in 1 .. Len(Append(q, x))
      BY <1>1
    <3> QED
      BY <1>1, <3>1 DEF Elems
  <2> QED
    BY <2>1, <2>2, <2>3
<1>4. ASSUME Distinct(q), x \notin Elems(q) PROVE Distinct(Append(q, x))
  <2> SUFFICES ASSUME NEW i \in 1 .. Len(Append(q, x)), NEW j \in 1 .. Len(Append(q, x)),
                      Append(q, x)[i] = Append(q, x)[j]
               PROVE  i = j
    BY DEF Distinct
  <2>1. \A k \in 1 .. Len(q) : q[k] # x
    BY <1>4 DEF Elems
  <2> QED
    BY <1>1, <1>2, <1>4, <2>1 DEF Distinct
<1> QED
  BY <1>1, <1>3, <1>4

(* Removing the head removes one element.                                  *)
LEMMA TailElems ==
  ASSUME NEW S, NEW q \in Seq(S), q # <<>>
  PROVE  /\ Len(q) \in Nat \ {0} /\ Tail(q) \in Seq(S) /\ Len(Tail(q)) = Len(q) - 1
         /\ \A i \in 1 .. Len(Tail(q)) : i + 1 \in 1 .. Len(q) /\ Tail(q)[i] = q[i + 1]
         /\ Head(q) = q[1] /\ 1 \in 1 .. Len(q) /\ q[1] \in S
         /\ Elems(Tail(q)) \subseteq Elems(q) /\ Head(q) \in Elems(q)
         /\ Distinct(q) => Distinct(Tail(q)) /\ Head(q) \notin Elems(Tail(q))
<1>1. /\ Len(q) \in Nat \ {0} /\ Tail(q) \in Seq(S) /\ Len(Tail(q)) = Len(q) - 1
      /\ \A i \in 1 .. Len(Tail(q)) : i + 1 \in 1 .. Len(q) /\ Tail(q)[i] = q[i + 1]
      /\ Head(q) = q[1] /\ 1 \in 1 .. Len(q) /\ q[1] \in S
  BY HeadTailProperties
<1>2. Elems(Tail(q)) \subseteq Elems(q) /\ Head(q) \in Elems(q)
  BY <1>1 DEF Elems
<1>3. ASSUME Distinct(q) PROVE Distinct(Tail(q))
  <2> SUFFICES ASSUME NEW i \in 1 .. Len(Tail(q)), NEW j \in 1 .. Len(Tail(q)),
                      Tail(q)[i] = Tail(q)[j]
               PROVE  i = j
    BY DEF Distinct
  <2>1. q[i + 1] = q[j + 1] /\ i + 1 \in 1 .. Len(q) /\ j + 1 \in 1 .. Len(q)
    BY <1>1
  <2> QED
    BY <1>3, <2>1 DEF Distinct
<1>4. ASSUME Distinct(q), Head(q) \in Elems(Tail(q)) PROVE FALSE
  <2>1. PICK i \in 1 .. Len(Tail(q)) : Tail(q)[i] = Head(q)
    BY <1>4 DEF Elems
  <2>2. q[i + 1] = q[1] /\ i + 1 \in 1 .. Len(q) /\ i \in Nat \ {0}
    BY <1>1, <2>1
  <2> QED
    BY <1>1, <1>4, <2>2 DEF Distinct
<1> QED
  BY <1>1, <1>2, <1>3, <1>4

(* The empty sequence.                                                     *)
LEMMA NoElems == Elems(<<>>) = {} /\ ChunkFiles(<<>>) = {} /\ Distinct(<<>>) /\ Consecutive(<<>>)
  BY DEF Elems, ChunkFiles, Distinct, Consecutive

-----------------------------------------------------------------------------
(* The stream of a connection: its head is consumed, the abort or the      *)
(* chunks of another file come last.                                       *)
UpMsg == Chunk \cup {AbortMsg}

(* Receiving a message: what follows it is still without a gap.            *)
LEMMA StreamTail ==
  ASSUME NEW q \in Seq(UpMsg), q # <<>>, Consecutive(q)
  PROVE  /\ Consecutive(Tail(q)) /\ ChunkFiles(Tail(q)) \subseteq ChunkFiles(q)
         /\ IsChunk(q[1]) => q[1].file \in ChunkFiles(q)
         /\ IsChunk(q[1]) /\ q[1].is_last => q[1].file \notin ChunkFiles(Tail(q))
         /\ Tail(q) # <<>> /\ IsChunk(Tail(q)[1]) /\ Tail(q)[1].no > 1 =>
               /\ IsChunk(q[1]) /\ q[1].file = Tail(q)[1].file
               /\ q[1].no = Tail(q)[1].no - 1
<1>1. /\ Len(q) \in Nat \ {0} /\ Tail(q) \in Seq(UpMsg) /\ Len(Tail(q)) = Len(q) - 1
      /\ \A i \in 1 .. Len(Tail(q)) : i + 1 \in 1 .. Len(q) /\ Tail(q)[i] = q[i + 1]
      /\ Head(q) = q[1] /\ 1 \in 1 .. Len(q) /\ q[1] \in UpMsg
  BY TailElems
<1>0. Size \in Nat /\ \A i \in 1 .. Len(q) : IsChunk(q[i]) => q[i].no \in Nat \ {0}
  BY ServerSessionsAssumption DEF Size, Consecutive
<1>2. Consecutive(Tail(q))
  <2> SUFFICES ASSUME NEW i \in 1 .. Len(Tail(q)), IsChunk(Tail(q)[i])
               PROVE  /\ Tail(q)[i].version = FirstVersion
                      /\ Tail(q)[i].no \in 1 .. Size
                      /\ Tail(q)[i].is_last => Tail(q)[i].no = Size
                      /\ Tail(q)[i].no > 1 /\ i > 1 =>
                            /\ IsChunk(Tail(q)[i - 1])
                            /\ Tail(q)[i - 1].file = Tail(q)[i].file
                            /\ Tail(q)[i - 1].no = Tail(q)[i].no - 1
                      /\ \A j \in 1 .. Len(Tail(q)) :
                            IsChunk(Tail(q)[j]) /\ Tail(q)[j].file = Tail(q)[i].file =>
                               Tail(q)[j].no - Tail(q)[i].no = j - i
    BY DEF Consecutive
  <2>1. Tail(q)[i] = q[i + 1] /\ i + 1 \in 1 .. Len(q) /\ i + 1 > 1 /\ (i + 1) - 1 = i
    BY <1>1
  <2>2. /\ q[i + 1].version = FirstVersion /\ q[i + 1].no \in 1 .. Size
        /\ q[i + 1].is_last => q[i + 1].no = Size
        /\ q[i + 1].no > 1 => /\ IsChunk(q[i]) /\ q[i].file = q[i + 1].file
                              /\ q[i].no = q[i + 1].no - 1
        /\ \A j \in 1 .. Len(q) : IsChunk(q[j]) /\ q[j].file = q[i + 1].file =>
              q[j].no - q[i + 1].no = j - (i + 1)
    BY <2>1 DEF Consecutive
  <2>3. i > 1 => i - 1 \in 1 .. Len(Tail(q)) /\ Tail(q)[i - 1] = q[i]
    BY <1>1
  <2>4. ASSUME NEW j \in 1 .. Len(Tail(q)), IsChunk(Tail(q)[j]), Tail(q)[j].file = Tail(q)[i].file
        PROVE  Tail(q)[j].no - Tail(q)[i].no = j - i
    <3>1. Tail(q)[j] = q[j + 1] /\ j + 1 \in 1 .. Len(q)
      BY <1>1
    <3>2. q[j + 1].no - q[i + 1].no = (j + 1) - (i + 1)
      BY <2>1, <2>2, <2>4, <3>1
    <3> QED
      BY <2>1, <3>1, <3>2
  <2> QED
    BY <2>1, <2>2, <2>3, <2>4
<1>3. ASSUME NEW f \in ChunkFiles(Tail(q))
      PROVE  \E i \in 1 .. Len(q) : i > 1 /\ IsChunk(q[i]) /\ q[i].file = f
  <2>1. PICK i \in 1 .. Len(Tail(q)) : IsChunk(Tail(q)[i]) /\ Tail(q)[i].file = f
    BY <1>3 DEF ChunkFiles
  <2>2. i + 1 \in 1 .. Len(q) /\ Tail(q)[i] = q[i + 1] /\ i + 1 > 1
    BY <1>1
  <2> QED
    BY <2>1, <2>2
<1>4. ChunkFiles(Tail(q)) \subseteq ChunkFiles(q) /\ (IsChunk(q[1]) => q[1].file \in ChunkFiles(q))
  BY <1>1, <1>3 DEF ChunkFiles
<1>5. ASSUME IsChunk(q[1]), q[1].is_last, q[1].file \in ChunkFiles(Tail(q)) PROVE FALSE
  <2>1. PICK i \in 1 .. Len(q) : i > 1 /\ IsChunk(q[i]) /\ q[i].file = q[1].file
    BY <1>3, <1>5
  <2>2. q[1].no = Size /\ q[i].no \in 1 .. Size /\ q[i].no - q[1].no = i - 1
    BY <1>1, <1>5, <2>1 DEF Consecutive
  <2> QED
    BY <1>0, <2>1, <2>2
<1>6. ASSUME Tail(q) # <<>>, IsChunk(Tail(q)[1]), Tail(q)[1].no > 1
      PROVE  /\ IsChunk(q[1]) /\ q[1].file = Tail(q)[1].file
             /\ q[1].no = Tail(q)[1].no - 1
  <2>1. Len(Tail(q)) \in Nat \ {0}
    BY <1>1, <1>6, EmptySeq
  <2>2. 2 \in 1 .. Len(q) /\ Tail(q)[1] = q[2]
    BY <1>1, <2>1
  <2> QED
    BY <1>6, <2>2 DEF Consecutive
<1> QED
  BY <1>2, <1>4, <1>5, <1>6

(* The abort comes after all chunks.                                       *)
LEMMA StreamAbort ==
  ASSUME NEW q \in Seq(UpMsg), Consecutive(q)
  PROVE  /\ Consecutive(Append(q, AbortMsg)) /\ ChunkFiles(Append(q, AbortMsg)) = ChunkFiles(q)
         /\ IsChunk(Append(q, AbortMsg)[1]) => q # <<>> /\ Append(q, AbortMsg)[1] = q[1]
<1>0. AbortMsg \in UpMsg /\ ~ IsChunk(AbortMsg)
  BY DEF UpMsg, AbortMsg, IsChunk
<1> DEFINE r == Append(q, AbortMsg)
<1>1. /\ r \in Seq(UpMsg) /\ Len(r) = Len(q) + 1 /\ Len(q) \in Nat
      /\ \A i \in 1 .. Len(q) : r[i] = q[i]
      /\ r[Len(q) + 1] = AbortMsg
  BY <1>0, AppendProperties
<1> HIDE DEF r
<1>2. \A i \in 1 .. Len(r) : IsChunk(r[i]) => i \in 1 .. Len(q)
  BY <1>0, <1>1
<1>3. Consecutive(r)
  <2> SUFFICES ASSUME NEW i \in 1 .. Len(r), IsChunk(r[i])
               PROVE  /\ r[i].version = FirstVersion
                      /\ r[i].no \in 1 .. Size
                      /\ r[i].is_last => r[i].no = Size
                      /\ r[i].no > 1 /\ i > 1 =>
                            /\ IsChunk(r[i - 1])
                            /\ r[i - 1].file = r[i].file
                            /\ r[i - 1].no = r[i].no - 1
                      /\ \A j \in 1 .. Len(r) :
                            IsChunk(r[j]) /\ r[j].file = r[i].file => r[j].no - r[i].no = j - i
    BY DEF Consecutive
  <2>1. i \in 1 .. Len(q) /\ r[i] = q[i] /\ (i > 1 => i - 1 \in 1 .. Len(q) /\ r[i - 1] = q[i - 1])
    BY <1>1, <1>2
  <2> QED
    BY <1>1, <1>2, <2>1 DEF Consecutive
<1>4. ChunkFiles(r) = ChunkFiles(q)
  <2>1. \A i \in 1 .. Len(q) : i \in 1 .. Len(r)
    BY <1>1
  <2> QED
    BY <1>1, <1>2, <2>1 DEF ChunkFiles
<1>5. IsChunk(r[1]) => q # <<>> /\ r[1] = q[1]
  <2>1. 1 \in 1 .. Len(r)
    BY <1>1
  <2>2. IsChunk(r[1]) => 1 \in 1 .. Len(q)
    BY <1>2, <2>1
  <2>3. IsChunk(r[1]) => q # <<>>
    BY <2>2, EmptySeq
  <2> QED
    BY <1>1, <2>2, <2>3
<1> QED
  BY <1>3, <1>4, <1>5 DEF r

(* The chunks of a file that is not in the stream yet.                     *)
LEMMA StreamFile ==
  ASSUME TypeOK, NEW q \in Seq(UpMsg), Consecutive(q), NEW f \in Files,
         client_version[f] = FirstVersion, f \notin ChunkFiles(q)
  PROVE  /\ Consecutive(q \o FileChunks(f))
         /\ ChunkFiles(q \o FileChunks(f)) = ChunkFiles(q) \cup {f}
         /\ IsChunk((q \o FileChunks(f))[1]) /\ (q \o FileChunks(f))[1].no > 1 =>
               q # <<>> /\ (q \o FileChunks(f))[1] = q[1]
<1> DEFINE r == q \o FileChunks(f)
           n == Len(q)
<1>0. Size \in Nat \ {0} /\ FileChunks(f) \in Seq(UpMsg) /\ Len(FileChunks(f)) = Size
  <2>1. FileChunks(f) \in Seq(Chunk)
    BY FileChunksType
  <2>2. FileChunks(f) \in Seq(UpMsg)
    BY <2>1, SeqMonotonic DEF UpMsg
  <2>3. Size \in Nat \ {0}
    BY ServerSessionsAssumption DEF Size
  <2>4. DOMAIN FileChunks(f) = 1 .. Size
    BY DEF FileChunks, Size
  <2> QED
    BY <2>2, <2>3, <2>4, LenProperties
<1>1. \A i \in 1 .. Size : /\ FileChunks(f)[i].kind = "chunk" /\ FileChunks(f)[i].file = f
                           /\ FileChunks(f)[i].no = i /\ FileChunks(f)[i].version = FirstVersion
                           /\ FileChunks(f)[i].is_last => i = Size
  BY DEF FileChunks, Size
<1>2. /\ r \in Seq(UpMsg) /\ Len(r) = n + Size /\ n \in Nat
      /\ \A i \in 1 .. n + Size : r[i] = IF i <= n THEN q[i] ELSE FileChunks(f)[i - n]
  <2>1. n \in Nat
    BY LenProperties
  <2>2. /\ r \in Seq(UpMsg) /\ Len(r) = n + Len(FileChunks(f))
        /\ \A i \in 1 .. n + Len(FileChunks(f)) :
              r[i] = IF i <= n THEN q[i] ELSE FileChunks(f)[i - n]
    BY <1>0, ConcatProperties, Zenon
  <2> QED
    BY <1>0, <2>1, <2>2
<1> HIDE DEF r
<1>3. \A i \in 1 .. n : i \in 1 .. Len(r) /\ r[i] = q[i]
  BY <1>0, <1>2
<1>4. \A i \in 1 .. Len(r) : i \notin 1 .. n =>
         /\ IsChunk(r[i]) /\ r[i].file = f /\ r[i].no = i - n /\ r[i].version = FirstVersion
         /\ r[i].is_last => i - n = Size
         /\ i - n \in 1 .. Size
  <2> SUFFICES ASSUME NEW i \in 1 .. Len(r), i \notin 1 .. n
               PROVE  /\ IsChunk(r[i]) /\ r[i].file = f /\ r[i].no = i - n
                      /\ r[i].version = FirstVersion
                      /\ r[i].is_last => i - n = Size
                      /\ i - n \in 1 .. Size
    OBVIOUS
  <2>1. i - n \in 1 .. Size /\ r[i] = FileChunks(f)[i - n]
    BY <1>0, <1>2
  <2> QED
    BY <1>1, <2>1 DEF IsChunk
<1>5. \A i \in 1 .. n : IsChunk(q[i]) => q[i].file # f
  BY DEF ChunkFiles
<1>6. Consecutive(r)
  <2> SUFFICES ASSUME NEW i \in 1 .. Len(r), IsChunk(r[i])
               PROVE  /\ r[i].version = FirstVersion
                      /\ r[i].no \in 1 .. Size
                      /\ r[i].is_last => r[i].no = Size
                      /\ r[i].no > 1 /\ i > 1 =>
                            /\ IsChunk(r[i - 1])
                            /\ r[i - 1].file = r[i].file
                            /\ r[i - 1].no = r[i].no - 1
                      /\ \A j \in 1 .. Len(r) :
                            IsChunk(r[j]) /\ r[j].file = r[i].file => r[j].no - r[i].no = j - i
    BY DEF Consecutive
  <2>1. CASE i \in 1 .. n
    <3>1. i > 1 => i - 1 \in 1 .. n /\ r[i - 1] = q[i - 1]
      BY <1>2, <1>3, <2>1
    <3>2. r[i] = q[i] /\ q[i].file # f
      BY <1>3, <1>5, <2>1
    <3>3. \A j \in 1 .. Len(r) : IsChunk(r[j]) /\ r[j].file = r[i].file => j \in 1 .. n
      BY <1>4, <3>2
    <3>4. /\ q[i].version = FirstVersion /\ q[i].no \in 1 .. Size
          /\ q[i].is_last => q[i].no = Size
          /\ q[i].no > 1 /\ i > 1 => /\ IsChunk(q[i - 1]) /\ q[i - 1].file = q[i].file
                                     /\ q[i - 1].no = q[i].no - 1
          /\ \A j \in 1 .. n : IsChunk(q[j]) /\ q[j].file = q[i].file => q[j].no - q[i].no = j - i
      BY <2>1, <3>2 DEF Consecutive
    <3> QED
      BY <1>3, <3>1, <3>2, <3>3, <3>4
  <2>2. CASE i \notin 1 .. n
    <3>1. /\ r[i].file = f /\ r[i].no = i - n /\ r[i].version = FirstVersion
          /\ r[i].is_last => i - n = Size
          /\ i - n \in 1 .. Size
      BY <1>4, <2>2
    <3>2. r[i].no > 1 => i - 1 \in 1 .. Len(r) /\ i - 1 \notin 1 .. n /\ (i - 1) - n = (i - n) - 1
      BY <1>0, <1>2, <3>1
    <3>3. r[i].no > 1 => IsChunk(r[i - 1]) /\ r[i - 1].file = f /\ r[i - 1].no = (i - 1) - n
      BY <1>4, <3>2
    <3>4. \A j \in 1 .. Len(r) : IsChunk(r[j]) /\ r[j].file = f => j \notin 1 .. n
      BY <1>3, <1>5
    <3>5. ASSUME NEW j \in 1 .. Len(r), IsChunk(r[j]), r[j].file = r[i].file
          PROVE  r[j].no - r[i].no = j - i
      <4>1. r[j].no = j - n
        BY <1>4, <3>1, <3>4, <3>5
      <4> QED
        BY <1>2, <3>1, <4>1
    <3> QED
      BY <3>1, <3>2, <3>3, <3>5
  <2> QED
    BY <2>1, <2>2
<1>7. ChunkFiles(r) = ChunkFiles(q) \cup {f}
  <2>1. ASSUME NEW g \in ChunkFiles(r) PROVE g \in ChunkFiles(q) \cup {f}
    BY <1>3, <1>4 DEF ChunkFiles
  <2>2. ASSUME NEW g \in ChunkFiles(q) PROVE g \in ChunkFiles(r)
    <3>1. PICK i \in 1 .. n : IsChunk(q[i]) /\ q[i].file = g
      BY <2>2 DEF ChunkFiles
    <3>2. i \in 1 .. Len(r) /\ r[i] = q[i]
      BY <1>3
    <3> QED
      BY <3>1, <3>2 DEF ChunkFiles
  <2>3. f \in ChunkFiles(r)
    <3>1. n + 1 \in 1 .. Len(r) /\ n + 1 \notin 1 .. n
      BY <1>0, <1>2
    <3>2. IsChunk(r[n + 1]) /\ r[n + 1].file = f
      BY <1>4, <3>1
    <3> QED
      BY <3>1, <3>2 DEF ChunkFiles
  <2> QED
    BY <2>1, <2>2, <2>3
<1>8. IsChunk(r[1]) /\ r[1].no > 1 => q # <<>> /\ r[1] = q[1]
  <2>1. CASE 1 \in 1 .. n
    BY <1>3, <2>1, EmptySeq
  <2>2. CASE 1 \notin 1 .. n
    <3>1. n = 0 /\ 1 \in 1 .. Len(r)
      BY <1>0, <1>2, <2>2
    <3>2. r[1].no = 1 - n
      BY <1>4, <2>2, <3>1
    <3> QED
      BY <3>1, <3>2
  <2> QED
    BY <2>1, <2>2
<1> QED
  BY <1>6, <1>7, <1>8 DEF r

-----------------------------------------------------------------------------
(* A step of one session leaves what belongs to another one alone.         *)
SameSession(t) ==
    /\ add_pc'[t] = add_pc[t] /\ claim'[t] = claim[t] /\ to_scan'[t] = to_scan[t]
    /\ required_files'[t] = required_files[t] /\ requested_files'[t] = requested_files[t]
    /\ handler_pc'[t] = handler_pc[t] /\ uploaded'[t] = uploaded[t]
    /\ client_pc'[t] = client_pc[t] /\ to_send'[t] = to_send[t]
    /\ up'[t] = up[t] /\ down'[t] = down[t]

StepOf(s) ==
    \/ \E F \in (SUBSET Files) \ {{}} : Register(s, F)
    \/ add_session(s) \/ handle_server_session(s) \/ Pool(s)
    \/ ClientReceive(s) \/ Disconnect(s)

(* Only session s is changed by a step of session s.                       *)
LEMMA OthersSame ==
  ASSUME TypeOK, NEW s \in Sessions, StepOf(s), NEW t \in Sessions, t # s
  PROVE  SameSession(t)
<1>0. /\ DOMAIN add_pc = Sessions /\ DOMAIN claim = Sessions /\ DOMAIN to_scan = Sessions
      /\ DOMAIN required_files = Sessions /\ DOMAIN requested_files = Sessions
      /\ DOMAIN handler_pc = Sessions /\ DOMAIN uploaded = Sessions
      /\ DOMAIN client_pc = Sessions /\ DOMAIN to_send = Sessions
      /\ DOMAIN up = Sessions /\ DOMAIN down = Sessions
  BY DEF TypeOK
<1> USE <1>0 DEF SameSession, Set
<1>1. ASSUME NEW F, Register(s, F) PROVE SameSession(t)
  BY <1>1 DEF Register, handlerVars
<1>2. CASE Preprocess(s)
  BY <1>2 DEF Preprocess, handlerVars, clientVars
<1>3. ASSUME NEW f, ScanRead(s, f) PROVE SameSession(t)
  BY <1>3 DEF ScanRead, handlerVars, clientVars
<1>4. CASE ScanClaim(s)
  BY <1>4 DEF ScanClaim, handlerVars, clientVars
<1>5. CASE Confirm(s)
  BY <1>5 DEF Confirm, Send, clientVars
<1>6. CASE TryAfterAdd(s)
  BY <1>6 DEF TryAfterAdd, handlerVars, clientVars
<1>7. CASE ReceiveChunk(s)
  BY <1>7 DEF ReceiveChunk, handlerVars, addVars, clientVars
<1>8. CASE CheckSize(s) \/ RejectUpload(s) \/ CheckSha(s) \/ AcceptUpload(s) \/ TryAfterUpload(s)
  BY <1>8 DEF CheckSize, RejectUpload, CheckSha, AcceptUpload, TryAfterUpload, Send, addVars,
     clientVars
<1>9. CASE ReceiveAbort(s) \/ RemoveSession(s) \/ ReceiveFails(s)
  BY <1>9 DEF ReceiveAbort, RemoveSession, ReceiveFails, addVars, clientVars
<1>10. CASE Pool(s)
  BY <1>10 DEF Pool, StartJob, DropJob, FinishJob, PublishJob, Send, addVars, handlerVars, clientVars
<1>11. CASE ClientReceive(s)
  BY <1>11 DEF ClientReceive, ClientAwaitsConfirm, ClientHandles, SendNextFile, Conclude, addVars,
     handlerVars
<1>12. CASE Disconnect(s)
  BY <1>12 DEF Disconnect, addVars, handlerVars
<1> QED
  BY <1>1, <1>2, <1>3, <1>4, <1>5, <1>6, <1>7, <1>8, <1>9, <1>10, <1>11, <1>12
  DEF StepOf, add_session, handle_server_session, process_file_chunk

(* ... and its part of the invariant with it, if the files it asked for are*)
(* left alone.                                                             *)
LEMMA OrderFrame ==
  ASSUME NEW t \in Sessions, SameSession(t), ScanOK(t), DialogueOK(t)
  PROVE  ScanOK(t)' /\ DialogueOK(t)'
  BY DEF SameSession, ScanOK, DialogueOK

SameUpload(t) ==
    /\ claim'[t] = claim[t] /\ requested_files'[t] = requested_files[t]
    /\ client_pc'[t] = client_pc[t] /\ to_send'[t] = to_send[t] /\ up'[t] = up[t]
    /\ uploaded'[t] = uploaded[t]
    /\ uploaded[t] # NoFile => handler_pc'[t] = handler_pc[t]

(* The uploads of a session whose files are left alone go on.              *)
LEMMA CalmFrame ==
  ASSUME TypeOK, NEW t \in Sessions, SameUpload(t),
         StatusOK(t), StreamOK(t), UploadedOK(t),
         \A f \in Elems(requested_files[t]) \cup ({claim[t]} \ {NoFile}) :
            file_status'[f] = file_status[f] /\ disk'[f] = disk[f]
  PROVE  StatusOK(t)' /\ StreamOK(t)' /\ UploadedOK(t)'
<1>1. StatusOK(t)'
  BY DEF SameUpload, StatusOK
<1>2. UploadedOK(t)'
  BY DEF SameUpload, UploadedOK
<1>3. StreamOK(t)'
  <2>1. \A f \in Elems(to_send[t]) \cup ChunkFiles(up[t]) : file_status'[f] = "UPLOADING"
    BY DEF StreamOK
  <2>2. ASSUME up[t] # <<>>, IsChunk(up[t][1]), up[t][1].no > 1
        PROVE  disk'[up[t][1].file] = Beginning(up[t][1].no - 1)
    <3>1. up[t][1].file \in ChunkFiles(up[t])
      <4>1. 1 \in 1 .. Len(up[t])
        BY <2>2, EmptySeq DEF TypeOK
      <4> QED
        BY <2>2, <4>1 DEF ChunkFiles
    <3> QED
      BY <2>2, <3>1 DEF StreamOK
  <2> QED
    BY <2>1, <2>2 DEF SameUpload, StreamOK
<1> QED
  BY <1>1, <1>2, <1>3

(* A client that is left alone is still there.                             *)
LEMMA OwnerFrame ==
  ASSUME NEW t \in Sessions, SameSession(t), OwnerOK(t),
         job[t] = "published" => job'[t] = "published"
  PROVE  OwnerOK(t)'
  BY DEF SameSession, OwnerOK

-----------------------------------------------------------------------------
(* The order of the dialogue.                                              *)
LEMMA SeqTypes ==
  ASSUME TypeOK, NEW s \in Sessions
  PROVE  /\ requested_files[s] \in Seq(Files) /\ to_send[s] \in Seq(Files)
         /\ up[s] \in Seq(UpMsg) /\ down[s] \in Seq(ServerMsg)
         /\ NoFile \notin Elems(requested_files[s]) /\ NoFile \notin Elems(to_send[s])
         /\ Elems(requested_files[s]) \subseteq Files
<1>1. /\ requested_files[s] \in Seq(Files) /\ to_send[s] \in Seq(Files)
      /\ up[s] \in Seq(UpMsg) /\ down[s] \in Seq(ServerMsg)
  BY DEF TypeOK, UpMsg
<1>2. \A q \in Seq(Files) : Elems(q) \subseteq Files
  BY ElementOfSeq DEF Elems
<1> QED
  BY <1>1, <1>2, ServerSessionsAssumption

(* What a message adds to the client's stream.                             *)
LEMMA Sent ==
  ASSUME TypeOK, NEW s \in Sessions, NEW msg \in ServerMsg, Send(s, msg)
  PROVE  /\ Elems(down'[s]) \subseteq Elems(down[s]) \cup {msg}
         /\ \A t \in Sessions : t # s => down'[t] = down[t]
<1>1. down[s] \in Seq(ServerMsg) /\ DOMAIN down = Sessions
  BY SeqTypes DEF TypeOK
<1>2. Elems(Append(down[s], msg)) = Elems(down[s]) \cup {msg}
  BY <1>1, AppendElems
<1>3. CASE client_pc[s] = "gone"
  BY <1>3 DEF Send
<1>4. CASE client_pc[s] # "gone"
  BY <1>1, <1>2, <1>4 DEF Send, Set
<1> QED
  BY <1>3, <1>4

(* The messages of the server differ in their kind.                        *)
LEMMA MsgKinds ==
  /\ AbortMsg.kind = "abort" /\ CompleteMsg.kind = "complete"
  /\ \A b : ObjMsg(b).kind = "obj"
  /\ \A files : ConfirmMsg(files).kind = "confirmed" /\ ConfirmMsg(files).files = files
  BY DEF AbortMsg, CompleteMsg, ObjMsg, ConfirmMsg

(* add_session asks for one more file at a time, and forgets none.         *)
LEMMA ScanStep ==
  ASSUME TypeInv, NEW s \in Sessions, ScanOK(s), StepOf(s)
  PROVE  /\ ScanOK(s)'
         /\ Elems(requested_files[s]) \subseteq Elems(requested_files'[s])
         /\ claim[s] \in Elems(requested_files'[s]) \cup {claim'[s], NoFile}
<1>0. /\ TypeOK /\ requested_files[s] \in Seq(Files) /\ NoFile \notin Files
      /\ NoFile \notin Elems(requested_files[s]) /\ DOMAIN requested_files = Sessions
      /\ DOMAIN add_pc = Sessions /\ DOMAIN claim = Sessions /\ DOMAIN to_scan = Sessions
      /\ DOMAIN required_files = Sessions
      /\ required_files[s] \subseteq Files
  BY SeqTypes, ServerSessionsAssumption DEF TypeInv, TypeOK
<1>0a. ASSUME NEW f \in Files
       PROVE  /\ Elems(Append(requested_files[s], f)) = Elems(requested_files[s]) \cup {f}
              /\ Distinct(requested_files[s]) /\ f \notin Elems(requested_files[s]) =>
                    Distinct(Append(requested_files[s], f))
  BY <1>0, AppendElems
<1>1. ASSUME NEW F \in SUBSET Files, Register(s, F)
      PROVE  /\ ScanOK(s)'
             /\ requested_files'[s] = requested_files[s] /\ claim'[s] = claim[s]
  BY <1>0, <1>1, NoElems DEF Register, ScanOK, Set
<1>2. CASE Preprocess(s)
  BY <1>0, <1>2, NoElems DEF Preprocess, ScanOK, Set
<1>3. ASSUME NEW f \in Files, ScanRead(s, f)
      PROVE  /\ ScanOK(s)'
             /\ Elems(requested_files[s]) \subseteq Elems(requested_files'[s])
             /\ claim[s] \in {claim'[s], NoFile}
  <2>0. /\ f \in to_scan[s] /\ add_pc[s] = "scan" /\ claim[s] = NoFile
        /\ f \notin Elems(requested_files[s]) /\ f \in required_files[s]
        /\ to_scan'[s] = to_scan[s] \ {f} /\ required_files' = required_files
    BY <1>0, <1>3 DEF ScanRead, ScanOK, Set
  <2>1. CASE /\ add_pc' = Set(add_pc, s, "claim") /\ claim' = Set(claim, s, f)
             /\ UNCHANGED requested_files
    BY <1>0, <2>0, <2>1 DEF ScanOK, Set
  <2>2. CASE UNCHANGED <<add_pc, claim, requested_files>>
    BY <1>0, <2>0, <2>2 DEF ScanOK
  <2>3. CASE /\ requested_files' = Set(requested_files, s, Append(requested_files[s], f))
             /\ UNCHANGED <<add_pc, claim>>
    <3>1. /\ requested_files'[s] = Append(requested_files[s], f)
          /\ add_pc'[s] = "scan" /\ claim'[s] = NoFile
      BY <1>0, <2>0, <2>3 DEF Set
    <3>2. /\ Elems(requested_files'[s]) = Elems(requested_files[s]) \cup {f}
          /\ Distinct(requested_files'[s])
      BY <1>0a, <2>0, <3>1 DEF ScanOK
    <3> QED
      BY <1>0, <2>0, <3>1, <3>2 DEF ScanOK
  <2> QED
    BY <1>3, <2>1, <2>2, <2>3 DEF ScanRead
<1>4. CASE ScanClaim(s)
  <2>0. /\ add_pc[s] = "claim" /\ claim[s] # NoFile /\ claim[s] \in Files
        /\ claim[s] \notin Elems(requested_files[s])
    BY <1>4 DEF ScanClaim, ScanOK, TypeInv, PointersSet
  <2>1. /\ requested_files'[s] = Append(requested_files[s], claim[s])
        /\ add_pc'[s] = "scan" /\ claim'[s] = NoFile /\ to_scan' = to_scan
        /\ required_files' = required_files
    BY <1>0, <1>4 DEF ScanClaim, Set
  <2>2. /\ Elems(requested_files'[s]) = Elems(requested_files[s]) \cup {claim[s]}
        /\ Distinct(requested_files'[s])
    BY <1>0a, <2>0, <2>1 DEF ScanOK
  <2>3. NoFile \notin to_scan[s]
    BY <1>0 DEF ScanOK
  <2> QED
    BY <1>0, <2>0, <2>1, <2>2, <2>3 DEF ScanOK
<1>5. CASE Confirm(s)
  BY <1>0, <1>5 DEF Confirm, ScanOK, Set
<1>6. CASE TryAfterAdd(s)
  BY <1>0, <1>6 DEF TryAfterAdd, ScanOK, Set
<1>7. CASE UNCHANGED addVars
  BY <1>7 DEF addVars, ScanOK
<1>8. CASE handle_server_session(s) \/ Pool(s) \/ ClientReceive(s) \/ Disconnect(s)
  <2>1. UNCHANGED addVars
    BY <1>8 DEF handle_server_session, process_file_chunk, ReceiveChunk, CheckSize, RejectUpload,
       CheckSha, AcceptUpload, TryAfterUpload, ReceiveAbort, RemoveSession, ReceiveFails, Pool,
       StartJob, DropJob, FinishJob, PublishJob, ClientReceive, Disconnect
  <2> QED
    BY <1>7, <2>1
<1> QED
  BY <1>1, <1>2, <1>3, <1>4, <1>5, <1>6, <1>8 DEF StepOf, add_session

(* The two ends of the session that takes the step stay in order.          *)
LEMMA DialogueStep ==
  ASSUME TypeInv, SessionInv, NEW s \in Sessions, ScanOK(s), DialogueOK(s), StepOf(s)
  PROVE  DialogueOK(s)'
<1>0. /\ TypeOK /\ down[s] \in Seq(ServerMsg) /\ up[s] \in Seq(UpMsg) /\ NoFile \notin Files
      /\ DOMAIN requested_files = Sessions /\ DOMAIN add_pc = Sessions
      /\ DOMAIN handler_pc = Sessions /\ DOMAIN uploaded = Sessions
      /\ DOMAIN client_pc = Sessions /\ DOMAIN to_send = Sessions
      /\ DOMAIN up = Sessions /\ DOMAIN down = Sessions
  BY SeqTypes, ServerSessionsAssumption DEF TypeInv, TypeOK
<1>0a. add_pc[s] \notin {"try", "done"} =>
          handler_pc[s] = "off" /\ \A m \in Elems(down[s]) : m.kind # "confirmed"
  BY DEF SessionInv, AddOrder, DialogueOK
<1>1. ASSUME NEW F, Register(s, F) PROVE DialogueOK(s)'
  BY <1>0, <1>0a, <1>1 DEF Register, DialogueOK, Set, handlerVars
<1>2. CASE Preprocess(s)
  BY <1>0, <1>0a, <1>2 DEF Preprocess, DialogueOK, Set, handlerVars, clientVars
<1>3. ASSUME NEW f, ScanRead(s, f) PROVE DialogueOK(s)'
  <2>1. /\ add_pc[s] = "scan" /\ add_pc'[s] # "none"
        /\ UNCHANGED <<handlerVars, clientVars, up, down>>
    BY <1>0, <1>3 DEF ScanRead, Set
  <2> QED
    BY <1>0a, <2>1 DEF DialogueOK, handlerVars, clientVars
<1>4. CASE ScanClaim(s)
  <2>1. /\ add_pc[s] = "claim" /\ add_pc'[s] # "none"
        /\ UNCHANGED <<handlerVars, clientVars, up, down>>
    BY <1>0, <1>4 DEF ScanClaim, Set
  <2> QED
    BY <1>0a, <2>1 DEF DialogueOK, handlerVars, clientVars
<1>5. CASE Confirm(s)
  <2>1. /\ add_pc[s] = "scan" /\ add_pc'[s] = "try" /\ handler_pc'[s] = "recv"
        /\ UNCHANGED <<requested_files, uploaded, clientVars, up>>
        /\ Send(s, ConfirmMsg(requested_files[s]))
    BY <1>0, <1>5 DEF Confirm, Set
  <2>2. ConfirmMsg(requested_files[s]) \in ServerMsg
    BY <1>0, SeqTypes, ServerMsgs
  <2>3. Elems(down'[s]) \subseteq Elems(down[s]) \cup {ConfirmMsg(requested_files[s])}
    BY <1>0, <2>1, <2>2, Sent
  <2>4. \A m \in Elems(down'[s]) :
           \/ m \in Elems(down[s]) /\ m.kind # "confirmed"
           \/ m.kind = "confirmed" /\ m.files = requested_files[s]
    BY <1>0a, <2>1, <2>3, MsgKinds
  <2> QED
    BY <1>0a, <2>1, <2>4 DEF DialogueOK, clientVars
<1>6. CASE TryAfterAdd(s)
  BY <1>0, <1>6 DEF TryAfterAdd, DialogueOK, Set, handlerVars, clientVars
<1>7. CASE ReceiveChunk(s)
  <2>1. /\ client_pc[s] \notin {"idle", "await"}
        /\ UNCHANGED <<requested_files, add_pc, client_pc, to_send, down>>
    BY <1>7 DEF ReceiveChunk, DialogueOK, addVars, clientVars
  <2>2. Head(up[s]) \in UpMsg /\ Head(up[s]).kind = "chunk"
    BY <1>0, <1>7, HeadTailProperties DEF ReceiveChunk
  <2>3. Head(up[s]).file # NoFile
    BY <1>0, <2>2 DEF UpMsg, Chunk, AbortMsg
  <2>4. handler_pc'[s] \in {"size", "fault", "sha", "accept", "try"} <=> uploaded'[s] # NoFile
    BY <1>0, <1>7, <2>3 DEF ReceiveChunk, DialogueOK, Set, handlerVars
  <2> QED
    BY <2>1, <2>4 DEF DialogueOK
<1>8. CASE CheckSize(s) \/ CheckSha(s) \/ AcceptUpload(s)
  <2>1. /\ uploaded[s] # NoFile /\ UNCHANGED <<addVars, uploaded, clientVars, up, down>>
        /\ handler_pc'[s] \in {"size", "fault", "sha", "accept", "try"}
    BY <1>0, <1>8 DEF CheckSize, CheckSha, AcceptUpload, DialogueOK, Set
  <2> QED
    BY <2>1 DEF DialogueOK, addVars, clientVars
<1>9. CASE RejectUpload(s) \/ TryAfterUpload(s)
  <2>1. /\ uploaded[s] # NoFile /\ uploaded'[s] = NoFile /\ handler_pc'[s] = "recv"
        /\ UNCHANGED <<addVars, clientVars, up>>
        /\ Send(s, AbortMsg) \/ Send(s, CompleteMsg)
    BY <1>0, <1>9 DEF RejectUpload, TryAfterUpload, DialogueOK, Set
  <2>2. client_pc[s] \notin {"idle", "await"}
    BY <2>1 DEF DialogueOK
  <2>3. Elems(down'[s]) \subseteq Elems(down[s]) \cup {AbortMsg, CompleteMsg}
    BY <1>0, <2>1, ServerMsgs, Sent
  <2>4. \A m \in Elems(down'[s]) : m.kind = "confirmed" => m \in Elems(down[s])
    BY <2>3, MsgKinds
  <2> QED
    BY <2>1, <2>2, <2>4 DEF DialogueOK, addVars, clientVars
<1>10. CASE ReceiveAbort(s) \/ RemoveSession(s) \/ ReceiveFails(s)
  <2>1. /\ handler_pc[s] \in {"recv", "remove"} /\ handler_pc'[s] \in {"remove", "ended"}
        /\ UNCHANGED <<addVars, uploaded, clientVars, down>>
        /\ up'[s] = up[s] \/ up[s] # <<>>
    BY <1>0, <1>10 DEF ReceiveAbort, RemoveSession, ReceiveFails, Set
  <2> QED
    BY <2>1 DEF DialogueOK, addVars, clientVars
<1>11. CASE StartJob(s) \/ DropJob(s) \/ FinishJob(s)
  BY <1>11 DEF StartJob, DropJob, FinishJob, DialogueOK, addVars, handlerVars, clientVars
<1>12. CASE PublishJob(s)
  <2>1. PICK b \in BOOLEAN : Send(s, ObjMsg(b))
    BY <1>12, ServerSessionsAssumption DEF PublishJob
  <2>2. UNCHANGED <<addVars, handlerVars, clientVars, up>>
    BY <1>12 DEF PublishJob
  <2>3. Elems(down'[s]) \subseteq Elems(down[s]) \cup {ObjMsg(b)}
    BY <1>0, <2>1, ServerMsgs, Sent
  <2>4. \A m \in Elems(down'[s]) : m.kind \in {"confirmed", "complete"} => m \in Elems(down[s])
    BY <2>3, MsgKinds
  <2> QED
    BY <2>2, <2>4 DEF DialogueOK, addVars, handlerVars, clientVars
<1>13. CASE ClientReceive(s)
  <2>1. /\ client_pc[s] \in {"await", "active"}
        /\ client_pc'[s] \in {"active", "remote", "local"}
    BY <1>0, <1>13 DEF ClientReceive, ClientAwaitsConfirm, ClientHandles, Conclude, Set
  <2>2. UNCHANGED <<addVars, handlerVars>> /\ down'[s] = Tail(down[s]) /\ down[s] # <<>>
    BY <1>0, <1>13 DEF ClientReceive, Set
  <2>3. Elems(down'[s]) \subseteq Elems(down[s])
    BY <1>0, <2>2, TailElems
  <2> QED
    BY <2>1, <2>2, <2>3 DEF DialogueOK, addVars, handlerVars
<1>14. CASE Disconnect(s)
  <2>1. /\ client_pc[s] \in {"await", "active"} /\ client_pc'[s] = "gone"
        /\ UNCHANGED <<addVars, handlerVars>> /\ down'[s] = <<>>
    BY <1>0, <1>14 DEF Disconnect, Set
  <2> QED
    BY <2>1, NoElems DEF DialogueOK, addVars, handlerVars
<1> QED
  BY <1>1, <1>2, <1>3, <1>4, <1>5, <1>6, <1>7, <1>8, <1>9, <1>10, <1>11, <1>12, <1>13, <1>14
  DEF StepOf, add_session, handle_server_session, process_file_chunk, Pool

(* The order is kept by every step, and what a session asked for stays so. *)
LEMMA OrderStep ==
  ASSUME TypeInv, SessionInv, OrderInv, [Next]_vars
  PROVE  /\ OrderInv'
         /\ \A s \in Sessions :
               /\ Elems(requested_files[s]) \subseteq Elems(requested_files'[s])
               /\ claim[s] \in Elems(requested_files'[s]) \cup {claim'[s], NoFile}
<1>0. TypeOK
  BY DEF TypeInv
<1>1. compiler_running' \subseteq args_ready'
  <2>0. compiler_running \subseteq args_ready
    BY DEF OrderInv
  <2>1. CASE try_compile_for_active_sessions /\ UNCHANGED args_ready
    BY <2>0, <2>1 DEF try_compile_for_active_sessions, ReadyToCompile
  <2>2. CASE UNCHANGED compiler_running /\ args_ready \subseteq args_ready'
    BY <2>0, <2>2
  <2> QED
    BY <2>1, <2>2, ZenonT(60) DEF Next, Register, add_session, handle_server_session, process_file_chunk, Pool,
       Preprocess, ScanRead, ScanClaim, Confirm, TryAfterAdd, ReceiveChunk, CheckSize, RejectUpload,
       CheckSha, AcceptUpload, TryAfterUpload, ReceiveAbort, RemoveSession, ReceiveFails, StartJob,
       DropJob, FinishJob, PublishJob, ClientReceive, ClientEdits, Disconnect, vars, addVars,
       poolVars
<1>2. ASSUME NEW s \in Sessions, StepOf(s), NEW t \in Sessions
      PROVE  /\ ScanOK(t)' /\ DialogueOK(t)'
             /\ Elems(requested_files[t]) \subseteq Elems(requested_files'[t])
             /\ claim[t] \in Elems(requested_files'[t]) \cup {claim'[t], NoFile}
  <2>0. ScanOK(t) /\ DialogueOK(t)
    BY DEF OrderInv
  <2>1. CASE t = s
    BY <1>2, <2>0, <2>1, ScanStep, DialogueStep
  <2>2. CASE t # s
    <3>1. SameSession(t)
      BY <1>0, <1>2, <2>2, OthersSame
    <3> QED
      BY <2>0, <3>1, OrderFrame DEF SameSession
  <2> QED
    BY <2>1, <2>2
<1>3. ASSUME NEW t \in Sessions, UNCHANGED <<addVars, handlerVars, client_pc, to_send, up, down>>
      PROVE  /\ ScanOK(t)' /\ DialogueOK(t)'
             /\ requested_files'[t] = requested_files[t] /\ claim'[t] = claim[t]
  BY <1>3, OrderFrame DEF SameSession, OrderInv, addVars, handlerVars
<1>4. (\E s \in Sessions : StepOf(s)) \/ UNCHANGED <<addVars, handlerVars, client_pc, to_send, up, down>>
  BY DEF Next, StepOf, ClientEdits, vars, clientVars
<1> QED
  BY <1>1, <1>2, <1>3, <1>4 DEF OrderInv

-----------------------------------------------------------------------------
(* A state without races comes from one without races.                     *)
LEMMA AskedIs ==
  ASSUME TypeOK, NEW s \in Sessions
  PROVE  Asked(s) = Elems(requested_files[s]) \cup ({claim[s]} \ {NoFile})
<1>1. DOMAIN requested_files[s] = 1 .. Len(requested_files[s])
  BY LenProperties DEF TypeOK
<1> QED
  BY <1>1 DEF Asked, Elems

(* The same after a step.                                                  *)
LEMMA AskedIsNext ==
  ASSUME TypeOK', NEW s \in Sessions
  PROVE  Asked(s)' = Elems(requested_files'[s]) \cup ({claim'[s]} \ {NoFile})
<1>1. DOMAIN requested_files'[s] = 1 .. Len(requested_files'[s])
  BY LenProperties DEF TypeOK
<1> QED
  BY <1>1 DEF Asked, Elems

(* A race or an edit is not undone.                                        *)
LEMMA CalmBefore ==
  ASSUME TypeInv, SessionInv, OrderInv, [Next]_vars, Calm'
  PROVE  /\ Calm /\ UNCHANGED <<edits, client_version>>
         /\ disconnects' = 0 => UNCHANGED disconnects
<1>0. TypeOK /\ TypeOK'
  BY TypeStep DEF TypeInv
<1>1. \A s \in Sessions : Asked(s) \subseteq Asked(s)'
  <2> SUFFICES ASSUME NEW s \in Sessions PROVE Asked(s) \subseteq Asked(s)'
    OBVIOUS
  <2>1. /\ Elems(requested_files[s]) \subseteq Elems(requested_files'[s])
        /\ claim[s] \in Elems(requested_files'[s]) \cup {claim'[s], NoFile}
    BY OrderStep
  <2> QED
    BY <1>0, <2>1, AskedIs, AskedIsNext
<1>2. NoDoubleUpload
  BY <1>1 DEF Calm, NoDoubleUpload
<1>3. edits \in Nat /\ disconnects \in Nat
  BY <1>0, ServerSessionsAssumption DEF TypeOK
<1>4. /\ UNCHANGED <<edits, client_version>> \/ edits' = edits + 1
      /\ UNCHANGED disconnects \/ disconnects' = disconnects + 1
  BY ZenonT(60) DEF Next, Register, add_session, handle_server_session, process_file_chunk, Pool,
     Preprocess, ScanRead, ScanClaim, Confirm, TryAfterAdd, ReceiveChunk, CheckSize, RejectUpload,
     CheckSha, AcceptUpload, TryAfterUpload, ReceiveAbort, RemoveSession, ReceiveFails, StartJob,
     DropJob, FinishJob, PublishJob, ClientReceive, ClientEdits, Disconnect, vars, clientVars
<1> QED
  BY <1>2, <1>3, <1>4 DEF Calm

(* Without races a file is asked for by one session only.                  *)
LEMMA SoleOwner ==
  ASSUME TypeOK, Calm, NEW s \in Sessions, NEW t \in Sessions, s # t, NEW f \in Files,
         f \in Elems(requested_files[s]) \cup {claim[s]}
  PROVE  f \notin Elems(requested_files[t]) \cup {claim[t]}
  BY AskedIs, ServerSessionsAssumption DEF Calm, NoDoubleUpload

(* Without edits all contents are the first version, whoever compares them.*)
LEMMA VersionStep ==
  ASSUME TypeOK, OneVersion, [Next]_vars, UNCHANGED client_version
  PROVE  OneVersion'
<1>1. ASSUME NEW s \in Sessions, NEW F \in SUBSET Files, Register(s, F) PROVE OneVersion'
  BY <1>1 DEF Register, OneVersion, TypeOK, Set
<1>2. CASE UNCHANGED <<file_version, declared>>
  BY <1>2 DEF OneVersion
<1> QED
  BY <1>1, <1>2, ZenonT(60)
  DEF Next, add_session, handle_server_session, process_file_chunk, Pool,
     Preprocess, ScanRead, ScanClaim, Confirm, TryAfterAdd, ReceiveChunk, CheckSize, RejectUpload,
     CheckSha, AcceptUpload, TryAfterUpload, ReceiveAbort, RemoveSession, ReceiveFails, StartJob,
     DropJob, FinishJob, PublishJob, ClientReceive, ClientEdits, Disconnect, vars, viewVars, addVars

(* A step that leaves the files alone leaves the other sessions alone; so  *)
(* does one that touches a file the session asked for, which no other one  *)
(* did, and no session that was submitted needs.                           *)
LEMMA TouchNone ==
  ASSUME TypeOK, CalmInv, NEW s \in Sessions, StepOf(s), UNCHANGED <<file_status, disk>>
  PROVE  /\ FilesOK'
         /\ \A t \in Sessions : t # s => StatusOK(t)' /\ StreamOK(t)' /\ UploadedOK(t)'
         /\ SameUpload(s) => StatusOK(s)' /\ StreamOK(s)' /\ UploadedOK(s)'
         /\ UNCHANGED <<compiler_running, output, required_files>> =>
               \A t \in Sessions : CompiledOK(t)'
<1>1. FilesOK'
  BY DEF CalmInv, FilesOK
<1>2. ASSUME NEW t \in Sessions, SameUpload(t) PROVE StatusOK(t)' /\ StreamOK(t)' /\ UploadedOK(t)'
  BY <1>2, CalmFrame DEF CalmInv
<1>3. \A t \in Sessions : t # s => SameUpload(t)
  BY OthersSame DEF SameSession, SameUpload
<1>4. ASSUME UNCHANGED <<compiler_running, output, required_files>>, NEW t \in Sessions
      PROVE  CompiledOK(t)'
  BY <1>4 DEF CompiledOK, CalmInv
<1> QED
  BY <1>1, <1>2, <1>3, <1>4

LEMMA TouchOne ==
  ASSUME TypeOK, Calm, CalmInv, NEW s \in Sessions, StepOf(s),
         NEW f \in Files, f \in Elems(requested_files[s]) \cup {claim[s]},
         file_status[f] # "AVAILABLE",
         \A g \in Files : g # f => file_status'[g] = file_status[g] /\ disk'[g] = disk[g],
         file_status'[f] # "FAULT", file_status'[f] = "AVAILABLE" => disk'[f] = Beginning(Size),
         UNCHANGED <<compiler_running, output, required_files>>
  PROVE  /\ FilesOK'
         /\ \A t \in Sessions : t # s => StatusOK(t)' /\ StreamOK(t)' /\ UploadedOK(t)'
         /\ \A t \in Sessions : CompiledOK(t)'
<1>1. FilesOK'
  BY DEF CalmInv, FilesOK
<1>2. ASSUME NEW t \in Sessions, t # s PROVE StatusOK(t)' /\ StreamOK(t)' /\ UploadedOK(t)'
  <2>1. SameUpload(t)
    BY <1>2, OthersSame DEF SameSession, SameUpload
  <2>2. f \notin Elems(requested_files[t]) \cup {claim[t]}
    BY <1>2, SoleOwner
  <2>3. \A g \in Elems(requested_files[t]) \cup ({claim[t]} \ {NoFile}) : g \in Files
    BY SeqTypes DEF TypeOK
  <2>4. \A g \in Elems(requested_files[t]) \cup ({claim[t]} \ {NoFile}) :
           file_status'[g] = file_status[g] /\ disk'[g] = disk[g]
    BY <2>2, <2>3
  <2> QED
    BY <2>1, <2>4, CalmFrame DEF CalmInv
<1>3. ASSUME NEW t \in Sessions PROVE CompiledOK(t)'
  <2>1. required_files[t] \subseteq Files
    BY DEF TypeOK
  <2> QED
    BY <2>1 DEF CompiledOK, CalmInv
<1> QED
  BY <1>1, <1>2, <1>3

-----------------------------------------------------------------------------
(* Uploads, as long as there is no race.                                   *)

(* Writing the next chunk makes a longer beginning of the file.            *)
LEMMA WriteNext ==
  ASSUME NEW n \in Nat \ {0}, NEW contents, n > 1 => contents = Beginning(n - 1)
  PROVE  (IF n = 1 THEN <<FirstVersion>> ELSE WriteAt(contents, n, FirstVersion)) = Beginning(n)
<1>1. CASE n = 1
  <2>1. <<FirstVersion>> = [k \in 1 .. 1 |-> FirstVersion]
    OBVIOUS
  <2> QED
    BY <1>1, <2>1 DEF Beginning
<1>2. CASE n > 1
  <2>1. Len(contents) = n - 1 /\ \A i \in 1 .. n - 1 : contents[i] = FirstVersion
    BY <1>2 DEF Beginning
  <2>2. WriteAt(contents, n, FirstVersion) =
           [i \in 1 .. n |-> IF i = n THEN FirstVersion
                             ELSE IF i <= n - 1 THEN contents[i] ELSE Hole]
    BY <2>1 DEF WriteAt
  <2>3. \A i \in 1 .. n : (IF i = n THEN FirstVersion
                           ELSE IF i <= n - 1 THEN contents[i] ELSE Hole) = FirstVersion
    BY <2>1
  <2> QED
    BY <1>2, <2>2, <2>3 DEF Beginning
<1> QED
  BY <1>1, <1>2

(* The whole file is its longest beginning.                                *)
LEMMA ContentsIs == Contents(FirstVersion) = Beginning(Size) /\ Len(Beginning(Size)) = Size
<1>1. Size \in Nat
  BY ServerSessionsAssumption DEF Size
<1> QED
  BY <1>1 DEF Contents, Beginning, Size

(* The client sends the next of the files that are left.                   *)
LEMMA NextFile ==
  ASSUME TypeOK, OneVersion, NEW s \in Sessions, NEW files \in Seq(Files), SendNextFile(s, files),
         UNCHANGED <<file_status, disk, requested_files, uploaded>>,
         StreamOK(s), Distinct(files), Elems(files) \cap ChunkFiles(up[s]) = {},
         uploaded[s] \notin Elems(files),
         \A f \in Elems(files) : f \in Elems(requested_files[s]) /\ file_status[f] = "UPLOADING"
  PROVE  /\ StreamOK(s)'
 <1>0. /\ up[s] \in Seq(UpMsg) /\ DOMAIN up = Sessions /\ DOMAIN to_send = Sessions
      /\ Consecutive(up[s])
  BY SeqTypes DEF TypeOK, StreamOK
<1>1. CASE files = <<>>
  <2>1. to_send'[s] = <<>> /\ up' = up
    BY <1>0, <1>1 DEF SendNextFile, Set
  <2> QED
    BY <2>1, NoElems DEF StreamOK
<1>2. CASE files # <<>>
  <2> DEFINE f == Head(files)
  <2>1. to_send'[s] = Tail(files) /\ up'[s] = up[s] \o FileChunks(f)
    BY <1>0, <1>2 DEF SendNextFile, Set
  <2>2. /\ f \in Files /\ f \in Elems(files) /\ Elems(Tail(files)) \subseteq Elems(files)
        /\ Distinct(Tail(files)) /\ f \notin Elems(Tail(files))
    BY <1>2, TailElems
  <2>3. client_version[f] = FirstVersion /\ f \notin ChunkFiles(up[s])
    BY <2>2 DEF OneVersion
  <2>4. /\ Consecutive(up'[s])
        /\ ChunkFiles(up'[s]) = ChunkFiles(up[s]) \cup {f}
        /\ IsChunk(up'[s][1]) /\ up'[s][1].no > 1 => up[s] # <<>> /\ up'[s][1] = up[s][1]
    BY <1>0, <2>1, <2>2, <2>3, StreamFile, ZenonT(60)
  <2> HIDE DEF f
  <2> QED
    BY <2>1, <2>2, <2>4 DEF StreamOK
<1> QED
  BY <1>1, <1>2

(* ... and the abort that ends the session.                                *)
LEMMA ConcludeStream ==
  ASSUME TypeOK, NEW s \in Sessions, NEW how, Conclude(s, how), StreamOK(s),
         UNCHANGED <<file_status, disk, requested_files, uploaded>>
  PROVE  StreamOK(s)' /\ client_pc'[s] = how
<1>0. up[s] \in Seq(UpMsg) /\ up'[s] = Append(up[s], AbortMsg) /\ to_send' = to_send
      /\ client_pc'[s] = how
  BY SeqTypes DEF TypeOK, Conclude, Set
<1>1. /\ Consecutive(up'[s]) /\ ChunkFiles(up'[s]) = ChunkFiles(up[s])
      /\ IsChunk(up'[s][1]) => up[s] # <<>> /\ up'[s][1] = up[s][1]
  BY <1>0, StreamAbort DEF StreamOK
<1> QED
  BY <1>0, <1>1 DEF StreamOK

(* The sweep submits sessions that have all their files.                   *)
LEMMA SweepCompiled ==
  ASSUME CalmInv, try_compile_for_active_sessions,
         UNCHANGED <<file_status, required_files, output>>, NEW t \in Sessions
  PROVE  CompiledOK(t)'
  BY DEF CalmInv, CompiledOK, try_compile_for_active_sessions, ReadyToCompile

(* Registration and scan.                                                  *)
LEMMA AddCalm ==
  ASSUME TypeInv, SessionInv, OrderInv, Calm, CalmInv, NEW s \in Sessions, StepOf(s),
         add_session(s) \/ \E F \in SUBSET Files : Register(s, F)
  PROVE  /\ FilesOK'
         /\ \A t \in Sessions : StatusOK(t)' /\ StreamOK(t)' /\ UploadedOK(t)' /\ CompiledOK(t)'
<1>0. /\ TypeOK /\ ScanOK(s) /\ DialogueOK(s) /\ StatusOK(s) /\ StreamOK(s) /\ UploadedOK(s)
      /\ FilesOK /\ requested_files[s] \in Seq(Files) /\ NoFile \notin Files
      /\ Elems(requested_files[s]) \subseteq Files
      /\ add_pc[s] \notin {"try", "done"} => handler_pc[s] = "off" /\ uploaded[s] = NoFile
  BY SeqTypes, ServerSessionsAssumption DEF TypeInv, OrderInv, CalmInv, SessionInv, AddOrder, DialogueOK
<1>1. ASSUME NEW F \in SUBSET Files, Register(s, F), NEW t \in Sessions
      PROVE  FilesOK' /\ StatusOK(t)' /\ StreamOK(t)' /\ UploadedOK(t)' /\ CompiledOK(t)'
  <2>1. /\ \A f \in Files : file_status[f] # "ABSENT" => file_status'[f] = file_status[f]
        /\ \A f \in Files : file_status[f] = "ABSENT" => file_status'[f] \in {"ABSENT", "INITIAL"}
        /\ UNCHANGED <<disk, claim, requested_files, handlerVars, poolVars, to_send, up>>
    BY <1>1 DEF Register
  <2>2. FilesOK'
    BY <1>0, <2>1 DEF FilesOK
  <2>3. CompiledOK(t)'
    <3>1. s \notin compiler_running
      BY <1>1 DEF Register, OrderInv, SessionInv, AddOrder
    <3>2. t \in compiler_running =>
             required_files'[t] = required_files[t] /\ required_files[t] \subseteq Files
      BY <1>0, <1>1, <3>1 DEF Register, Set, TypeOK
    <3> QED
      BY <2>1, <3>2 DEF CalmInv, CompiledOK, poolVars
  <2>4. CASE t = s
    <3>1. /\ requested_files[s] = <<>> /\ claim[s] = NoFile /\ to_send[s] = <<>> /\ up[s] = <<>>
          /\ uploaded[s] = NoFile
      BY <1>0, <1>1 DEF Register, ScanOK, DialogueOK
    <3> QED
      BY <2>1, <2>2, <2>3, <2>4, <3>1, NoElems DEF StatusOK, StreamOK, UploadedOK, handlerVars
  <2>5. CASE t # s
    <3>1. SameUpload(t)
      BY <1>0, <2>5, OthersSame DEF SameSession, SameUpload
    <3>2. \A f \in Elems(requested_files[t]) \cup ({claim[t]} \ {NoFile}) :
             f \in Files /\ file_status[f] # "ABSENT"
      <4>1. StatusOK(t) /\ claim[t] \in Files \cup {NoFile} /\ Elems(requested_files[t]) \subseteq Files
        BY <1>0, SeqTypes DEF CalmInv, TypeOK
      <4> QED
        BY <4>1 DEF StatusOK
    <3> QED
      BY <1>0, <2>1, <2>2, <2>3, <3>1, <3>2, CalmFrame DEF CalmInv
  <2> QED
    BY <2>4, <2>5, <2>2, <2>3
<1>2. CASE Preprocess(s)
  <2>1. /\ UNCHANGED <<file_status, disk, compiler_running, output, required_files>>
        /\ SameUpload(s)
    BY <1>2 DEF Preprocess, viewVars, poolVars, handlerVars, clientVars, SameUpload
  <2> QED
    BY <1>0, <2>1, TouchNone
<1>3. ASSUME NEW f \in Files, ScanRead(s, f), NEW t \in Sessions
      PROVE  FilesOK' /\ StatusOK(t)' /\ StreamOK(t)' /\ UploadedOK(t)' /\ CompiledOK(t)'
  <2>1. UNCHANGED <<file_status, disk, compiler_running, output, required_files>>
    BY <1>3 DEF ScanRead, viewVars, poolVars
  <2>2. CASE UNCHANGED <<add_pc, claim, requested_files>>
    <3>1. SameUpload(s)
      BY <1>3, <2>2 DEF ScanRead, handlerVars, clientVars, SameUpload
    <3> QED
      BY <1>0, <2>1, <3>1, TouchNone
  <2>3. CASE file_status[f] = "INITIAL" /\ claim' = Set(claim, s, f) /\ UNCHANGED requested_files
    <3>1. claim'[s] = f
      BY <1>0, <2>3 DEF TypeOK, Set
    <3>2. UNCHANGED <<handlerVars, clientVars, up, requested_files>>
      BY <1>3, <2>3 DEF ScanRead
    <3>3. StatusOK(s)' /\ StreamOK(s)' /\ UploadedOK(s)'
      BY <1>0, <2>1, <2>3, <3>1, <3>2 DEF StatusOK, StreamOK, UploadedOK, handlerVars, clientVars
    <3> QED
      BY <1>0, <2>1, <3>3, TouchNone
  <2> QED
    BY <1>0, <1>3, <2>2, <2>3 DEF ScanRead, FilesOK
<1>4. CASE ScanClaim(s)
  <2> DEFINE f == claim[s]
  <2>0. f \in Files /\ file_status[f] = "INITIAL" /\ f \notin Elems(requested_files[s])
    BY <1>0, <1>4 DEF ScanClaim, TypeInv, PointersSet, ScanOK, StatusOK
  <2>1. /\ file_status'[f] = "UPLOADING" /\ \A g \in Files : g # f => file_status'[g] = file_status[g]
        /\ UNCHANGED <<disk, required_files, handlerVars, poolVars, clientVars, up>>
        /\ claim'[s] = NoFile
        /\ requested_files'[s] = Append(requested_files[s], f)
    BY <1>0, <1>4, <2>0 DEF ScanClaim, update_file_state, Set, TypeOK
  <2>2. Elems(requested_files'[s]) = Elems(requested_files[s]) \cup {f}
    BY <1>0, <2>0, <2>1, AppendElems
  <2>3. /\ FilesOK'
        /\ \A t \in Sessions : t # s => StatusOK(t)' /\ StreamOK(t)' /\ UploadedOK(t)'
        /\ \A t \in Sessions : CompiledOK(t)'
    BY <1>0, <2>0, <2>1, TouchOne DEF poolVars
  <2> HIDE DEF f
  <2>4. StatusOK(s)'
    BY <1>0, <2>0, <2>1, <2>2 DEF StatusOK, clientVars
  <2>5. StreamOK(s)'
    BY <1>0, <2>0, <2>1, <2>2 DEF StreamOK, clientVars, handlerVars
  <2>6. UploadedOK(s)'
    BY <1>0, <2>1, <1>4 DEF ScanClaim, UploadedOK, handlerVars
  <2> QED
    BY <2>3, <2>4, <2>5, <2>6
<1>5. CASE Confirm(s)
  <2>1. /\ UNCHANGED <<file_status, disk, compiler_running, output, required_files>>
        /\ SameUpload(s)
    BY <1>0, <1>5 DEF Confirm, viewVars, poolVars, clientVars, SameUpload
  <2> QED
    BY <1>0, <2>1, TouchNone
<1>6. CASE TryAfterAdd(s)
  <2>1. /\ UNCHANGED <<file_status, disk, output, required_files>>
        /\ SameUpload(s) /\ try_compile_for_active_sessions
    BY <1>6 DEF TryAfterAdd, viewVars, handlerVars, clientVars, SameUpload
  <2> QED
    BY <1>0, <2>1, TouchNone, SweepCompiled
<1> QED
  BY <1>1, <1>2, <1>3, <1>4, <1>5, <1>6 DEF add_session

(* The receiving coroutine: chunks are written in order, checks succeed.   *)
LEMMA HandlerCalm ==
  ASSUME TypeInv, SessionInv, OrderInv, Calm, CalmInv, NEW s \in Sessions, StepOf(s),
         handle_server_session(s)
  PROVE  /\ FilesOK'
         /\ \A t \in Sessions : StatusOK(t)' /\ StreamOK(t)' /\ UploadedOK(t)' /\ CompiledOK(t)'
<1>0. /\ TypeOK /\ ScanOK(s) /\ DialogueOK(s) /\ StatusOK(s) /\ StreamOK(s) /\ UploadedOK(s)
      /\ FilesOK /\ OneVersion /\ up[s] \in Seq(UpMsg) /\ NoFile \notin Files
      /\ Elems(requested_files[s]) \subseteq Files
      /\ handler_pc[s] \in {"recv", "remove"} => uploaded[s] = NoFile
  BY SeqTypes, ServerSessionsAssumption DEF TypeInv, OrderInv, CalmInv, DialogueOK
<1>1. CASE ReceiveChunk(s)
  <2> DEFINE c == up[s][1]
  <2>1. /\ Head(up[s]) = c /\ c \in UpMsg /\ IsChunk(c) /\ up[s] # <<>> /\ up'[s] = Tail(up[s])
        /\ uploaded[s] = NoFile
        /\ UNCHANGED <<viewVars, addVars, poolVars, clientVars, down>>
    BY <1>0, <1>1, TailElems DEF ReceiveChunk, IsChunk, Set, TypeOK
  <2>2. /\ Consecutive(up'[s]) /\ ChunkFiles(up'[s]) \subseteq ChunkFiles(up[s])
        /\ c.file \in ChunkFiles(up[s])
        /\ c.is_last => c.file \notin ChunkFiles(up'[s])
        /\ up'[s] # <<>> /\ IsChunk(up'[s][1]) /\ up'[s][1].no > 1 =>
              c.file = up'[s][1].file /\ c.no = up'[s][1].no - 1
    BY <1>0, <2>1, StreamTail DEF StreamOK
  <2>3. /\ c.version = FirstVersion /\ c.no \in 1 .. Size /\ c.no \in Nat \ {0}
        /\ c.is_last => c.no = Size
    <3>1. 1 \in 1 .. Len(up[s]) /\ Size \in Nat
      BY <1>0, <2>1, TailElems, ServerSessionsAssumption DEF Size
    <3> QED
      BY <1>0, <2>1, <3>1 DEF StreamOK, Consecutive
  <2>4. /\ c.file \in Elems(requested_files[s]) /\ c.file \in Files
        /\ file_status[c.file] = "UPLOADING" /\ c.file \notin Elems(to_send[s])
    BY <1>0, <2>2 DEF StreamOK
  <2>5. /\ disk'[c.file] = Beginning(c.no)
        /\ \A g \in Files : g # c.file => disk'[g] = disk[g]
    <3>1. disk' = Set(disk, c.file, IF c.no = 1 THEN <<FirstVersion>>
                                    ELSE WriteAt(disk[c.file], c.no, FirstVersion))
      BY <1>1, <2>1, <2>3 DEF ReceiveChunk
    <3>2. c.no > 1 => disk[c.file] = Beginning(c.no - 1)
      BY <1>0, <2>1 DEF StreamOK
    <3>3. (IF c.no = 1 THEN <<FirstVersion>> ELSE WriteAt(disk[c.file], c.no, FirstVersion))
             = Beginning(c.no)
      BY <2>3, <3>2, WriteNext
    <3> QED
      BY <1>0, <2>4, <3>1, <3>3 DEF Set, TypeOK
  <2>6. /\ FilesOK'
        /\ \A t \in Sessions : t # s => StatusOK(t)' /\ StreamOK(t)' /\ UploadedOK(t)'
        /\ \A t \in Sessions : CompiledOK(t)'
    <3>1. /\ file_status' = file_status /\ UNCHANGED <<compiler_running, output, required_files>>
      BY <2>1 DEF viewVars, poolVars, addVars
    <3> QED
      BY <1>0, <2>4, <2>5, <3>1, TouchOne
  <2>7. StatusOK(s)'
    BY <1>0, <2>1 DEF StatusOK, viewVars, addVars, clientVars
  <2>8. uploaded'[s] = IF c.is_last THEN c.file ELSE NoFile
    BY <1>0, <1>1, <2>1 DEF ReceiveChunk, Set, handlerVars, TypeOK
  <2>9. c.is_last => handler_pc'[s] = "size"
    BY <1>0, <1>1, <2>1 DEF ReceiveChunk, Set, TypeOK
  <2>10. UNCHANGED <<file_status, requested_files, to_send>>
    BY <2>1 DEF viewVars, addVars, clientVars
  <2> HIDE DEF c
  <2>11. StreamOK(s)'
    <3>1. NoFile \notin Elems(to_send[s]) /\ NoFile \notin ChunkFiles(up'[s])
      BY <1>0, <2>2 DEF StreamOK
    <3>2. \A f \in ChunkFiles(up'[s]) : f \in ChunkFiles(up[s])
      BY <2>2
    <3>3. up'[s] # <<>> /\ IsChunk(up'[s][1]) /\ up'[s][1].no > 1 =>
             disk'[up'[s][1].file] = Beginning(up'[s][1].no - 1)
      BY <2>2, <2>5
    <3> QED
      BY <1>0, <2>2, <2>4, <2>8, <2>10, <3>1, <3>2, <3>3 DEF StreamOK
  <2>12. UploadedOK(s)'
    BY <2>3, <2>4, <2>5, <2>8, <2>9, <2>10 DEF UploadedOK
  <2> QED
    BY <2>6, <2>7, <2>11, <2>12
<1>2. CASE CheckSize(s) \/ CheckSha(s)
  <2> DEFINE f == uploaded[s]
  <2>0. f \in Files /\ f # NoFile /\ disk[f] = Beginning(Size) /\ file_version[f] = FirstVersion
    BY <1>0, <1>2 DEF CheckSize, CheckSha, TypeInv, PointersSet, UploadedOK, OneVersion
  <2>1. Len(disk[f]) = Chunks[file_version[f]] /\ disk[f] = Contents(file_version[f])
    BY <2>0, ContentsIs DEF Size
  <2>2. /\ UNCHANGED <<file_status, disk, uploaded, addVars, poolVars, clientVars, up>>
        /\ handler_pc'[s] \in {"sha", "accept"} /\ handler_pc[s] \in {"size", "sha"}
    BY <1>0, <1>2, <2>1 DEF CheckSize, CheckSha, viewVars, Set, TypeOK
  <2>3. StatusOK(s)' /\ StreamOK(s)' /\ UploadedOK(s)'
    <3>1. UNCHANGED <<claim, requested_files, to_send, client_pc>>
      BY <2>2 DEF addVars, clientVars
    <3> QED
      BY <1>0, <2>2, <3>1 DEF StatusOK, StreamOK, UploadedOK
  <2> QED
    BY <1>0, <2>2, <2>3, TouchNone DEF poolVars, addVars
<1>3. CASE RejectUpload(s)
  BY <1>0, <1>3 DEF RejectUpload, TypeInv, PointersSet, UploadedOK
<1>4. CASE AcceptUpload(s)
  <2> DEFINE f == uploaded[s]
  <2>0. /\ f \in Files /\ f # NoFile /\ disk[f] = Beginning(Size) /\ file_status[f] = "UPLOADING"
        /\ f \in Elems(requested_files[s])
    BY <1>0, <1>4 DEF AcceptUpload, TypeInv, PointersSet, UploadedOK
  <2>1. /\ file_status'[f] = "AVAILABLE" /\ \A g \in Files : g # f => file_status'[g] = file_status[g]
        /\ UNCHANGED <<disk, uploaded, addVars, poolVars, clientVars, up>>
        /\ handler_pc'[s] = "try"
    BY <1>0, <1>4, <2>0 DEF AcceptUpload, update_file_state, Set, TypeOK
  <2>2. /\ FilesOK'
        /\ \A t \in Sessions : t # s => StatusOK(t)' /\ StreamOK(t)' /\ UploadedOK(t)'
        /\ \A t \in Sessions : CompiledOK(t)'
    <3>1. UNCHANGED <<compiler_running, output, required_files>>
      BY <2>1 DEF poolVars, addVars
    <3> QED
      BY <1>0, <2>0, <2>1, <3>1, TouchOne
  <2>3. UNCHANGED <<claim, requested_files, to_send, client_pc>>
    BY <2>1 DEF addVars, clientVars
  <2>4. client_pc[s] \notin {"idle", "await"}
    BY <1>0, <2>0 DEF DialogueOK
  <2>5. f \notin Elems(to_send[s]) \cup ChunkFiles(up[s]) /\ claim[s] # f
    BY <1>0, <2>0 DEF StreamOK, ScanOK
  <2>6. claim[s] \in Files \cup {NoFile}
    BY <1>0 DEF TypeOK
  <2> HIDE DEF f
  <2>7. StatusOK(s)'
    BY <1>0, <2>0, <2>1, <2>3, <2>4, <2>5, <2>6 DEF StatusOK
  <2>8. StreamOK(s)'
    BY <1>0, <2>0, <2>1, <2>3, <2>5 DEF StreamOK
  <2>9. UploadedOK(s)'
    BY <1>0, <2>0, <2>1, <2>3 DEF UploadedOK, f
  <2> QED
    BY <2>2, <2>7, <2>8, <2>9
<1>5. CASE TryAfterUpload(s)
  <2>1. /\ UNCHANGED <<file_status, disk, output, required_files, claim, requested_files, to_send,
                       client_pc, up>>
        /\ uploaded'[s] = NoFile /\ try_compile_for_active_sessions
    BY <1>0, <1>5 DEF TryAfterUpload, viewVars, addVars, clientVars, Set, TypeOK
  <2>2. StatusOK(s)' /\ StreamOK(s)' /\ UploadedOK(s)'
    BY <1>0, <2>1 DEF StatusOK, StreamOK, UploadedOK
  <2> QED
    BY <1>0, <2>1, <2>2, TouchNone, SweepCompiled
<1>6. CASE ReceiveAbort(s)
  <2>1. /\ UNCHANGED <<file_status, disk, compiler_running, output, required_files, claim,
                       requested_files, to_send, client_pc, uploaded>>
        /\ uploaded[s] = NoFile /\ up'[s] = Tail(up[s]) /\ up[s] # <<>> /\ ~ IsChunk(up[s][1])
    BY <1>0, <1>6, TailElems DEF ReceiveAbort, viewVars, addVars, clientVars, Set, TypeOK, IsChunk,
       AbortMsg
  <2>2. /\ Consecutive(up'[s]) /\ ChunkFiles(up'[s]) \subseteq ChunkFiles(up[s])
        /\ ~ (up'[s] # <<>> /\ IsChunk(up'[s][1]) /\ up'[s][1].no > 1)
    BY <1>0, <2>1, StreamTail DEF StreamOK
  <2>3. StatusOK(s)' /\ StreamOK(s)' /\ UploadedOK(s)'
    BY <1>0, <2>1, <2>2 DEF StatusOK, StreamOK, UploadedOK
  <2> QED
    BY <1>0, <2>1, <2>3, TouchNone
<1>7. CASE RemoveSession(s) \/ ReceiveFails(s)
  <2>1. /\ UNCHANGED <<file_status, disk, compiler_running, output, required_files>>
        /\ SameUpload(s)
    BY <1>0, <1>7 DEF RemoveSession, ReceiveFails, viewVars, addVars, poolVars, clientVars, SameUpload
  <2> QED
    BY <1>0, <2>1, TouchNone
<1> QED
  BY <1>1, <1>2, <1>3, <1>4, <1>5, <1>6, <1>7 DEF handle_server_session, process_file_chunk

(* The pool, the client, and the loss of a connection.                     *)
LEMMA RestCalm ==
  ASSUME TypeInv, SessionInv, OrderInv, Calm, CalmInv, NEW s \in Sessions, StepOf(s),
         Pool(s) \/ ClientReceive(s) \/ Disconnect(s)
  PROVE  /\ FilesOK'
         /\ \A t \in Sessions : StatusOK(t)' /\ StreamOK(t)' /\ UploadedOK(t)' /\ CompiledOK(t)'
<1>0. /\ TypeOK /\ ScanOK(s) /\ DialogueOK(s) /\ StatusOK(s) /\ StreamOK(s) /\ UploadedOK(s)
      /\ FilesOK /\ OneVersion /\ up[s] \in Seq(UpMsg) /\ NoFile \notin Files
      /\ requested_files[s] \in Seq(Files) /\ to_send[s] \in Seq(Files)
  BY SeqTypes, ServerSessionsAssumption DEF TypeInv, OrderInv, CalmInv
<1>1. CASE StartJob(s) \/ DropJob(s) \/ PublishJob(s)
  <2>1. /\ UNCHANGED <<file_status, disk, compiler_running, output, required_files>>
        /\ SameUpload(s)
    BY <1>1 DEF StartJob, DropJob, PublishJob, viewVars, addVars, handlerVars, clientVars, SameUpload
  <2> QED
    BY <1>0, <2>1, TouchNone
<1>2. CASE FinishJob(s)
  <2>1. /\ UNCHANGED <<file_status, disk, compiler_running, required_files>>
        /\ SameUpload(s)
    BY <1>2 DEF FinishJob, viewVars, addVars, handlerVars, clientVars, SameUpload
  <2>2. s \in compiler_running
    BY <1>2 DEF FinishJob, CS!Finish, CS!Move, SessionInv, RunningIsRequested
  <2>3. \A f \in required_files[s] : disk[f] = Contents(declared[s][f])
    <3>1. \A f \in required_files[s] : f \in Files /\ file_status[f] = "AVAILABLE"
      BY <1>0, <2>2 DEF CalmInv, CompiledOK, TypeOK
    <3> QED
      BY <1>0, <3>1, ContentsIs DEF FilesOK, OneVersion
  <2>4. output' = Set(output, s, "as_declared")
    BY <1>2, <2>3 DEF FinishJob
  <2>5. \A t \in Sessions : CompiledOK(t)'
    <3>1. \A t \in Sessions : output[t] # "other" => output'[t] # "other"
      BY <1>0, <2>4 DEF TypeOK, Set
    <3> QED
      BY <2>1, <3>1 DEF CalmInv, CompiledOK
  <2> QED
    BY <1>0, <2>1, <2>5, TouchNone
<1>3. CASE ClientReceive(s)
  <2> DEFINE msg == Head(down[s])
  <2>1. UNCHANGED <<file_status, disk, compiler_running, output, required_files, claim,
                    requested_files, uploaded, handler_pc>>
    BY <1>3 DEF ClientReceive, viewVars, addVars, handlerVars, poolVars
  <2>2. SameUpload(s) \/ (StreamOK(s)' /\ client_pc'[s] \notin {"idle", "await"})
    <3>1. CASE /\ client_pc[s] = "await" /\ msg.kind = "confirmed"
               /\ client_pc' = Set(client_pc, s, "active") /\ SendNextFile(s, msg.files)
      <4>1. msg \in Elems(down[s])
        BY <1>0, <1>3, SeqTypes, TailElems DEF ClientReceive
      <4>2. msg.files = requested_files[s]
        BY <1>0, <3>1, <4>1 DEF DialogueOK
      <4>3. /\ up[s] = <<>> /\ uploaded[s] = NoFile
            /\ \A f \in Elems(requested_files[s]) : file_status[f] = "UPLOADING"
        BY <1>0, <3>1 DEF DialogueOK, StatusOK
      <4>4. Distinct(requested_files[s]) /\ NoFile \notin Elems(requested_files[s])
        BY <1>0, SeqTypes DEF ScanOK
      <4>5. StreamOK(s)'
        BY <1>0, <2>1, <3>1, <4>2, <4>3, <4>4, NoElems, NextFile
      <4> QED
        BY <1>0, <3>1, <4>5 DEF Set, TypeOK
    <3>2. CASE /\ client_pc[s] = "active" /\ SendNextFile(s, to_send[s]) /\ UNCHANGED client_pc
      <4>1. StreamOK(s)'
        BY <1>0, <2>1, <3>2, NextFile DEF StreamOK
      <4> QED
        BY <3>2, <4>1
    <3>3. CASE client_pc[s] \in {"await", "active"} /\ (Conclude(s, "local") \/ Conclude(s, "remote"))
      BY <1>0, <2>1, <3>3, ConcludeStream
    <3>4. CASE UNCHANGED <<client_pc, to_send, up>>
      <4>1. SameUpload(s)
        BY <2>1, <3>4 DEF SameUpload
      <4> QED
        BY <4>1
    <3> QED
      BY <1>3, <3>1, <3>2, <3>3, <3>4 DEF ClientReceive, ClientAwaitsConfirm, ClientHandles
  <2>3. CASE SameUpload(s)
    BY <1>0, <2>1, <2>3, TouchNone
  <2>4. CASE StreamOK(s)' /\ client_pc'[s] \notin {"idle", "await"}
    <3>1. StatusOK(s)' /\ UploadedOK(s)'
      BY <1>0, <2>1, <2>4 DEF StatusOK, UploadedOK
    <3> QED
      BY <1>0, <2>1, <2>4, <3>1, TouchNone
  <2> QED
    BY <2>2, <2>3, <2>4
<1>4. CASE Disconnect(s)
  <2>1. /\ UNCHANGED <<file_status, disk, compiler_running, output, required_files, claim,
                       requested_files, uploaded, handler_pc, to_send>>
        /\ client_pc'[s] = "gone" /\ up'[s] = <<>>
    BY <1>0, <1>4 DEF Disconnect, viewVars, addVars, handlerVars, poolVars, Set, TypeOK
  <2>2. StatusOK(s)' /\ StreamOK(s)' /\ UploadedOK(s)'
    BY <1>0, <2>1, NoElems DEF StatusOK, StreamOK, UploadedOK
  <2> QED
    BY <1>0, <2>1, <2>2, TouchNone
<1> QED
  BY <1>1, <1>2, <1>3, <1>4 DEF Pool

(* All of them together.                                                   *)
LEMMA CalmStep ==
  ASSUME TypeInv, SessionInv, OrderInv, Calm => CalmInv, [Next]_vars, Calm'
  PROVE  CalmInv'
<1>0. TypeOK /\ Calm /\ CalmInv /\ UNCHANGED <<edits, client_version>> /\ edits = 0
  BY CalmBefore DEF TypeInv, Calm
<1>1. OneVersion'
  BY <1>0, VersionStep DEF CalmInv
<1>2. ASSUME NEW s \in Sessions, StepOf(s) PROVE CalmInv'
  BY <1>0, <1>1, <1>2, AddCalm, HandlerCalm, RestCalm DEF StepOf, CalmInv
<1>3. ASSUME UNCHANGED vars PROVE CalmInv'
  <2>1. ASSUME NEW t \in Sessions PROVE StatusOK(t)' /\ StreamOK(t)' /\ UploadedOK(t)' /\ CompiledOK(t)'
    <3>1. SameUpload(t) /\ UNCHANGED <<file_status, disk, required_files, compiler_running, output>>
      BY <1>3 DEF vars, SameUpload, viewVars, addVars, handlerVars, clientVars, poolVars
    <3> QED
      BY <1>0, <3>1, CalmFrame DEF CalmInv, CompiledOK
  <2>2. FilesOK'
    BY <1>0, <1>3 DEF vars, viewVars, CalmInv, FilesOK
  <2> QED
    BY <1>1, <2>1, <2>2 DEF CalmInv
<1>4. (\E s \in Sessions : StepOf(s)) \/ UNCHANGED vars
  BY <1>0 DEF Next, StepOf, ClientEdits
<1> QED
  BY <1>2, <1>3, <1>4

-----------------------------------------------------------------------------
(* Owners, as long as nobody leaves either.                                *)

(* A result that was published stays published.                            *)
LEMMA PublishedStays ==
  ASSUME SessionInv, [Next]_vars, NEW t \in Sessions, job[t] = "published"
  PROVE  job'[t] = "published"
<1>0. DOMAIN job = Sessions /\ t \in compiler_running
  BY DEF SessionInv, Shape, RunningIsRequested
<1>1. CASE try_compile_for_active_sessions
  BY <1>0, <1>1 DEF try_compile_for_active_sessions
<1>2. ASSUME NEW s \in Sessions, ReceiveAbort(s) PROVE job'[t] = "published"
  BY <1>0, <1>2 DEF ReceiveAbort, Set
<1>3. ASSUME NEW s \in Sessions, Pool(s) PROVE job'[t] = "published"
  BY <1>0, <1>3 DEF Pool, StartJob, DropJob, FinishJob, PublishJob, CS!Start, CS!Drop, CS!Finish,
     CS!Publish, CS!Move
<1>4. CASE UNCHANGED job
  BY <1>4
<1> QED
  BY <1>1, <1>2, <1>3, <1>4
  DEF Next, Register, add_session, handle_server_session, process_file_chunk,
     Preprocess, ScanRead, ScanClaim, Confirm, TryAfterAdd, ReceiveChunk, CheckSize, RejectUpload,
     CheckSha, AcceptUpload, TryAfterUpload, RemoveSession, ReceiveFails, ClientReceive, ClientEdits,
     Disconnect, vars, poolVars

(* A file brings no abort into the stream.                                 *)
LEMMA FileIsNoAbort ==
  ASSUME TypeOK, NEW s \in Sessions, NEW files \in Seq(Files), SendNextFile(s, files),
         AbortMsg \in Elems(up'[s])
  PROVE  AbortMsg \in Elems(up[s])
<1>0. up[s] \in Seq(UpMsg) /\ DOMAIN up = Sessions
  BY SeqTypes DEF TypeOK
<1>1. CASE files = <<>>
  BY <1>1 DEF SendNextFile
<1>2. CASE files # <<>>
  <2>1. Head(files) \in Files /\ up'[s] = up[s] \o FileChunks(Head(files))
    BY <1>0, <1>2, HeadTailProperties DEF SendNextFile, Set
  <2>2. FileChunks(Head(files)) \in Seq(Chunk)
    BY <2>1, FileChunksType
  <2>3. FileChunks(Head(files)) \in Seq(UpMsg)
    BY <2>2, SeqMonotonic DEF UpMsg
  <2>4. PICK i \in 1 .. Len(up'[s]) : up'[s][i] = AbortMsg
    BY DEF Elems
  <2> DEFINE n == Len(up[s])
             m == Len(FileChunks(Head(files)))
  <2>5. n \in Nat /\ m \in Nat
    BY <1>0, <2>2, LenProperties
  <2>6. /\ Len(up'[s]) = n + m
        /\ up'[s][i] = IF i <= n THEN up[s][i] ELSE FileChunks(Head(files))[i - n]
    BY <1>0, <2>1, <2>3, ConcatProperties
  <2>7. i > n => i - n \in 1 .. m
    BY <2>5, <2>6
  <2>8. i > n => FileChunks(Head(files))[i - n] \in Chunk
    BY <2>2, <2>7, ElementOfSeq
  <2>9. AbortMsg \notin Chunk
    BY DEF AbortMsg, Chunk
  <2>10. i \in 1 .. n /\ up[s][i] = AbortMsg
    BY <2>4, <2>5, <2>6, <2>8, <2>9
  <2> QED
    BY <2>10 DEF Elems
<1> QED
  BY <1>1, <1>2

(* The client concludes only when its object file was published.           *)
LEMMA OwnerStep ==
  ASSUME TypeInv, SessionInv, OrderInv, CalmInv, NEW s \in Sessions, OwnerOK(s), StepOf(s),
         UNCHANGED disconnects, job[s] = "published" => job'[s] = "published"
  PROVE  OwnerOK(s)'
<1>0. /\ TypeOK /\ DialogueOK(s) /\ UploadedOK(s)
      /\ up[s] \in Seq(UpMsg) /\ down[s] \in Seq(ServerMsg)
      /\ DOMAIN handler_pc = Sessions /\ DOMAIN client_pc = Sessions
      /\ DOMAIN up = Sessions /\ DOMAIN down = Sessions /\ DOMAIN job = Sessions
  BY SeqTypes DEF TypeInv, OrderInv, CalmInv, TypeOK
<1>1. CASE /\ UNCHANGED <<clientVars, up, down>>
           /\ handler_pc'[s] \in {"remove", "ended"} => handler_pc[s] \in {"remove", "ended"}
  BY <1>1 DEF OwnerOK, clientVars
<1>2. ASSUME NEW F, Register(s, F) PROVE OwnerOK(s)'
  <2>1. /\ client_pc[s] = "idle" /\ client_pc'[s] = "await" /\ UNCHANGED <<up, down, handler_pc>>
    BY <1>0, <1>2 DEF Register, DialogueOK, Set, handlerVars
  <2> QED
    BY <2>1 DEF OwnerOK
<1>3. CASE Preprocess(s) \/ (\E f \in Files : ScanRead(s, f)) \/ ScanClaim(s) \/ TryAfterAdd(s)
  BY <1>1, <1>3 DEF Preprocess, ScanRead, ScanClaim, TryAfterAdd, handlerVars
<1>4. CASE Confirm(s)
  <2>1. /\ UNCHANGED <<clientVars, up>> /\ handler_pc'[s] = "recv"
        /\ Send(s, ConfirmMsg(requested_files[s]))
    BY <1>0, <1>4 DEF Confirm, Set
  <2>2. Elems(down'[s]) \subseteq Elems(down[s]) \cup {ConfirmMsg(requested_files[s])}
    BY <1>0, <2>1, Sent, SeqTypes, ServerMsgs
  <2>3. \A m \in Elems(down'[s]) : m.kind \in {"abort", "obj"} => m \in Elems(down[s])
    BY <2>2, MsgKinds
  <2> QED
    BY <2>1, <2>3 DEF OwnerOK, clientVars
<1>5. CASE ReceiveChunk(s)
  <2>1. /\ UNCHANGED <<clientVars, down>> /\ up[s] # <<>> /\ up'[s] = Tail(up[s])
        /\ handler_pc'[s] \notin {"remove", "ended"}
    BY <1>0, <1>5 DEF ReceiveChunk, Set, handlerVars
  <2>2. Elems(up'[s]) \subseteq Elems(up[s])
    BY <1>0, <2>1, TailElems
  <2> QED
    BY <2>1, <2>2 DEF OwnerOK, clientVars
<1>6. CASE CheckSize(s) \/ CheckSha(s) \/ AcceptUpload(s)
  BY <1>0, <1>1, <1>6 DEF CheckSize, CheckSha, AcceptUpload, Set
<1>7. CASE RejectUpload(s)
  BY <1>0, <1>7, ServerSessionsAssumption DEF RejectUpload, TypeInv, PointersSet, UploadedOK
<1>8. CASE TryAfterUpload(s)
  <2>1. /\ UNCHANGED <<clientVars, up>> /\ handler_pc'[s] = "recv" /\ Send(s, CompleteMsg)
    BY <1>0, <1>8 DEF TryAfterUpload, Set
  <2>2. Elems(down'[s]) \subseteq Elems(down[s]) \cup {CompleteMsg}
    BY <1>0, <2>1, Sent, ServerMsgs
  <2>3. \A m \in Elems(down'[s]) : m.kind \in {"abort", "obj"} => m \in Elems(down[s])
    BY <2>2, MsgKinds
  <2> QED
    BY <2>1, <2>3 DEF OwnerOK, clientVars
<1>9. CASE ReceiveAbort(s)
  <2>1. /\ UNCHANGED <<clientVars, down>> /\ up[s] # <<>> /\ up'[s] = Tail(up[s])
        /\ Head(up[s]) = AbortMsg
    BY <1>0, <1>9 DEF ReceiveAbort, Set
  <2>2. Elems(up'[s]) \subseteq Elems(up[s]) /\ AbortMsg \in Elems(up[s])
    BY <1>0, <2>1, TailElems
  <2> QED
    BY <2>1, <2>2 DEF OwnerOK, clientVars
<1>10. CASE RemoveSession(s)
  BY <1>0, <1>1, <1>10 DEF RemoveSession
<1>11. CASE ReceiveFails(s)
  BY <1>11 DEF ReceiveFails, OwnerOK
<1>12. CASE StartJob(s) \/ DropJob(s) \/ FinishJob(s)
  BY <1>1, <1>12 DEF StartJob, DropJob, FinishJob, handlerVars
<1>13. CASE PublishJob(s)
  <2>1. PICK b \in BOOLEAN : Send(s, ObjMsg(b))
    BY <1>13, ServerSessionsAssumption DEF PublishJob
  <2>2. UNCHANGED <<handlerVars, clientVars, up>> /\ job'[s] = "published"
    BY <1>0, <1>13 DEF PublishJob, CS!Publish, CS!Move
  <2>3. Elems(down'[s]) \subseteq Elems(down[s]) \cup {ObjMsg(b)}
    BY <1>0, <2>1, Sent, ServerMsgs
  <2>4. \A m \in Elems(down'[s]) : m.kind # "abort"
    BY <2>3, MsgKinds DEF OwnerOK
  <2> QED
    BY <2>2, <2>4 DEF OwnerOK, handlerVars, clientVars
<1>14. CASE ClientReceive(s)
  <2> DEFINE msg == Head(down[s])
  <2>1. /\ UNCHANGED <<handlerVars, poolVars>> /\ down[s] # <<>> /\ down'[s] = Tail(down[s])
    BY <1>0, <1>14 DEF ClientReceive, Set
  <2>2. Elems(down'[s]) \subseteq Elems(down[s]) /\ msg \in Elems(down[s]) /\ msg \in ServerMsg
    BY <1>0, <2>1, TailElems
  <2>3. /\ msg.kind \in {"abort", "complete", "obj", "confirmed"} /\ msg.kind # "abort"
        /\ msg.kind = "obj" => job[s] = "published"
        /\ client_pc[s] = "await" => msg.kind # "complete"
    BY <1>0, <2>2 DEF OwnerOK, DialogueOK, ServerMsg, AbortMsg, CompleteMsg
  <2>4. CASE (Conclude(s, "local") \/ Conclude(s, "remote")) /\ msg.kind = "obj"
    <3>1. client_pc'[s] \in {"local", "remote"}
      BY <1>0, <2>4 DEF Conclude, Set
    <3> QED
      BY <2>1, <2>2, <2>3, <2>4, <3>1 DEF OwnerOK, handlerVars, poolVars
  <2>5. CASE UNCHANGED <<client_pc, to_send, up>>
    BY <2>1, <2>2, <2>5 DEF OwnerOK, handlerVars, poolVars
  <2>6. ASSUME NEW files \in Seq(Files), SendNextFile(s, files),
               client_pc[s] \in {"await", "active"}, client_pc'[s] = "active"
        PROVE  OwnerOK(s)'
    <3>1. AbortMsg \in Elems(up'[s]) => AbortMsg \in Elems(up[s])
      BY <1>0, <2>6, FileIsNoAbort
    <3> QED
      BY <2>1, <2>2, <2>6, <3>1 DEF OwnerOK, handlerVars, poolVars
  <2>7. CASE client_pc[s] = "await"
    <3>1. CASE msg.kind = "confirmed"
      <4>1. SendNextFile(s, msg.files) /\ client_pc'[s] = "active"
        BY <1>0, <1>14, <2>7, <3>1 DEF ClientReceive, ClientAwaitsConfirm, ClientHandles, Set
      <4>2. msg.files \in Seq(Files)
        BY <2>2, <3>1 DEF ServerMsg, AbortMsg, CompleteMsg
      <4> QED
        BY <2>6, <2>7, <4>1, <4>2
    <3>2. CASE msg.kind # "confirmed"
      <4>1. Conclude(s, "local") /\ msg.kind = "obj"
        BY <1>14, <2>3, <2>7, <3>2 DEF ClientReceive, ClientAwaitsConfirm, ClientHandles
      <4> QED
        BY <2>4, <4>1
    <3> QED
      BY <3>1, <3>2
  <2>8. CASE client_pc[s] = "active"
    <3>1. ClientHandles(s, msg)
      BY <1>14, <2>8 DEF ClientReceive, ClientAwaitsConfirm
    <3>2. CASE SendNextFile(s, to_send[s]) /\ UNCHANGED client_pc
      BY <1>0, <2>6, <2>8, <3>2, SeqTypes
    <3> QED
      BY <2>3, <2>4, <2>5, <3>1, <3>2 DEF ClientHandles
  <2> QED
    BY <1>14, <2>7, <2>8 DEF ClientReceive, ClientAwaitsConfirm, ClientHandles
<1>15. CASE Disconnect(s)
  <2>1. disconnects' = disconnects + 1 /\ disconnects \in Nat
    BY <1>0, <1>15, ServerSessionsAssumption DEF Disconnect, TypeOK
  <2> QED
    BY <2>1
<1> QED
  BY <1>2, <1>3, <1>4, <1>5, <1>6, <1>7, <1>8, <1>9, <1>10, <1>11, <1>12, <1>13, <1>14, <1>15
  DEF StepOf, add_session, handle_server_session, process_file_chunk, Pool

(* A file that becomes UPLOADING was asked for by the session that sets it.*)
LEMMA OwnedStep ==
  ASSUME TypeInv, SessionInv, OrderInv, CalmInv, UploadsOwned, [Next]_vars
  PROVE  UploadsOwned'
<1>0. TypeOK /\ TypeOK'
  BY TypeStep DEF TypeInv
<1>1. \A s \in Sessions : Elems(requested_files[s]) \subseteq Elems(requested_files'[s])
  BY OrderStep
<1>2. CASE \A f \in Files : file_status'[f] = "UPLOADING" => file_status[f] = "UPLOADING"
  BY <1>1, <1>2 DEF UploadsOwned
<1>3. ASSUME NEW s \in Sessions, ScanClaim(s) PROVE UploadsOwned'
  <2>1. claim[s] \in Files /\ requested_files[s] \in Seq(Files)
    BY <1>0, <1>3, SeqTypes DEF ScanClaim, TypeInv, PointersSet
  <2>2. /\ requested_files'[s] = Append(requested_files[s], claim[s])
        /\ \A f \in Files : f # claim[s] => file_status'[f] = file_status[f]
    BY <1>0, <1>3 DEF ScanClaim, update_file_state, Set, TypeOK
  <2>3. claim[s] \in Elems(requested_files'[s])
    BY <2>1, <2>2, AppendElems
  <2> QED
    BY <1>1, <2>2, <2>3 DEF UploadsOwned
<1>4. ASSUME NEW s \in Sessions, NEW F \in SUBSET Files, Register(s, F) PROVE UploadsOwned'
  BY <1>2, <1>4 DEF Register
<1>5. ASSUME NEW s \in Sessions, RejectUpload(s) \/ CheckSha(s) \/ AcceptUpload(s) PROVE UploadsOwned'
  <2>1. UNCHANGED file_status \/ \E v \in {"FAULT", "AVAILABLE"} : update_file_state(uploaded[s], v)
    BY <1>5 DEF RejectUpload, CheckSha, AcceptUpload
  <2>2. \A f \in Files : file_status'[f] = "UPLOADING" => file_status[f] = "UPLOADING"
    BY <1>0, <2>1 DEF update_file_state, Set, TypeOK
  <2> QED
    BY <1>2, <2>2
<1>6. CASE UNCHANGED file_status
  BY <1>2, <1>6
<1> QED
  BY <1>3, <1>4, <1>5, <1>6, ZenonT(60)
  DEF Next, add_session, handle_server_session, process_file_chunk, Pool,
     Preprocess, ScanRead, Confirm, TryAfterAdd, ReceiveChunk, CheckSize,
     TryAfterUpload, ReceiveAbort, RemoveSession, ReceiveFails, StartJob,
     DropJob, FinishJob, PublishJob, ClientReceive, ClientEdits, Disconnect, vars, viewVars

(* All of them together.                                                   *)
LEMMA QuietStep ==
  ASSUME TypeInv, SessionInv, UploadInv, [Next]_vars, Quiet'
  PROVE  QuietInv'
<1>0. /\ TypeOK /\ Calm /\ CalmInv /\ OrderInv /\ QuietInv /\ UNCHANGED <<edits, disconnects>>
      /\ edits = 0
  <2>1. Calm' /\ disconnects' = 0 /\ OrderInv /\ TypeOK
    BY DEF Quiet, UploadInv, TypeInv
  <2>2. Calm /\ UNCHANGED <<edits, disconnects>>
    BY <2>1, CalmBefore
  <2> QED
    BY <2>1, <2>2 DEF Quiet, UploadInv, Calm
<1>1. UploadsOwned'
  BY <1>0, OwnedStep DEF QuietInv
<1>2. ASSUME NEW s \in Sessions, StepOf(s), NEW t \in Sessions PROVE OwnerOK(t)'
  <2>1. OwnerOK(t) /\ (job[t] = "published" => job'[t] = "published")
    BY <1>0, PublishedStays DEF QuietInv
  <2>2. CASE t = s
    BY <1>0, <1>2, <2>1, <2>2, OwnerStep
  <2>3. CASE t # s
    BY <1>0, <1>2, <2>1, <2>3, OthersSame, OwnerFrame
  <2> QED
    BY <2>2, <2>3
<1>3. ASSUME UNCHANGED vars, NEW t \in Sessions PROVE OwnerOK(t)'
  BY <1>0, <1>3 DEF vars, addVars, handlerVars, clientVars, poolVars, OwnerOK, QuietInv
<1>4. (\E s \in Sessions : StepOf(s)) \/ UNCHANGED vars
  <2>1. edits \in Nat
    BY <1>0
  <2> QED
    BY <1>0, <2>1 DEF Next, StepOf, ClientEdits
<1> QED
  BY <1>1, <1>2, <1>3, <1>4 DEF QuietInv

-----------------------------------------------------------------------------
(* The invariant holds initially.                                          *)
LEMMA UploadInit == Init => UploadInv
<1> SUFFICES ASSUME Init PROVE UploadInv
  OBVIOUS
<1>0. NoFile \notin Files
  BY ServerSessionsAssumption
<1>1. OrderInv
  BY NoElems DEF Init, OrderInv, ScanOK, DialogueOK
<1>2. CalmInv
  BY NoElems DEF Init, CalmInv, OneVersion, FilesOK, StatusOK, StreamOK, UploadedOK, CompiledOK
<1>3. QuietInv
  BY NoElems DEF Init, QuietInv, UploadsOwned, OwnerOK
<1> QED
  BY <1>1, <1>2, <1>3 DEF UploadInv

(* Every step keeps the invariant.                                         *)
LEMMA UploadStep ==
  ASSUME TypeInv, SessionInv, UploadInv, [Next]_vars
  PROVE  UploadInv'
<1>1. OrderInv'
  BY OrderStep DEF UploadInv
<1>2. Calm' => CalmInv'
  BY CalmStep DEF UploadInv
<1>3. Quiet' => QuietInv'
  BY QuietStep
<1> QED
  BY <1>1, <1>2, <1>3 DEF UploadInv

(* The invariant holds always.                                             *)
LEMMA UploadInvariant == Spec => [](TypeInv /\ SessionInv /\ UploadInv)
<1>1. Init => TypeInv /\ SessionInv /\ UploadInv
  BY TypeInit, SessionInit, UploadInit
<1>2. TypeInv /\ SessionInv /\ UploadInv /\ [Next]_vars => (TypeInv /\ SessionInv /\ UploadInv)'
  BY TypeStep, SessionStep, UploadStep
<1> QED
  BY <1>1, <1>2, PTL DEF Spec

(* Whatever sessions upload, sweep, abort and lose their connection, the   *)
(* compiler reads exactly what the client declared, unless two sessions    *)
(* claimed the same file (the scan reads INITIAL and writes UPLOADING      *)
(* without the mutex) or the client edited a file: the hash check that     *)
(* process_file_chunk ignores is not needed otherwise.                     *)
THEOREM SoleUploader == Spec => []SoleUploaderIsCompiled
<1>1. UploadInv => SoleUploaderIsCompiled
  BY DEF UploadInv, Calm, CalmInv, CompiledOK, SoleUploaderIsCompiled
<1> QED
  BY <1>1, UploadInvariant, PTL

(* A file that add_session leaves to somebody else because it is UPLOADING *)
(* has an uploader that is still there.                                    *)
THEOREM UploadsHaveOwners == Spec => []UploadHasOwner
<1>1. TypeInv /\ SessionInv /\ UploadInv => UploadHasOwner
  <2> SUFFICES ASSUME TypeInv, SessionInv, UploadInv, Quiet, NEW f \in Files,
                      file_status[f] = "UPLOADING"
               PROVE  \E s \in Sessions : f \in Asked(s) /\ client_pc[s] \in {"await", "active"}
    BY DEF UploadHasOwner, Quiet, Calm
  <2>1. PICK s \in Sessions : f \in Elems(requested_files[s])
    BY DEF UploadInv, QuietInv, UploadsOwned
  <2>2. OwnerOK(s) /\ CompiledOK(s) /\ ScanOK(s) /\ DialogueOK(s)
    BY DEF UploadInv, QuietInv, CalmInv, OrderInv, Quiet
  <2>3. client_pc[s] # "idle"
    BY <2>1, <2>2, NoElems DEF ScanOK, DialogueOK
  <2>4. client_pc[s] \notin {"remote", "local"}
    <3>1. s \notin compiler_running
      BY <2>1, <2>2 DEF ScanOK, CompiledOK
    <3> QED
      BY <2>2, <3>1 DEF OwnerOK, SessionInv, RunningIsRequested
  <2>5. client_pc[s] \in {"await", "active"}
    BY <2>2, <2>3, <2>4 DEF OwnerOK, TypeInv, TypeOK
  <2> QED
    BY <2>1, <2>5, AskedIs DEF TypeInv
<1> QED
  BY <1>1, UploadInvariant, PTL

(* The pool holds no pointer to a session that terminate_server_session    *)
(* has removed, unless there was a race, an edit or a lost connection.     *)
THEOREM RequesterOutlives == Spec => []RequesterOutlivesJob
<1>1. UploadInv => RequesterOutlivesJob
  BY DEF UploadInv, Quiet, Calm, QuietInv, OwnerOK, RequesterOutlivesJob
<1> QED
  BY <1>1, UploadInvariant, PTL
=============================================================================
