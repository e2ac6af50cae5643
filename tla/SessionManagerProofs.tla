------------------------- MODULE SessionManagerProofs -------------------------
(***************************************************************************)
(* Proofs about SessionManager, for any users, connections, threads, queue *)
(* and caps.                                                               *)
(***************************************************************************)
EXTENDS SessionManager, FiniteSetTheorems, TLAPS

(* A worker has a job exactly while it is running one, and a thread that is *)
(* unlinking or terminating knows for whom.                                 *)
ControlOK ==
  /\ \A w \in Workers :
       IF pc[w] \in {"recv", "exited"} THEN cur[w] = None ELSE cur[w] \in Conns
  /\ \A t \in Threads : pc[t] \in {"unlinking", "term"} => victim[t] \in Conns

(* Holding a latch is being in `busy`.                                      *)
LatchTaken ==
  /\ \A w \in Workers : pc[w] \in Latched => UserOf(w) \in busy
  /\ \A t \in Threads : pc[t] = "unlinking" => UidOf[victim[t]] \in busy

(* Once the pool has been shut down no worker runs.                         *)
WorkersGone == pc[Main] \in {"stopwait", "stopunlink", "down"} =>
  \A w \in Workers : pc[w] = "exited"

(* A name that was connected to is still there while the latch is held, and *)
(* after a spawn it is the session just spawned.                            *)
NameHeld ==
  \A w \in Workers :
    /\ pc[w] \in {"await", "lookup"} => name[UserOf(w)] \in Conns
    /\ pc[w] \in {"spawn", "insert", "cold"} => name[UserOf(w)] = cur[w]

(* A record is filed under the uid of the connection that inserted it.       *)
RecordsOK ==
  /\ \A r \in sessions : r.uid = UidOf[r.started]
  /\ \A t \in Threads : \A r \in ended[t] \cup copies[t] : r.uid = UidOf[r.started]

BaseInv == RecordsOK /\ TypeOK /\ ControlOK /\ LatchTaken /\ LatchExclusion /\ WorkersGone /\ NameHeld


(* A step that sends one thread to a place of its own keeps them all typed. *)
LEMMA WorkerGoto ==
  ASSUME PcOK, NEW w \in Workers, NEW l \in WorkerPC, Goto(w, l) PROVE PcOK'
  BY PoolAssumption DEF PoolAssumption, PcOK, Goto, Threads

LEMMA MainGoto == ASSUME PcOK, NEW l \in MainPC, Goto(Main, l) PROVE PcOK'
  BY PoolAssumption DEF PoolAssumption, PcOK, Goto, Threads

LEMMA ReapGoto ==
  ASSUME PcOK, NEW t \in Threads, NEW l \in (IF t = Main THEN MainPC ELSE WorkerPC), Goto(t, l)
  PROVE  PcOK'
  BY WorkerGoto, MainGoto DEF Threads

LEMMA PcStep == ASSUME PcOK, Next PROVE PcOK'
<1>1. ASSUME NEW c \in Conns, Submit(c) PROVE PcOK'
  BY <1>1 DEF Submit, PcOK
<1>2. ASSUME NEW c \in Conns, Refuse(c) PROVE PcOK'
  BY <1>2 DEF Refuse, PcOK
<1>3. ASSUME NEW t \in Threads, Scan(t) PROVE PcOK'
  BY <1>3, ReapGoto DEF Scan, AfterReap, WorkerPC, MainPC
<1>4. ASSUME NEW t \in Threads, SkipUnlink(t) PROVE PcOK'
  BY <1>4 DEF SkipUnlink, PcOK
<1>5. ASSUME NEW t \in Threads, ClaimUnlink(t) PROVE PcOK'
  BY <1>5, ReapGoto DEF ClaimUnlink, AfterReap, WorkerPC, MainPC
<1>6. ASSUME NEW t \in Threads, Unlink(t) PROVE PcOK'
  BY <1>6, ReapGoto DEF Unlink, AfterReap, WorkerPC, MainPC
<1>7. ASSUME NEW t \in Threads, ProbeRead(t) PROVE PcOK'
  BY <1>7, ReapGoto DEF ProbeRead, AfterReap, WorkerPC, MainPC
<1>8. ASSUME NEW t \in Threads, ProbeDrop(t) PROVE PcOK'
  BY <1>8, ReapGoto DEF ProbeDrop, AfterReap, WorkerPC, MainPC
<1>9. ASSUME NEW w \in Workers, Recv(w) PROVE PcOK'
  BY <1>9, WorkerGoto DEF Recv, WorkerPC, PcOK
<1>10. ASSUME NEW w \in Workers, WorkerExit(w) PROVE PcOK'
  BY <1>10, WorkerGoto DEF WorkerExit, WorkerPC
<1>11. ASSUME NEW w \in Workers, Acquire(w) PROVE PcOK'
  BY <1>11, WorkerGoto DEF Acquire, WorkerPC
<1>12. ASSUME NEW w \in Workers, Connect(w) PROVE PcOK'
  BY <1>12, WorkerGoto DEF Connect, WorkerPC
<1>13. ASSUME NEW w \in Workers, AwaitAccept(w) PROVE PcOK'
  BY <1>13, WorkerGoto DEF AwaitAccept, WorkerPC
<1>14. ASSUME NEW w \in Workers, AwaitFail(w) PROVE PcOK'
  BY <1>14, WorkerGoto DEF AwaitFail, WorkerPC
<1>15. ASSUME NEW w \in Workers, Lookup(w) PROVE PcOK'
  BY <1>15, WorkerGoto DEF Lookup, WorkerPC
<1>16. ASSUME NEW w \in Workers, OwnsCheck(w) PROVE PcOK'
  BY <1>16, WorkerGoto DEF OwnsCheck, WorkerPC
<1>17. ASSUME NEW w \in Workers, Take(w) PROVE PcOK'
  BY <1>17, WorkerGoto DEF Take, WorkerPC
<1>18. ASSUME NEW w \in Workers, TermWait(w) PROVE PcOK'
  BY <1>18, WorkerGoto DEF TermWait, WorkerPC
<1>19. ASSUME NEW w \in Workers, TermKill(w) PROVE PcOK'
  BY <1>19, WorkerGoto DEF TermKill, WorkerPC
<1>20. ASSUME NEW w \in Workers, Clear(w) PROVE PcOK'
  BY <1>20, WorkerGoto DEF Clear, WorkerPC
<1>21. ASSUME NEW w \in Workers, Bind(w) PROVE PcOK'
  BY <1>21, WorkerGoto DEF Bind, WorkerPC
<1>22. ASSUME NEW w \in Workers, Spawn(w) PROVE PcOK'
  BY <1>22, WorkerGoto DEF Spawn, WorkerPC
<1>23. ASSUME NEW w \in Workers, SpawnFail(w) PROVE PcOK'
  BY <1>23, WorkerGoto DEF SpawnFail, WorkerPC
<1>24. ASSUME NEW w \in Workers, Insert(w) PROVE PcOK'
  BY <1>24, WorkerGoto DEF Insert, WorkerPC
<1>25. ASSUME NEW w \in Workers, ColdAccept(w) PROVE PcOK'
  BY <1>25, WorkerGoto DEF ColdAccept, WorkerPC
<1>26. ASSUME NEW w \in Workers, ColdFail(w) PROVE PcOK'
  BY <1>26, WorkerGoto DEF ColdFail, WorkerPC
<1>27. ASSUME NEW w \in Workers, Release(w) PROVE PcOK'
  BY <1>27, WorkerGoto DEF Release, WorkerPC
<1>28. ASSUME NEW w \in Workers, Answer(w) PROVE PcOK'
  BY <1>28, WorkerGoto DEF Answer, WorkerPC
<1>29. ASSUME BeginShutdown PROVE PcOK'
  BY <1>29, MainGoto DEF BeginShutdown, MainPC
<1>30. ASSUME Exit PROVE PcOK'
  BY <1>30, MainGoto DEF Exit, MainPC
<1>31. ASSUME StopAll PROVE PcOK'
  BY <1>31, MainGoto DEF StopAll, MainPC
<1>32. ASSUME StopWait PROVE PcOK'
  BY <1>32, MainGoto DEF StopWait, MainPC
<1>33. ASSUME StopUnlink PROVE PcOK'
  BY <1>33, MainGoto DEF StopUnlink, MainPC
<1>34. ASSUME Crash PROVE PcOK'
  BY <1>34, PoolAssumption DEF Crash, PcOK, PoolAssumption, WorkerPC, MainPC, Threads
<1>35. ASSUME Start PROVE PcOK'
  BY <1>35, PoolAssumption DEF Start, PcOK, PoolAssumption, WorkerPC, MainPC, Threads
<1>36. ASSUME NEW s \in Conns, SessionEnds(s) PROVE PcOK'
  BY <1>36 DEF SessionEnds, PcOK
<1>37. ASSUME NEW s \in Conns, SupervisorExits(s) PROVE PcOK'
  BY <1>37 DEF SupervisorExits, PcOK
<1>38. ASSUME NEW s \in Conns, SupervisorKilled(s) PROVE PcOK'
  BY <1>38 DEF SupervisorKilled, PcOK
<1>q. QED
  BY <1>1, <1>2, <1>3, <1>4, <1>5, <1>6, <1>7, <1>8, <1>9, <1>10, <1>11, <1>12, <1>13,
     <1>14, <1>15, <1>16, <1>17, <1>18, <1>19, <1>20, <1>21, <1>22, <1>23, <1>24, <1>25,
     <1>26, <1>27, <1>28, <1>29, <1>30, <1>31, <1>32, <1>33, <1>34, <1>35, <1>36, <1>37,
     <1>38
     DEF Next, Accept, Reap, Worker, Handoff, Terminate, Shutdown, Process, Threads

LEMMA ThreadsStep == ASSUME BaseInv, Next PROVE ThreadsOK'
<1> USE DEF BaseInv, TypeOK, ThreadsOK, ControlOK, Goto, threadVars
<1>1. ASSUME NEW c \in Conns, Submit(c) PROVE ThreadsOK'
  BY <1>1 DEF Submit
<1>2. ASSUME NEW c \in Conns, Refuse(c) PROVE ThreadsOK'
  BY <1>2 DEF Refuse
<1>3. ASSUME NEW t \in Threads, Scan(t) PROVE ThreadsOK'
  <2>1. ended'[t] \subseteq sessions /\ copies'[t] \subseteq sessions
    BY <1>3 DEF Scan
  <2>2. sessions \subseteq SessionRecord
    BY DEF TablesOK
  <2>3. ended' = [ended EXCEPT ![t] = ended'[t]] /\ copies' = [copies EXCEPT ![t] = copies'[t]]
    BY <1>3 DEF Scan
  <2>q. QED
    BY <1>3, <2>1, <2>2, <2>3 DEF Scan
<1>4. ASSUME NEW t \in Threads, SkipUnlink(t) PROVE ThreadsOK'
  BY <1>4 DEF SkipUnlink
<1>5. ASSUME NEW t \in Threads, ClaimUnlink(t) PROVE ThreadsOK'
  <2>1. PICK r \in ended[t] :
          /\ victim' = [victim EXCEPT ![t] = r.started]
          /\ ended' = [ended EXCEPT ![t] = @ \ {r}]
    BY <1>5 DEF ClaimUnlink
  <2>2. r.started \in Conns /\ ended[t] \ {r} \subseteq SessionRecord
    BY DEF SessionRecord
  <2>q. QED
    BY <1>5, <2>1, <2>2 DEF ClaimUnlink
<1>6. ASSUME NEW t \in Threads, Unlink(t) PROVE ThreadsOK'
  BY <1>6 DEF Unlink
<1>7. ASSUME NEW t \in Threads, ProbeRead(t) PROVE ThreadsOK'
  BY <1>7 DEF ProbeRead, AfterReap
<1>8. ASSUME NEW t \in Threads, ProbeDrop(t) PROVE ThreadsOK'
  BY <1>8 DEF ProbeDrop, AfterReap
<1>9. ASSUME NEW w \in Workers, Recv(w) PROVE ThreadsOK'
  <2>1. Head(queue) \in Conns
    BY <1>9 DEF Recv, TablesOK
  <2>2. cur' = cur \/ cur' = [cur EXCEPT ![w] = Head(queue)]
    BY <1>9 DEF Recv
  <2>q. QED
    BY <1>9, <2>1, <2>2 DEF Recv
<1>10. ASSUME NEW w \in Workers, WorkerExit(w) PROVE ThreadsOK'
  BY <1>10 DEF WorkerExit
<1>11. ASSUME NEW w \in Workers, Acquire(w) PROVE ThreadsOK'
  BY <1>11 DEF Acquire
<1>12. ASSUME NEW w \in Workers, Connect(w) PROVE ThreadsOK'
  BY <1>12 DEF Connect
<1>13. ASSUME NEW w \in Workers, AwaitAccept(w) PROVE ThreadsOK'
  BY <1>13 DEF AwaitAccept
<1>14. ASSUME NEW w \in Workers, AwaitFail(w) PROVE ThreadsOK'
  BY <1>14 DEF AwaitFail
<1>15. ASSUME NEW w \in Workers, Lookup(w) PROVE ThreadsOK'
  BY <1>15 DEF Lookup, Record, Records
<1>16. ASSUME NEW w \in Workers, OwnsCheck(w) PROVE ThreadsOK'
  BY <1>16 DEF OwnsCheck
<1>17. ASSUME NEW w \in Workers, Take(w) PROVE ThreadsOK'
  <2>1. victim' = victim \/ \E s \in Conns : victim' = [victim EXCEPT ![w] = s]
    BY <1>17 DEF Take, Records, TablesOK, SessionRecord
  <2>q. QED
    BY <1>17, <2>1 DEF Take
<1>18. ASSUME NEW w \in Workers, TermWait(w) PROVE ThreadsOK'
  BY <1>18 DEF TermWait
<1>19. ASSUME NEW w \in Workers, TermKill(w) PROVE ThreadsOK'
  BY <1>19 DEF TermKill, Sigkill
<1>20. ASSUME NEW w \in Workers, Clear(w) PROVE ThreadsOK'
  BY <1>20 DEF Clear
<1>21. ASSUME NEW w \in Workers, Bind(w) PROVE ThreadsOK'
  BY <1>21 DEF Bind
<1>22. ASSUME NEW w \in Workers, Spawn(w) PROVE ThreadsOK'
  BY <1>22 DEF Spawn
<1>23. ASSUME NEW w \in Workers, SpawnFail(w) PROVE ThreadsOK'
  BY <1>23 DEF SpawnFail
<1>24. ASSUME NEW w \in Workers, Insert(w) PROVE ThreadsOK'
  BY <1>24 DEF Insert, Record, Records
<1>25. ASSUME NEW w \in Workers, ColdAccept(w) PROVE ThreadsOK'
  BY <1>25 DEF ColdAccept
<1>26. ASSUME NEW w \in Workers, ColdFail(w) PROVE ThreadsOK'
  BY <1>26 DEF ColdFail
<1>27. ASSUME NEW w \in Workers, Release(w) PROVE ThreadsOK'
  BY <1>27 DEF Release
<1>28. ASSUME NEW w \in Workers, Answer(w) PROVE ThreadsOK'
  BY <1>28 DEF Answer
<1>29. ASSUME BeginShutdown PROVE ThreadsOK'
  BY <1>29 DEF BeginShutdown
<1>30. ASSUME Exit PROVE ThreadsOK'
  BY <1>30 DEF Exit, Joined
<1>31. ASSUME StopAll PROVE ThreadsOK'
  <2>1. ended' = [ended EXCEPT ![Main] = {r \in sessions : r.owned}]
    BY <1>31 DEF StopAll
  <2>2. {r \in sessions : r.owned} \subseteq SessionRecord
    BY DEF TablesOK
  <2>q. QED
    BY <1>31, <2>1, <2>2 DEF StopAll
<1>32. ASSUME StopWait PROVE ThreadsOK'
  BY <1>32 DEF StopWait, Sigkill
<1>33. ASSUME StopUnlink PROVE ThreadsOK'
  BY <1>33 DEF StopUnlink
<1>34. ASSUME Crash PROVE ThreadsOK'
  BY <1>34 DEF Crash
<1>35. ASSUME Start PROVE ThreadsOK'
  BY <1>35 DEF Start
<1>36. ASSUME NEW s \in Conns, SessionEnds(s) PROVE ThreadsOK'
  BY <1>36 DEF SessionEnds
<1>37. ASSUME NEW s \in Conns, SupervisorExits(s) PROVE ThreadsOK'
  BY <1>37 DEF SupervisorExits
<1>38. ASSUME NEW s \in Conns, SupervisorKilled(s) PROVE ThreadsOK'
  BY <1>38 DEF SupervisorKilled
<1>q. QED
  BY <1>1, <1>2, <1>3, <1>4, <1>5, <1>6, <1>7, <1>8, <1>9, <1>10, <1>11, <1>12, <1>13,
     <1>14, <1>15, <1>16, <1>17, <1>18, <1>19, <1>20, <1>21, <1>22, <1>23, <1>24, <1>25,
     <1>26, <1>27, <1>28, <1>29, <1>30, <1>31, <1>32, <1>33, <1>34, <1>35, <1>36, <1>37,
     <1>38
     DEF Next, Accept, Reap, Worker, Handoff, Terminate, Shutdown, Process, Threads

LEMMA TablesStep == ASSUME BaseInv, Next PROVE TablesOK'
<1> USE PoolAssumption DEF PoolAssumption, BaseInv, TypeOK, PcOK, ThreadsOK, TablesOK, ControlOK,
             Goto, UserOf, poolVars, lifeVars
<1>1. ASSUME NEW c \in Conns, Submit(c) PROVE TablesOK'
  BY <1>1 DEF Submit
<1>2. ASSUME NEW c \in Conns, Refuse(c) PROVE TablesOK'
  BY <1>2 DEF Refuse
<1>3. ASSUME NEW t \in Threads, Scan(t) PROVE TablesOK'
  BY <1>3 DEF Scan, AfterReap
<1>4. ASSUME NEW t \in Threads, SkipUnlink(t) PROVE TablesOK'
  BY <1>4 DEF SkipUnlink
<1>5. ASSUME NEW t \in Threads, ClaimUnlink(t) PROVE TablesOK'
  <2>1. busy' \subseteq Uids
    BY <1>5 DEF ClaimUnlink, SessionRecord
  <2>q. QED
    BY <1>5, <2>1 DEF ClaimUnlink
<1>6. ASSUME NEW t \in Threads, Unlink(t) PROVE TablesOK'
  BY <1>6 DEF Unlink
<1>7. ASSUME NEW t \in Threads, ProbeRead(t) PROVE TablesOK'
  BY <1>7 DEF ProbeRead, AfterReap
<1>8. ASSUME NEW t \in Threads, ProbeDrop(t) PROVE TablesOK'
  BY <1>8 DEF ProbeDrop, AfterReap
<1>9. ASSUME NEW w \in Workers, Recv(w) PROVE TablesOK'
  <2>1. Head(queue) \in Conns /\ Tail(queue) \in Seq(Conns)
    BY <1>9 DEF Recv
  <2>2. UidOf[Head(queue)] \in Uids /\ inFlight[UidOf[Head(queue)]] - 1 \in Int
    BY <2>1
  <2>3. inFlight' \in [Uids -> Int]
    BY <1>9, <2>2 DEF Recv
  <2>4. conn' \in [Conns -> {"new", "pending", "handed", "rejected", "closed"}]
    BY <1>9, <2>1 DEF Recv
  <2>q. QED
    BY <1>9, <2>1, <2>3, <2>4 DEF Recv
<1>10. ASSUME NEW w \in Workers, WorkerExit(w) PROVE TablesOK'
  BY <1>10 DEF WorkerExit
<1>11. ASSUME NEW w \in Workers, Acquire(w) PROVE TablesOK'
  <2>1. cur[w] \in Conns
    BY <1>11 DEF Acquire
  <2>2. busy' \subseteq Uids
    BY <1>11, <2>1 DEF Acquire
  <2>q. QED
    BY <1>11, <2>2 DEF Acquire
<1>12. ASSUME NEW w \in Workers, Connect(w) PROVE TablesOK'
  BY <1>12 DEF Connect
<1>13. ASSUME NEW w \in Workers, AwaitAccept(w) PROVE TablesOK'
  BY <1>13 DEF AwaitAccept
<1>14. ASSUME NEW w \in Workers, AwaitFail(w) PROVE TablesOK'
  BY <1>14 DEF AwaitFail
<1>15. ASSUME NEW w \in Workers, Lookup(w) PROVE TablesOK'
  <2>1. cur[w] \in Conns
    BY <1>15 DEF Lookup
  <2>2. \A own \in BOOLEAN : Record(UserOf(w), cur[w], own) \in SessionRecord
    BY <2>1 DEF Record, SessionRecord
  <2>3. sessions' \subseteq SessionRecord
    BY <1>15, <2>2 DEF Lookup, Records
  <2>q. QED
    BY <1>15, <2>3 DEF Lookup
<1>16. ASSUME NEW w \in Workers, OwnsCheck(w) PROVE TablesOK'
  BY <1>16 DEF OwnsCheck
<1>17. ASSUME NEW w \in Workers, Take(w) PROVE TablesOK'
  BY <1>17 DEF Take, Records, Sigterm
<1>18. ASSUME NEW w \in Workers, TermWait(w) PROVE TablesOK'
  BY <1>18 DEF TermWait
<1>19. ASSUME NEW w \in Workers, TermKill(w) PROVE TablesOK'
  BY <1>19 DEF TermKill, Sigkill
<1>20. ASSUME NEW w \in Workers, Clear(w) PROVE TablesOK'
  BY <1>20 DEF Clear
<1>21. ASSUME NEW w \in Workers, Bind(w) PROVE TablesOK'
  BY <1>21 DEF Bind
<1>22. ASSUME NEW w \in Workers, Spawn(w) PROVE TablesOK'
  BY <1>22 DEF Spawn
<1>23. ASSUME NEW w \in Workers, SpawnFail(w) PROVE TablesOK'
  BY <1>23 DEF SpawnFail
<1>24. ASSUME NEW w \in Workers, Insert(w) PROVE TablesOK'
  <2>1. cur[w] \in Conns
    BY <1>24 DEF Insert
  <2>2. \A own \in BOOLEAN : Record(UserOf(w), cur[w], own) \in SessionRecord
    BY <2>1 DEF Record, SessionRecord
  <2>3. sessions' \subseteq SessionRecord
    BY <1>24, <2>2 DEF Insert, Records
  <2>q. QED
    BY <1>24, <2>3 DEF Insert
<1>25. ASSUME NEW w \in Workers, ColdAccept(w) PROVE TablesOK'
  BY <1>25 DEF ColdAccept
<1>26. ASSUME NEW w \in Workers, ColdFail(w) PROVE TablesOK'
  BY <1>26 DEF ColdFail
<1>27. ASSUME NEW w \in Workers, Release(w) PROVE TablesOK'
  BY <1>27 DEF Release
<1>28. ASSUME NEW w \in Workers, Answer(w) PROVE TablesOK'
  <2>0. cur[w] \in Conns
    BY <1>28 DEF Answer
  <2>1. cur[w] \in Conns /\ UserOf(w) \in Uids /\ inFlight[UserOf(w)] - 1 \in Int
    BY <2>0
  <2>2. inFlight' \in [Uids -> Int]
    BY <1>28, <2>1 DEF Answer
  <2>3. conn' \in [Conns -> {"new", "pending", "handed", "rejected", "closed"}]
    BY <1>28, <2>1 DEF Answer
  <2>q. QED
    BY <1>28, <2>2, <2>3 DEF Answer
<1>29. ASSUME BeginShutdown PROVE TablesOK'
  BY <1>29 DEF BeginShutdown
<1>30. ASSUME Exit PROVE TablesOK'
  BY <1>30 DEF Exit, Joined
<1>31. ASSUME StopAll PROVE TablesOK'
  BY <1>31 DEF StopAll, Sigterm, Joined
<1>32. ASSUME StopWait PROVE TablesOK'
  BY <1>32 DEF StopWait, Sigkill
<1>33. ASSUME StopUnlink PROVE TablesOK'
  BY <1>33 DEF StopUnlink
<1>34. ASSUME Crash PROVE TablesOK'
  BY <1>34 DEF Crash
<1>35. ASSUME Start PROVE TablesOK'
  <2>1. restarts' \in 0..MaxRestarts
    BY <1>35 DEF Start
  <2>2. queue' = queue /\ inFlight' = inFlight /\ conn' = conn
    BY <1>35 DEF Start
  <2>3. busy' = {} /\ sessions' = {} /\ stopping' = FALSE
    BY <1>35 DEF Start
  <2>q. QED
    BY <2>1, <2>2, <2>3
<1>36. ASSUME NEW s \in Conns, SessionEnds(s) PROVE TablesOK'
  BY <1>36 DEF SessionEnds
<1>37. ASSUME NEW s \in Conns, SupervisorExits(s) PROVE TablesOK'
  BY <1>37 DEF SupervisorExits
<1>38. ASSUME NEW s \in Conns, SupervisorKilled(s) PROVE TablesOK'
  BY <1>38 DEF SupervisorKilled
<1>q. QED
  BY <1>1, <1>2, <1>3, <1>4, <1>5, <1>6, <1>7, <1>8, <1>9, <1>10, <1>11, <1>12, <1>13,
     <1>14, <1>15, <1>16, <1>17, <1>18, <1>19, <1>20, <1>21, <1>22, <1>23, <1>24, <1>25,
     <1>26, <1>27, <1>28, <1>29, <1>30, <1>31, <1>32, <1>33, <1>34, <1>35, <1>36, <1>37,
     <1>38
     DEF Next, Accept, Reap, Worker, Handoff, Terminate, Shutdown, Process, Threads

LEMMA ProcessesStep == ASSUME BaseInv, Next PROVE ProcessesOK'
<1> USE PoolAssumption DEF PoolAssumption, BaseInv, TypeOK, PcOK, ThreadsOK, ProcessesOK, ControlOK,
             NameHeld, Goto, UserOf, procVars, histVars
<1>1. ASSUME NEW c \in Conns, Submit(c) PROVE ProcessesOK'
  BY <1>1 DEF Submit
<1>2. ASSUME NEW c \in Conns, Refuse(c) PROVE ProcessesOK'
  BY <1>2 DEF Refuse
<1>3. ASSUME NEW t \in Threads, Scan(t) PROVE ProcessesOK'
  BY <1>3 DEF Scan, AfterReap
<1>4. ASSUME NEW t \in Threads, SkipUnlink(t) PROVE ProcessesOK'
  BY <1>4 DEF SkipUnlink
<1>5. ASSUME NEW t \in Threads, ClaimUnlink(t) PROVE ProcessesOK'
  BY <1>5 DEF ClaimUnlink
<1>6. ASSUME NEW t \in Threads, Unlink(t) PROVE ProcessesOK'
  BY <1>6 DEF Unlink
<1>7. ASSUME NEW t \in Threads, ProbeRead(t) PROVE ProcessesOK'
  BY <1>7 DEF ProbeRead, AfterReap
<1>8. ASSUME NEW t \in Threads, ProbeDrop(t) PROVE ProcessesOK'
  BY <1>8 DEF ProbeDrop, AfterReap
<1>9. ASSUME NEW w \in Workers, Recv(w) PROVE ProcessesOK'
  BY <1>9 DEF Recv
<1>10. ASSUME NEW w \in Workers, WorkerExit(w) PROVE ProcessesOK'
  BY <1>10 DEF WorkerExit
<1>11. ASSUME NEW w \in Workers, Acquire(w) PROVE ProcessesOK'
  BY <1>11 DEF Acquire
<1>12. ASSUME NEW w \in Workers, Connect(w) PROVE ProcessesOK'
  BY <1>12 DEF Connect
<1>13. ASSUME NEW w \in Workers, AwaitAccept(w) PROVE ProcessesOK'
  BY <1>13 DEF AwaitAccept
<1>14. ASSUME NEW w \in Workers, AwaitFail(w) PROVE ProcessesOK'
  BY <1>14 DEF AwaitFail
<1>15. ASSUME NEW w \in Workers, Lookup(w) PROVE ProcessesOK'
  BY <1>15 DEF Lookup, Record, Records
<1>16. ASSUME NEW w \in Workers, OwnsCheck(w) PROVE ProcessesOK'
  BY <1>16 DEF OwnsCheck
<1>17. ASSUME NEW w \in Workers, Take(w) PROVE ProcessesOK'
  BY <1>17 DEF Take, Records, Sigterm
<1>18. ASSUME NEW w \in Workers, TermWait(w) PROVE ProcessesOK'
  BY <1>18 DEF TermWait
<1>19. ASSUME NEW w \in Workers, TermKill(w) PROVE ProcessesOK'
  BY <1>19 DEF TermKill, Sigkill
<1>20. ASSUME NEW w \in Workers, Clear(w) PROVE ProcessesOK'
  BY <1>20 DEF Clear
<1>21. ASSUME NEW w \in Workers, Bind(w) PROVE ProcessesOK'
  BY <1>21 DEF Bind
<1>22. ASSUME NEW w \in Workers, Spawn(w) PROVE ProcessesOK'
  BY <1>22 DEF Spawn
<1>23. ASSUME NEW w \in Workers, SpawnFail(w) PROVE ProcessesOK'
  BY <1>23 DEF SpawnFail
<1>24. ASSUME NEW w \in Workers, Insert(w) PROVE ProcessesOK'
  BY <1>24 DEF Insert, Record, Records
<1>25. ASSUME NEW w \in Workers, ColdAccept(w) PROVE ProcessesOK'
  BY <1>25 DEF ColdAccept
<1>26. ASSUME NEW w \in Workers, ColdFail(w) PROVE ProcessesOK'
  BY <1>26 DEF ColdFail
<1>27. ASSUME NEW w \in Workers, Release(w) PROVE ProcessesOK'
  BY <1>27 DEF Release
<1>28. ASSUME NEW w \in Workers, Answer(w) PROVE ProcessesOK'
  BY <1>28 DEF Answer
<1>29. ASSUME BeginShutdown PROVE ProcessesOK'
  BY <1>29 DEF BeginShutdown
<1>30. ASSUME Exit PROVE ProcessesOK'
  BY <1>30 DEF Exit, Joined
<1>31. ASSUME StopAll PROVE ProcessesOK'
  BY <1>31 DEF StopAll, Sigterm, Joined
<1>32. ASSUME StopWait PROVE ProcessesOK'
  BY <1>32 DEF StopWait, Sigkill
<1>33. ASSUME StopUnlink PROVE ProcessesOK'
  BY <1>33 DEF StopUnlink
<1>34. ASSUME Crash PROVE ProcessesOK'
  BY <1>34 DEF Crash
<1>35. ASSUME Start PROVE ProcessesOK'
  BY <1>35 DEF Start
<1>36. ASSUME NEW s \in Conns, SessionEnds(s) PROVE ProcessesOK'
  BY <1>36 DEF SessionEnds
<1>37. ASSUME NEW s \in Conns, SupervisorExits(s) PROVE ProcessesOK'
  BY <1>37 DEF SupervisorExits
<1>38. ASSUME NEW s \in Conns, SupervisorKilled(s) PROVE ProcessesOK'
  BY <1>38 DEF SupervisorKilled
<1>q. QED
  BY <1>1, <1>2, <1>3, <1>4, <1>5, <1>6, <1>7, <1>8, <1>9, <1>10, <1>11, <1>12, <1>13,
     <1>14, <1>15, <1>16, <1>17, <1>18, <1>19, <1>20, <1>21, <1>22, <1>23, <1>24, <1>25,
     <1>26, <1>27, <1>28, <1>29, <1>30, <1>31, <1>32, <1>33, <1>34, <1>35, <1>36, <1>37,
     <1>38
     DEF Next, Accept, Reap, Worker, Handoff, Terminate, Shutdown, Process, Threads

LEMMA ControlStep == ASSUME BaseInv, Next PROVE ControlOK'
<1> USE PoolAssumption DEF PoolAssumption, BaseInv, TypeOK, PcOK, ThreadsOK, TablesOK, ControlOK,
             WorkersGone, Goto, Threads, threadVars, SessionRecord
<1>1. ASSUME NEW c \in Conns, Submit(c) PROVE ControlOK'
  BY <1>1 DEF Submit
<1>2. ASSUME NEW c \in Conns, Refuse(c) PROVE ControlOK'
  BY <1>2 DEF Refuse
<1>3. ASSUME NEW t \in Threads, Scan(t) PROVE ControlOK'
  BY <1>3 DEF Scan, AfterReap
<1>4. ASSUME NEW t \in Threads, SkipUnlink(t) PROVE ControlOK'
  BY <1>4 DEF SkipUnlink
<1>5. ASSUME NEW t \in Threads, ClaimUnlink(t) PROVE ControlOK'
  BY <1>5 DEF ClaimUnlink
<1>6. ASSUME NEW t \in Threads, Unlink(t) PROVE ControlOK'
  BY <1>6 DEF Unlink
<1>7. ASSUME NEW t \in Threads, ProbeRead(t) PROVE ControlOK'
  BY <1>7 DEF ProbeRead, AfterReap
<1>8. ASSUME NEW t \in Threads, ProbeDrop(t) PROVE ControlOK'
  BY <1>8 DEF ProbeDrop, AfterReap
<1>9. ASSUME NEW w \in Workers, Recv(w) PROVE ControlOK'
  <2>1. Head(queue) \in Conns
    BY <1>9 DEF Recv
  <2>2. \/ cur' = cur /\ pc' = pc
        \/ cur' = [cur EXCEPT ![w] = Head(queue)] /\ pc' = [pc EXCEPT ![w] = "latch"]
    BY <1>9 DEF Recv
  <2>3. victim' = victim
    BY <1>9 DEF Recv
  <2>q. QED
    BY <2>1, <2>2, <2>3
<1>10. ASSUME NEW w \in Workers, WorkerExit(w) PROVE ControlOK'
  BY <1>10 DEF WorkerExit
<1>11. ASSUME NEW w \in Workers, Acquire(w) PROVE ControlOK'
  BY <1>11 DEF Acquire
<1>12. ASSUME NEW w \in Workers, Connect(w) PROVE ControlOK'
  BY <1>12 DEF Connect
<1>13. ASSUME NEW w \in Workers, AwaitAccept(w) PROVE ControlOK'
  BY <1>13 DEF AwaitAccept
<1>14. ASSUME NEW w \in Workers, AwaitFail(w) PROVE ControlOK'
  BY <1>14 DEF AwaitFail
<1>15. ASSUME NEW w \in Workers, Lookup(w) PROVE ControlOK'
  BY <1>15 DEF Lookup, Record, Records
<1>16. ASSUME NEW w \in Workers, OwnsCheck(w) PROVE ControlOK'
  BY <1>16 DEF OwnsCheck
<1>17. ASSUME NEW w \in Workers, Take(w) PROVE ControlOK'
  <2>0. {r.started : r \in {q \in Records(UserOf(w)) : q.owned}} \subseteq Conns
    BY DEF Records, SessionRecord
  <2>1. \/ victim' = victim /\ pc' = [pc EXCEPT ![w] = "clear"]
        \/ \E s \in Conns : victim' = [victim EXCEPT ![w] = s] /\ pc' = [pc EXCEPT ![w] = "term"]
    BY <1>17, <2>0 DEF Take
  <2>2. cur' = cur /\ pc[w] = "take"
    BY <1>17 DEF Take
  <2>3. ControlOK!1'
    BY <2>1, <2>2
  <2>4. ControlOK!2'
    BY <2>1, <2>2
  <2>q. QED
    BY <2>3, <2>4
<1>18. ASSUME NEW w \in Workers, TermWait(w) PROVE ControlOK'
  BY <1>18 DEF TermWait
<1>19. ASSUME NEW w \in Workers, TermKill(w) PROVE ControlOK'
  BY <1>19 DEF TermKill, Sigkill
<1>20. ASSUME NEW w \in Workers, Clear(w) PROVE ControlOK'
  BY <1>20 DEF Clear
<1>21. ASSUME NEW w \in Workers, Bind(w) PROVE ControlOK'
  BY <1>21 DEF Bind
<1>22. ASSUME NEW w \in Workers, Spawn(w) PROVE ControlOK'
  BY <1>22 DEF Spawn
<1>23. ASSUME NEW w \in Workers, SpawnFail(w) PROVE ControlOK'
  BY <1>23 DEF SpawnFail
<1>24. ASSUME NEW w \in Workers, Insert(w) PROVE ControlOK'
  BY <1>24 DEF Insert, Record, Records
<1>25. ASSUME NEW w \in Workers, ColdAccept(w) PROVE ControlOK'
  BY <1>25 DEF ColdAccept
<1>26. ASSUME NEW w \in Workers, ColdFail(w) PROVE ControlOK'
  BY <1>26 DEF ColdFail
<1>27. ASSUME NEW w \in Workers, Release(w) PROVE ControlOK'
  BY <1>27 DEF Release
<1>28. ASSUME NEW w \in Workers, Answer(w) PROVE ControlOK'
  BY <1>28 DEF Answer
<1>29. ASSUME BeginShutdown PROVE ControlOK'
  BY <1>29 DEF BeginShutdown
<1>30. ASSUME Exit PROVE ControlOK'
  BY <1>30 DEF Exit, Joined
<1>31. ASSUME StopAll PROVE ControlOK'
  BY <1>31 DEF StopAll, Sigterm, Joined
<1>32. ASSUME StopWait PROVE ControlOK'
  BY <1>32 DEF StopWait, Sigkill
<1>33. ASSUME StopUnlink PROVE ControlOK'
  BY <1>33 DEF StopUnlink
<1>34. ASSUME Crash PROVE ControlOK'
  BY <1>34 DEF Crash
<1>35. ASSUME Start PROVE ControlOK'
  BY <1>35 DEF Start
<1>36. ASSUME NEW s \in Conns, SessionEnds(s) PROVE ControlOK'
  BY <1>36 DEF SessionEnds
<1>37. ASSUME NEW s \in Conns, SupervisorExits(s) PROVE ControlOK'
  BY <1>37 DEF SupervisorExits
<1>38. ASSUME NEW s \in Conns, SupervisorKilled(s) PROVE ControlOK'
  BY <1>38 DEF SupervisorKilled
<1>q. QED
  BY <1>1, <1>2, <1>3, <1>4, <1>5, <1>6, <1>7, <1>8, <1>9, <1>10, <1>11, <1>12, <1>13,
     <1>14, <1>15, <1>16, <1>17, <1>18, <1>19, <1>20, <1>21, <1>22, <1>23, <1>24, <1>25,
     <1>26, <1>27, <1>28, <1>29, <1>30, <1>31, <1>32, <1>33, <1>34, <1>35, <1>36, <1>37,
     <1>38
     DEF Next, Accept, Reap, Worker, Handoff, Terminate, Shutdown, Process, Threads

LEMMA LatchTakenStep == ASSUME BaseInv, Next PROVE LatchTaken'
<1> USE PoolAssumption DEF PoolAssumption, BaseInv, TypeOK, PcOK, ThreadsOK, TablesOK, ControlOK,
             LatchTaken, LatchExclusion, HandoffHolds, ReapHolds, Latched, UserOf, Goto, Threads, threadVars
<1>1. ASSUME NEW c \in Conns, Submit(c) PROVE LatchTaken'
  BY <1>1 DEF Submit
<1>2. ASSUME NEW c \in Conns, Refuse(c) PROVE LatchTaken'
  BY <1>2 DEF Refuse
<1>3. ASSUME NEW t \in Threads, Scan(t) PROVE LatchTaken'
  BY <1>3 DEF Scan, AfterReap
<1>4. ASSUME NEW t \in Threads, SkipUnlink(t) PROVE LatchTaken'
  BY <1>4 DEF SkipUnlink
<1>5. ASSUME NEW t \in Threads, ClaimUnlink(t) PROVE LatchTaken'
  <2>1. PICK r \in ended[t] :
          /\ r.uid \notin busy
          /\ busy' = busy \cup {r.uid}
          /\ victim' = [victim EXCEPT ![t] = r.started]
    BY <1>5 DEF ClaimUnlink
  <2>2. UidOf[r.started] = r.uid
    BY DEF RecordsOK, SessionRecord
  <2>3. cur' = cur /\ pc[t] = "unlink" /\ pc' = [pc EXCEPT ![t] = "unlinking"]
    BY <1>5 DEF ClaimUnlink
  <2>4. r.started \in Conns /\ r.uid \in Uids
    BY DEF SessionRecord
  <2>q. QED
    BY <2>1, <2>2, <2>3, <2>4
<1>6. ASSUME NEW t \in Threads, Unlink(t) PROVE LatchTaken'
  BY <1>6 DEF Unlink
<1>7. ASSUME NEW t \in Threads, ProbeRead(t) PROVE LatchTaken'
  BY <1>7 DEF ProbeRead, AfterReap
<1>8. ASSUME NEW t \in Threads, ProbeDrop(t) PROVE LatchTaken'
  BY <1>8 DEF ProbeDrop, AfterReap
<1>9. ASSUME NEW w \in Workers, Recv(w) PROVE LatchTaken'
  BY SMTT(60), <1>9 DEF Recv
<1>10. ASSUME NEW w \in Workers, WorkerExit(w) PROVE LatchTaken'
  BY <1>10 DEF WorkerExit
<1>11. ASSUME NEW w \in Workers, Acquire(w) PROVE LatchTaken'
  BY <1>11 DEF Acquire
<1>12. ASSUME NEW w \in Workers, Connect(w) PROVE LatchTaken'
  BY <1>12 DEF Connect
<1>13. ASSUME NEW w \in Workers, AwaitAccept(w) PROVE LatchTaken'
  BY <1>13 DEF AwaitAccept
<1>14. ASSUME NEW w \in Workers, AwaitFail(w) PROVE LatchTaken'
  BY <1>14 DEF AwaitFail
<1>15. ASSUME NEW w \in Workers, Lookup(w) PROVE LatchTaken'
  BY <1>15 DEF Lookup, Record, Records
<1>16. ASSUME NEW w \in Workers, OwnsCheck(w) PROVE LatchTaken'
  BY <1>16 DEF OwnsCheck
<1>17. ASSUME NEW w \in Workers, Take(w) PROVE LatchTaken'
  BY <1>17 DEF Take, Records, Sigterm
<1>18. ASSUME NEW w \in Workers, TermWait(w) PROVE LatchTaken'
  BY <1>18 DEF TermWait
<1>19. ASSUME NEW w \in Workers, TermKill(w) PROVE LatchTaken'
  BY <1>19 DEF TermKill, Sigkill
<1>20. ASSUME NEW w \in Workers, Clear(w) PROVE LatchTaken'
  BY <1>20 DEF Clear
<1>21. ASSUME NEW w \in Workers, Bind(w) PROVE LatchTaken'
  BY <1>21 DEF Bind
<1>22. ASSUME NEW w \in Workers, Spawn(w) PROVE LatchTaken'
  BY <1>22 DEF Spawn
<1>23. ASSUME NEW w \in Workers, SpawnFail(w) PROVE LatchTaken'
  BY <1>23 DEF SpawnFail
<1>24. ASSUME NEW w \in Workers, Insert(w) PROVE LatchTaken'
  BY <1>24 DEF Insert, Record, Records
<1>25. ASSUME NEW w \in Workers, ColdAccept(w) PROVE LatchTaken'
  BY <1>25 DEF ColdAccept
<1>26. ASSUME NEW w \in Workers, ColdFail(w) PROVE LatchTaken'
  BY <1>26 DEF ColdFail
<1>27. ASSUME NEW w \in Workers, Release(w) PROVE LatchTaken'
  BY <1>27 DEF Release
<1>28. ASSUME NEW w \in Workers, Answer(w) PROVE LatchTaken'
  BY <1>28 DEF Answer
<1>29. ASSUME BeginShutdown PROVE LatchTaken'
  BY <1>29 DEF BeginShutdown
<1>30. ASSUME Exit PROVE LatchTaken'
  BY <1>30 DEF Exit, Joined
<1>31. ASSUME StopAll PROVE LatchTaken'
  BY <1>31 DEF StopAll, Sigterm, Joined
<1>32. ASSUME StopWait PROVE LatchTaken'
  BY <1>32 DEF StopWait, Sigkill
<1>33. ASSUME StopUnlink PROVE LatchTaken'
  BY <1>33 DEF StopUnlink
<1>34. ASSUME Crash PROVE LatchTaken'
  BY <1>34 DEF Crash
<1>35. ASSUME Start PROVE LatchTaken'
  BY <1>35 DEF Start
<1>36. ASSUME NEW s \in Conns, SessionEnds(s) PROVE LatchTaken'
  BY <1>36 DEF SessionEnds
<1>37. ASSUME NEW s \in Conns, SupervisorExits(s) PROVE LatchTaken'
  BY <1>37 DEF SupervisorExits
<1>38. ASSUME NEW s \in Conns, SupervisorKilled(s) PROVE LatchTaken'
  BY <1>38 DEF SupervisorKilled
<1>q. QED
  BY <1>1, <1>2, <1>3, <1>4, <1>5, <1>6, <1>7, <1>8, <1>9, <1>10, <1>11, <1>12, <1>13,
     <1>14, <1>15, <1>16, <1>17, <1>18, <1>19, <1>20, <1>21, <1>22, <1>23, <1>24, <1>25,
     <1>26, <1>27, <1>28, <1>29, <1>30, <1>31, <1>32, <1>33, <1>34, <1>35, <1>36, <1>37,
     <1>38
     DEF Next, Accept, Reap, Worker, Handoff, Terminate, Shutdown, Process, Threads

(* A holder that moves on without letting go changes nobody's latch.        *)
LEMMA LatchKept ==
  ASSUME BaseInv, NEW w \in Workers, pc[w] \in Latched, NEW l \in Latched \ {"unlinking"},
         pc' = [pc EXCEPT ![w] = l], cur' = cur,
         \A t \in Threads : t # w => victim'[t] = victim[t]
  PROVE  LatchExclusion'
  BY PoolAssumption DEF PoolAssumption, BaseInv, TypeOK, PcOK, ThreadsOK, TablesOK, ControlOK,
             LatchTaken, LatchExclusion, HandoffHolds, ReapHolds, Latched, UserOf, Goto, Threads, threadVars

(* So does a step after which every holder held before it.                  *)
LEMMA LatchShrinks ==
  ASSUME LatchExclusion,
         \A v \in Workers : \A u : HandoffHolds(v, u)' => HandoffHolds(v, u),
         \A t \in Threads : \A u : ReapHolds(t, u)' => ReapHolds(t, u)
  PROVE  LatchExclusion'
  BY SMTT(60) DEF LatchExclusion

LEMMA LatchExclusionStep == ASSUME BaseInv, Next PROVE LatchExclusion'
<1> USE PoolAssumption DEF PoolAssumption, BaseInv, TypeOK, PcOK, ThreadsOK, TablesOK, ControlOK,
             LatchTaken, LatchExclusion, HandoffHolds, ReapHolds, Latched, UserOf, Goto, Threads, threadVars
<1>1. ASSUME NEW c \in Conns, Submit(c) PROVE LatchExclusion'
  BY <1>1 DEF Submit
<1>2. ASSUME NEW c \in Conns, Refuse(c) PROVE LatchExclusion'
  BY <1>2 DEF Refuse
<1>3. ASSUME NEW t \in Threads, Scan(t) PROVE LatchExclusion'
  BY <1>3 DEF Scan, AfterReap
<1>4. ASSUME NEW t \in Threads, SkipUnlink(t) PROVE LatchExclusion'
  BY <1>4 DEF SkipUnlink
<1>5. ASSUME NEW t \in Threads, ClaimUnlink(t) PROVE LatchExclusion'
  <2>1. PICK r \in ended[t] :
          /\ r.uid \notin busy
          /\ busy' = busy \cup {r.uid}
          /\ victim' = [victim EXCEPT ![t] = r.started]
    BY <1>5 DEF ClaimUnlink
  <2>2. UidOf[r.started] = r.uid
    BY DEF RecordsOK, SessionRecord
  <2>3. cur' = cur /\ pc[t] = "unlink" /\ pc' = [pc EXCEPT ![t] = "unlinking"]
    BY <1>5 DEF ClaimUnlink
  <2>4. r.started \in Conns /\ r.uid \in Uids
    BY DEF SessionRecord
  <2>q. QED
    BY <2>1, <2>2, <2>3, <2>4
<1>6. ASSUME NEW t \in Threads, Unlink(t) PROVE LatchExclusion'
  BY <1>6 DEF Unlink
<1>7. ASSUME NEW t \in Threads, ProbeRead(t) PROVE LatchExclusion'
  BY <1>7 DEF ProbeRead, AfterReap
<1>8. ASSUME NEW t \in Threads, ProbeDrop(t) PROVE LatchExclusion'
  BY <1>8 DEF ProbeDrop, AfterReap
<1>9. ASSUME NEW w \in Workers, Recv(w) PROVE LatchExclusion'
  <2>1. /\ \A v \in Workers : pc'[v] \in Latched => pc[v] = pc'[v] /\ v # w
        /\ \A t \in Threads : pc'[t] = "unlinking" => pc[t] = "unlinking"
    BY <1>9 DEF Recv
  <2>2. (\A v \in Workers : v # w => cur'[v] = cur[v]) /\ victim' = victim
    BY <1>9 DEF Recv
  <2>3. \A v \in Workers : \A u : HandoffHolds(v, u)' => HandoffHolds(v, u)
    BY <2>1, <2>2
  <2>4. \A t \in Threads : \A u : ReapHolds(t, u)' => ReapHolds(t, u)
    BY <2>1, <2>2
  <2>q. QED
    BY <2>3, <2>4, LatchShrinks
<1>10. ASSUME NEW w \in Workers, WorkerExit(w) PROVE LatchExclusion'
  BY <1>10 DEF WorkerExit
<1>11. ASSUME NEW w \in Workers, Acquire(w) PROVE LatchExclusion'
  BY <1>11 DEF Acquire
<1>12. ASSUME NEW w \in Workers, Connect(w) PROVE LatchExclusion'
  <2>1. \E l \in Latched \ {"unlinking"} : pc' = [pc EXCEPT ![w] = l]
    BY <1>12 DEF Connect
  <2>2. pc[w] = "connect" /\ cur' = cur /\ \A t \in Threads : t # w => victim'[t] = victim[t]
    BY <1>12 DEF Connect
  <2>q. QED
    BY <2>1, <2>2, LatchKept
<1>13. ASSUME NEW w \in Workers, AwaitAccept(w) PROVE LatchExclusion'
  BY <1>13 DEF AwaitAccept
<1>14. ASSUME NEW w \in Workers, AwaitFail(w) PROVE LatchExclusion'
  BY <1>14 DEF AwaitFail
<1>15. ASSUME NEW w \in Workers, Lookup(w) PROVE LatchExclusion'
  BY <1>15 DEF Lookup, Record, Records
<1>16. ASSUME NEW w \in Workers, OwnsCheck(w) PROVE LatchExclusion'
  BY <1>16 DEF OwnsCheck
<1>17. ASSUME NEW w \in Workers, Take(w) PROVE LatchExclusion'
  <2>1. \E l \in Latched \ {"unlinking"} : pc' = [pc EXCEPT ![w] = l]
    BY <1>17 DEF Take
  <2>2. pc[w] = "take" /\ cur' = cur /\ \A t \in Threads : t # w => victim'[t] = victim[t]
    BY <1>17 DEF Take
  <2>q. QED
    BY <2>1, <2>2, LatchKept
<1>18. ASSUME NEW w \in Workers, TermWait(w) PROVE LatchExclusion'
  BY <1>18 DEF TermWait
<1>19. ASSUME NEW w \in Workers, TermKill(w) PROVE LatchExclusion'
  BY <1>19 DEF TermKill, Sigkill
<1>20. ASSUME NEW w \in Workers, Clear(w) PROVE LatchExclusion'
  BY <1>20 DEF Clear
<1>21. ASSUME NEW w \in Workers, Bind(w) PROVE LatchExclusion'
  <2>1. \E l \in Latched \ {"unlinking"} : pc' = [pc EXCEPT ![w] = l]
    BY <1>21 DEF Bind
  <2>2. pc[w] = "bind" /\ cur' = cur /\ \A t \in Threads : t # w => victim'[t] = victim[t]
    BY <1>21 DEF Bind
  <2>q. QED
    BY <2>1, <2>2, LatchKept
<1>22. ASSUME NEW w \in Workers, Spawn(w) PROVE LatchExclusion'
  BY <1>22 DEF Spawn
<1>23. ASSUME NEW w \in Workers, SpawnFail(w) PROVE LatchExclusion'
  BY <1>23 DEF SpawnFail
<1>24. ASSUME NEW w \in Workers, Insert(w) PROVE LatchExclusion'
  BY <1>24 DEF Insert, Record, Records
<1>25. ASSUME NEW w \in Workers, ColdAccept(w) PROVE LatchExclusion'
  BY <1>25 DEF ColdAccept
<1>26. ASSUME NEW w \in Workers, ColdFail(w) PROVE LatchExclusion'
  BY <1>26 DEF ColdFail
<1>27. ASSUME NEW w \in Workers, Release(w) PROVE LatchExclusion'
  BY <1>27 DEF Release
<1>28. ASSUME NEW w \in Workers, Answer(w) PROVE LatchExclusion'
  BY <1>28 DEF Answer
<1>29. ASSUME BeginShutdown PROVE LatchExclusion'
  BY <1>29 DEF BeginShutdown
<1>30. ASSUME Exit PROVE LatchExclusion'
  BY <1>30 DEF Exit, Joined
<1>31. ASSUME StopAll PROVE LatchExclusion'
  BY <1>31 DEF StopAll, Sigterm, Joined
<1>32. ASSUME StopWait PROVE LatchExclusion'
  BY <1>32 DEF StopWait, Sigkill
<1>33. ASSUME StopUnlink PROVE LatchExclusion'
  BY <1>33 DEF StopUnlink
<1>34. ASSUME Crash PROVE LatchExclusion'
  BY <1>34 DEF Crash
<1>35. ASSUME Start PROVE LatchExclusion'
  BY <1>35 DEF Start
<1>36. ASSUME NEW s \in Conns, SessionEnds(s) PROVE LatchExclusion'
  BY <1>36 DEF SessionEnds
<1>37. ASSUME NEW s \in Conns, SupervisorExits(s) PROVE LatchExclusion'
  BY <1>37 DEF SupervisorExits
<1>38. ASSUME NEW s \in Conns, SupervisorKilled(s) PROVE LatchExclusion'
  BY <1>38 DEF SupervisorKilled
<1>q. QED
  BY <1>1, <1>2, <1>3, <1>4, <1>5, <1>6, <1>7, <1>8, <1>9, <1>10, <1>11, <1>12, <1>13,
     <1>14, <1>15, <1>16, <1>17, <1>18, <1>19, <1>20, <1>21, <1>22, <1>23, <1>24, <1>25,
     <1>26, <1>27, <1>28, <1>29, <1>30, <1>31, <1>32, <1>33, <1>34, <1>35, <1>36, <1>37,
     <1>38
     DEF Next, Accept, Reap, Worker, Handoff, Terminate, Shutdown, Process, Threads

LEMMA WorkersGoneStep == ASSUME BaseInv, Next PROVE WorkersGone'
<1> USE PoolAssumption DEF PoolAssumption, BaseInv, TypeOK, PcOK, WorkersGone, Joined, Goto, Threads
<1>1. ASSUME NEW c \in Conns, Submit(c) PROVE WorkersGone'
  BY <1>1 DEF Submit
<1>2. ASSUME NEW c \in Conns, Refuse(c) PROVE WorkersGone'
  BY <1>2 DEF Refuse
<1>3. ASSUME NEW t \in Threads, Scan(t) PROVE WorkersGone'
  BY <1>3 DEF Scan, AfterReap
<1>4. ASSUME NEW t \in Threads, SkipUnlink(t) PROVE WorkersGone'
  BY <1>4 DEF SkipUnlink
<1>5. ASSUME NEW t \in Threads, ClaimUnlink(t) PROVE WorkersGone'
  BY <1>5 DEF ClaimUnlink
<1>6. ASSUME NEW t \in Threads, Unlink(t) PROVE WorkersGone'
  BY <1>6 DEF Unlink
<1>7. ASSUME NEW t \in Threads, ProbeRead(t) PROVE WorkersGone'
  BY <1>7 DEF ProbeRead, AfterReap
<1>8. ASSUME NEW t \in Threads, ProbeDrop(t) PROVE WorkersGone'
  BY <1>8 DEF ProbeDrop, AfterReap
<1>9. ASSUME NEW w \in Workers, Recv(w) PROVE WorkersGone'
  BY <1>9 DEF Recv
<1>10. ASSUME NEW w \in Workers, WorkerExit(w) PROVE WorkersGone'
  BY <1>10 DEF WorkerExit
<1>11. ASSUME NEW w \in Workers, Acquire(w) PROVE WorkersGone'
  BY <1>11 DEF Acquire
<1>12. ASSUME NEW w \in Workers, Connect(w) PROVE WorkersGone'
  BY <1>12 DEF Connect
<1>13. ASSUME NEW w \in Workers, AwaitAccept(w) PROVE WorkersGone'
  BY <1>13 DEF AwaitAccept
<1>14. ASSUME NEW w \in Workers, AwaitFail(w) PROVE WorkersGone'
  BY <1>14 DEF AwaitFail
<1>15. ASSUME NEW w \in Workers, Lookup(w) PROVE WorkersGone'
  BY <1>15 DEF Lookup, Record, Records
<1>16. ASSUME NEW w \in Workers, OwnsCheck(w) PROVE WorkersGone'
  BY <1>16 DEF OwnsCheck
<1>17. ASSUME NEW w \in Workers, Take(w) PROVE WorkersGone'
  BY <1>17 DEF Take, Records, Sigterm
<1>18. ASSUME NEW w \in Workers, TermWait(w) PROVE WorkersGone'
  BY <1>18 DEF TermWait
<1>19. ASSUME NEW w \in Workers, TermKill(w) PROVE WorkersGone'
  BY <1>19 DEF TermKill, Sigkill
<1>20. ASSUME NEW w \in Workers, Clear(w) PROVE WorkersGone'
  BY <1>20 DEF Clear
<1>21. ASSUME NEW w \in Workers, Bind(w) PROVE WorkersGone'
  BY <1>21 DEF Bind
<1>22. ASSUME NEW w \in Workers, Spawn(w) PROVE WorkersGone'
  BY <1>22 DEF Spawn
<1>23. ASSUME NEW w \in Workers, SpawnFail(w) PROVE WorkersGone'
  BY <1>23 DEF SpawnFail
<1>24. ASSUME NEW w \in Workers, Insert(w) PROVE WorkersGone'
  BY <1>24 DEF Insert, Record, Records
<1>25. ASSUME NEW w \in Workers, ColdAccept(w) PROVE WorkersGone'
  BY <1>25 DEF ColdAccept
<1>26. ASSUME NEW w \in Workers, ColdFail(w) PROVE WorkersGone'
  BY <1>26 DEF ColdFail
<1>27. ASSUME NEW w \in Workers, Release(w) PROVE WorkersGone'
  BY <1>27 DEF Release
<1>28. ASSUME NEW w \in Workers, Answer(w) PROVE WorkersGone'
  BY <1>28 DEF Answer
<1>29. ASSUME BeginShutdown PROVE WorkersGone'
  BY <1>29 DEF BeginShutdown
<1>30. ASSUME Exit PROVE WorkersGone'
  BY <1>30 DEF Exit, Joined
<1>31. ASSUME StopAll PROVE WorkersGone'
  BY <1>31 DEF StopAll, Sigterm, Joined
<1>32. ASSUME StopWait PROVE WorkersGone'
  BY <1>32 DEF StopWait, Sigkill
<1>33. ASSUME StopUnlink PROVE WorkersGone'
  BY <1>33 DEF StopUnlink
<1>34. ASSUME Crash PROVE WorkersGone'
  BY <1>34 DEF Crash
<1>35. ASSUME Start PROVE WorkersGone'
  BY <1>35 DEF Start
<1>36. ASSUME NEW s \in Conns, SessionEnds(s) PROVE WorkersGone'
  BY <1>36 DEF SessionEnds
<1>37. ASSUME NEW s \in Conns, SupervisorExits(s) PROVE WorkersGone'
  BY <1>37 DEF SupervisorExits
<1>38. ASSUME NEW s \in Conns, SupervisorKilled(s) PROVE WorkersGone'
  BY <1>38 DEF SupervisorKilled
<1>q. QED
  BY <1>1, <1>2, <1>3, <1>4, <1>5, <1>6, <1>7, <1>8, <1>9, <1>10, <1>11, <1>12, <1>13,
     <1>14, <1>15, <1>16, <1>17, <1>18, <1>19, <1>20, <1>21, <1>22, <1>23, <1>24, <1>25,
     <1>26, <1>27, <1>28, <1>29, <1>30, <1>31, <1>32, <1>33, <1>34, <1>35, <1>36, <1>37,
     <1>38
     DEF Next, Accept, Reap, Worker, Handoff, Terminate, Shutdown, Process, Threads

LEMMA NameHeldStep == ASSUME BaseInv, Next PROVE NameHeld'
<1> USE PoolAssumption DEF PoolAssumption, BaseInv, TypeOK, PcOK, ThreadsOK, ProcessesOK, ControlOK, NameHeld,
             LatchExclusion, HandoffHolds, ReapHolds, Latched, WorkersGone, UserOf, Goto, Threads, threadVars, procVars
<1>1. ASSUME NEW c \in Conns, Submit(c) PROVE NameHeld'
  BY <1>1 DEF Submit
<1>2. ASSUME NEW c \in Conns, Refuse(c) PROVE NameHeld'
  BY <1>2 DEF Refuse
<1>3. ASSUME NEW t \in Threads, Scan(t) PROVE NameHeld'
  BY <1>3 DEF Scan, AfterReap
<1>4. ASSUME NEW t \in Threads, SkipUnlink(t) PROVE NameHeld'
  BY <1>4 DEF SkipUnlink
<1>5. ASSUME NEW t \in Threads, ClaimUnlink(t) PROVE NameHeld'
  BY <1>5 DEF ClaimUnlink
<1>6. ASSUME NEW t \in Threads, Unlink(t) PROVE NameHeld'
  BY <1>6 DEF Unlink
<1>7. ASSUME NEW t \in Threads, ProbeRead(t) PROVE NameHeld'
  BY <1>7 DEF ProbeRead, AfterReap
<1>8. ASSUME NEW t \in Threads, ProbeDrop(t) PROVE NameHeld'
  BY <1>8 DEF ProbeDrop, AfterReap
<1>9. ASSUME NEW w \in Workers, Recv(w) PROVE NameHeld'
  BY <1>9 DEF Recv
<1>10. ASSUME NEW w \in Workers, WorkerExit(w) PROVE NameHeld'
  BY <1>10 DEF WorkerExit
<1>11. ASSUME NEW w \in Workers, Acquire(w) PROVE NameHeld'
  BY <1>11 DEF Acquire
<1>12. ASSUME NEW w \in Workers, Connect(w) PROVE NameHeld'
  BY <1>12 DEF Connect
<1>13. ASSUME NEW w \in Workers, AwaitAccept(w) PROVE NameHeld'
  BY <1>13 DEF AwaitAccept
<1>14. ASSUME NEW w \in Workers, AwaitFail(w) PROVE NameHeld'
  BY <1>14 DEF AwaitFail
<1>15. ASSUME NEW w \in Workers, Lookup(w) PROVE NameHeld'
  BY <1>15 DEF Lookup, Record, Records
<1>16. ASSUME NEW w \in Workers, OwnsCheck(w) PROVE NameHeld'
  BY <1>16 DEF OwnsCheck
<1>17. ASSUME NEW w \in Workers, Take(w) PROVE NameHeld'
  BY <1>17 DEF Take, Records, Sigterm
<1>18. ASSUME NEW w \in Workers, TermWait(w) PROVE NameHeld'
  BY <1>18 DEF TermWait
<1>19. ASSUME NEW w \in Workers, TermKill(w) PROVE NameHeld'
  BY <1>19 DEF TermKill, Sigkill
<1>20. ASSUME NEW w \in Workers, Clear(w) PROVE NameHeld'
  BY <1>20 DEF Clear
<1>21. ASSUME NEW w \in Workers, Bind(w) PROVE NameHeld'
  BY <1>21 DEF Bind
<1>22. ASSUME NEW w \in Workers, Spawn(w) PROVE NameHeld'
  BY <1>22 DEF Spawn
<1>23. ASSUME NEW w \in Workers, SpawnFail(w) PROVE NameHeld'
  BY <1>23 DEF SpawnFail
<1>24. ASSUME NEW w \in Workers, Insert(w) PROVE NameHeld'
  BY <1>24 DEF Insert, Record, Records
<1>25. ASSUME NEW w \in Workers, ColdAccept(w) PROVE NameHeld'
  BY <1>25 DEF ColdAccept
<1>26. ASSUME NEW w \in Workers, ColdFail(w) PROVE NameHeld'
  BY <1>26 DEF ColdFail
<1>27. ASSUME NEW w \in Workers, Release(w) PROVE NameHeld'
  BY <1>27 DEF Release
<1>28. ASSUME NEW w \in Workers, Answer(w) PROVE NameHeld'
  BY <1>28 DEF Answer
<1>29. ASSUME BeginShutdown PROVE NameHeld'
  BY <1>29 DEF BeginShutdown
<1>30. ASSUME Exit PROVE NameHeld'
  BY <1>30 DEF Exit, Joined
<1>31. ASSUME StopAll PROVE NameHeld'
  BY <1>31 DEF StopAll, Sigterm, Joined
<1>32. ASSUME StopWait PROVE NameHeld'
  BY <1>32 DEF StopWait, Sigkill
<1>33. ASSUME StopUnlink PROVE NameHeld'
  BY <1>33 DEF StopUnlink
<1>34. ASSUME Crash PROVE NameHeld'
  BY <1>34 DEF Crash
<1>35. ASSUME Start PROVE NameHeld'
  BY <1>35 DEF Start
<1>36. ASSUME NEW s \in Conns, SessionEnds(s) PROVE NameHeld'
  BY <1>36 DEF SessionEnds
<1>37. ASSUME NEW s \in Conns, SupervisorExits(s) PROVE NameHeld'
  BY <1>37 DEF SupervisorExits
<1>38. ASSUME NEW s \in Conns, SupervisorKilled(s) PROVE NameHeld'
  BY <1>38 DEF SupervisorKilled
<1>q. QED
  BY <1>1, <1>2, <1>3, <1>4, <1>5, <1>6, <1>7, <1>8, <1>9, <1>10, <1>11, <1>12, <1>13,
     <1>14, <1>15, <1>16, <1>17, <1>18, <1>19, <1>20, <1>21, <1>22, <1>23, <1>24, <1>25,
     <1>26, <1>27, <1>28, <1>29, <1>30, <1>31, <1>32, <1>33, <1>34, <1>35, <1>36, <1>37,
     <1>38
     DEF Next, Accept, Reap, Worker, Handoff, Terminate, Shutdown, Process, Threads

LEMMA RecordsStep == ASSUME BaseInv, Next PROVE RecordsOK'
<1> USE PoolAssumption DEF PoolAssumption, BaseInv, TypeOK, PcOK, ThreadsOK, TablesOK, ControlOK, RecordsOK,
             Goto, UserOf, Threads, threadVars
<1>1. ASSUME NEW c \in Conns, Submit(c) PROVE RecordsOK'
  BY <1>1 DEF Submit
<1>2. ASSUME NEW c \in Conns, Refuse(c) PROVE RecordsOK'
  BY <1>2 DEF Refuse
<1>3. ASSUME NEW t \in Threads, Scan(t) PROVE RecordsOK'
  BY <1>3 DEF Scan, AfterReap
<1>4. ASSUME NEW t \in Threads, SkipUnlink(t) PROVE RecordsOK'
  BY <1>4 DEF SkipUnlink
<1>5. ASSUME NEW t \in Threads, ClaimUnlink(t) PROVE RecordsOK'
  BY <1>5 DEF ClaimUnlink
<1>6. ASSUME NEW t \in Threads, Unlink(t) PROVE RecordsOK'
  BY <1>6 DEF Unlink
<1>7. ASSUME NEW t \in Threads, ProbeRead(t) PROVE RecordsOK'
  BY <1>7 DEF ProbeRead, AfterReap
<1>8. ASSUME NEW t \in Threads, ProbeDrop(t) PROVE RecordsOK'
  BY <1>8 DEF ProbeDrop, AfterReap
<1>9. ASSUME NEW w \in Workers, Recv(w) PROVE RecordsOK'
  BY <1>9 DEF Recv
<1>10. ASSUME NEW w \in Workers, WorkerExit(w) PROVE RecordsOK'
  BY <1>10 DEF WorkerExit
<1>11. ASSUME NEW w \in Workers, Acquire(w) PROVE RecordsOK'
  BY <1>11 DEF Acquire
<1>12. ASSUME NEW w \in Workers, Connect(w) PROVE RecordsOK'
  BY <1>12 DEF Connect
<1>13. ASSUME NEW w \in Workers, AwaitAccept(w) PROVE RecordsOK'
  BY <1>13 DEF AwaitAccept
<1>14. ASSUME NEW w \in Workers, AwaitFail(w) PROVE RecordsOK'
  BY <1>14 DEF AwaitFail
<1>15. ASSUME NEW w \in Workers, Lookup(w) PROVE RecordsOK'
  BY <1>15 DEF Lookup, Record, Records
<1>16. ASSUME NEW w \in Workers, OwnsCheck(w) PROVE RecordsOK'
  BY <1>16 DEF OwnsCheck
<1>17. ASSUME NEW w \in Workers, Take(w) PROVE RecordsOK'
  BY <1>17 DEF Take, Records, Sigterm
<1>18. ASSUME NEW w \in Workers, TermWait(w) PROVE RecordsOK'
  BY <1>18 DEF TermWait
<1>19. ASSUME NEW w \in Workers, TermKill(w) PROVE RecordsOK'
  BY <1>19 DEF TermKill, Sigkill
<1>20. ASSUME NEW w \in Workers, Clear(w) PROVE RecordsOK'
  BY <1>20 DEF Clear
<1>21. ASSUME NEW w \in Workers, Bind(w) PROVE RecordsOK'
  BY <1>21 DEF Bind
<1>22. ASSUME NEW w \in Workers, Spawn(w) PROVE RecordsOK'
  BY <1>22 DEF Spawn
<1>23. ASSUME NEW w \in Workers, SpawnFail(w) PROVE RecordsOK'
  BY <1>23 DEF SpawnFail
<1>24. ASSUME NEW w \in Workers, Insert(w) PROVE RecordsOK'
  BY <1>24 DEF Insert, Record, Records
<1>25. ASSUME NEW w \in Workers, ColdAccept(w) PROVE RecordsOK'
  BY <1>25 DEF ColdAccept
<1>26. ASSUME NEW w \in Workers, ColdFail(w) PROVE RecordsOK'
  BY <1>26 DEF ColdFail
<1>27. ASSUME NEW w \in Workers, Release(w) PROVE RecordsOK'
  BY <1>27 DEF Release
<1>28. ASSUME NEW w \in Workers, Answer(w) PROVE RecordsOK'
  BY <1>28 DEF Answer
<1>29. ASSUME BeginShutdown PROVE RecordsOK'
  BY <1>29 DEF BeginShutdown
<1>30. ASSUME Exit PROVE RecordsOK'
  BY <1>30 DEF Exit, Joined
<1>31. ASSUME StopAll PROVE RecordsOK'
  BY <1>31 DEF StopAll, Sigterm, Joined
<1>32. ASSUME StopWait PROVE RecordsOK'
  BY <1>32 DEF StopWait, Sigkill
<1>33. ASSUME StopUnlink PROVE RecordsOK'
  BY <1>33 DEF StopUnlink
<1>34. ASSUME Crash PROVE RecordsOK'
  BY <1>34 DEF Crash
<1>35. ASSUME Start PROVE RecordsOK'
  BY <1>35 DEF Start
<1>36. ASSUME NEW s \in Conns, SessionEnds(s) PROVE RecordsOK'
  BY <1>36 DEF SessionEnds
<1>37. ASSUME NEW s \in Conns, SupervisorExits(s) PROVE RecordsOK'
  BY <1>37 DEF SupervisorExits
<1>38. ASSUME NEW s \in Conns, SupervisorKilled(s) PROVE RecordsOK'
  BY <1>38 DEF SupervisorKilled
<1>q. QED
  BY <1>1, <1>2, <1>3, <1>4, <1>5, <1>6, <1>7, <1>8, <1>9, <1>10, <1>11, <1>12, <1>13,
     <1>14, <1>15, <1>16, <1>17, <1>18, <1>19, <1>20, <1>21, <1>22, <1>23, <1>24, <1>25,
     <1>26, <1>27, <1>28, <1>29, <1>30, <1>31, <1>32, <1>33, <1>34, <1>35, <1>36, <1>37,
     <1>38
     DEF Next, Accept, Reap, Worker, Handoff, Terminate, Shutdown, Process, Threads

LEMMA InitBase == Init => BaseInv
<1> SUFFICES ASSUME Init PROVE BaseInv
  OBVIOUS
<1> USE PoolAssumption DEF PoolAssumption, Init, Threads
<1>1. PcOK
  BY DEF PcOK, WorkerPC, MainPC
<1>2. ThreadsOK
  BY DEF ThreadsOK
<1>3. TablesOK
  <2>1. queue \in Seq(Conns) /\ restarts \in 0..MaxRestarts
    OBVIOUS
  <2>2. inFlight \in [Uids -> Int]
    OBVIOUS
  <2>3. conn \in [Conns -> {"new", "pending", "handed", "rejected", "closed"}]
    OBVIOUS
  <2>q. QED
    BY <2>1, <2>2, <2>3 DEF TablesOK
<1>4. ProcessesOK
  BY DEF ProcessesOK
<1>5. ControlOK /\ RecordsOK /\ WorkersGone
  BY DEF ControlOK, RecordsOK, WorkersGone
<1>6. LatchTaken /\ NameHeld
  BY DEF LatchTaken, NameHeld, Latched
<1>7. LatchExclusion
  BY DEF LatchExclusion, HandoffHolds, ReapHolds, Latched
<1>q. QED
  BY <1>1, <1>2, <1>3, <1>4, <1>5, <1>6, <1>7 DEF BaseInv, TypeOK

LEMMA BaseStutter == ASSUME BaseInv, UNCHANGED vars PROVE BaseInv'
<1> USE DEF BaseInv, vars, threadVars, poolVars, procVars, histVars, lifeVars
<1>1. TypeOK'
  BY DEF TypeOK, PcOK, ThreadsOK, TablesOK, ProcessesOK
<1>2. ControlOK' /\ LatchTaken' /\ WorkersGone' /\ NameHeld' /\ RecordsOK'
  BY DEF ControlOK, LatchTaken, WorkersGone, NameHeld, RecordsOK, UserOf
<1>3. LatchExclusion'
  BY DEF LatchExclusion, HandoffHolds, ReapHolds, UserOf
<1>q. QED
  BY <1>1, <1>2, <1>3

LEMMA BaseStep == ASSUME BaseInv, [Next]_vars PROVE BaseInv'
<1>1. CASE Next
  BY <1>1, PcStep, ThreadsStep, TablesStep, ProcessesStep, ControlStep, LatchTakenStep,
     LatchExclusionStep, WorkersGoneStep, NameHeldStep, RecordsStep DEF BaseInv, TypeOK
<1>2. CASE UNCHANGED vars
  BY <1>2, BaseStutter
<1>q. QED
  BY <1>1, <1>2

THEOREM Base == Spec => []BaseInv
  BY InitBase, BaseStep, PTL DEF Spec

(* The types of the state, whatever the threads and processes do.           *)
THEOREM Typing == Spec => []TypeOK
<1>1. BaseInv => TypeOK
  BY DEF BaseInv
<1>q. QED
  BY <1>1, Base, PTL

(* Starts gives each uid's latch to one holder at a time, handoff or reap.  *)
THEOREM OneLatchHolder == Spec => []LatchExclusion
<1>1. BaseInv => LatchExclusion
  BY DEF BaseInv
<1>q. QED
  BY <1>1, Base, PTL

-----------------------------------------------------------------------------
(***************************************************************************)
(* That the daemon never loses a desktop: neither the name it is reached   *)
(* by, nor the record shutdown finds it by. Two layers of invariants sit    *)
(* on BaseInv: whose connection, session and record is whose (IdInv), and  *)
(* what is known of the desktop behind a name where the code takes the     *)
(* record out, unlinks the name or binds it anew (DeskInv). A third,       *)
(* LedgerInv, gives what the daemon's table promises: a session it serves  *)
(* stays on record, one of its own ends with stop_all, one of an earlier   *)
(* daemon's keeps its name, and no path keeps a place in the pool or a     *)
(* latch.                                                                  *)
(***************************************************************************)

(* Every connection is one job: it is in the channel once, on one worker,   *)
(* or in neither, and only after it was submitted.                          *)
Queued(c) == \E i \in DOMAIN queue : queue[i] = c

JobsOK ==
  /\ \A i, j \in DOMAIN queue : queue[i] = queue[j] => i = j
  /\ \A v, w \in Workers : cur[v] = cur[w] /\ cur[v] # None => v = w
  /\ \A w \in Workers : cur[w] # None => ~Queued(cur[w])
  /\ \A c \in Conns : conn[c] = "new" => ~InPool(c)

(* A worker that has not bound a name yet for its job.                      *)
PreBind == {"latch", "scan", "unlink", "unlinking", "probed", "connect", "await", "lookup",
            "owns", "bind"}

(* A connection has a session only once its worker has bound a name for it. *)
FreshOK ==
  /\ \A c \in Conns : conn[c] = "new" \/ Queued(c) => sess[c] = "none"
  /\ \A w \in Workers : pc[w] \in PreBind => sess[cur[w]] = "none"
  /\ \A s \in mine : sess[s] # "none"

(* A connection for which no session will ever be spawned by this daemon.   *)
Retired(c) ==
  /\ conn[c] # "new" /\ ~Queued(c) /\ c \notin mine
  /\ \A w \in Workers : cur[w] = c => pc[w] \in {"release", "answer"}

(* The record of an adopted session is named by a connection that is done,  *)
(* so a copied record is never mistaken for that of a session spawned since. *)
AdoptersOK ==
  /\ \A r \in sessions : ~r.owned => Retired(r.started)
  /\ \A t \in Threads : \A r \in copies[t] : ~r.owned /\ Retired(r.started)

(* What a thread took out of the table it took out of this daemon's.        *)
ReapOK ==
  /\ \A t \in Threads : pc[t] \notin {"unlink", "unlinking", "probed"} => copies[t] = {}
  /\ \A t \in Threads :
       pc[t] \notin {"unlink", "unlinking", "stopwait", "stopunlink"} => ended[t] = {}
  /\ \A r \in sessions : r.owned => r.started \in mine \/ pc[Main] = "down"
  /\ \A t \in Threads : \A r \in ended[t] : r.started \in mine
  /\ \A w \in Workers : pc[w] \in {"insert", "cold"} => cur[w] \in mine

IdInv == JobsOK /\ FreshOK /\ AdoptersOK /\ ReapOK

KeptAt(u) == {s \in Conns : UidOf[s] = u /\ Kept(s)}

(* No user has a desktop of this daemon's and one of an earlier daemon's.   *)
OneDaemon == \A s \in Conns \ mine : \A m \in mine : Kept(s) => UidOf[s] # UidOf[m]

(* Where a worker unlinks or binds a name, no desktop is behind it.         *)
NobodyBehind ==
  \A w \in Workers : pc[w] \in {"term", "clear", "bind", "spawn"} => KeptAt(UserOf(w)) = {}

(* Where a worker takes a record out, the desktop behind it is on record.   *)
RecordedBehind ==
  \A w \in Workers : pc[w] = "take" => \A s \in KeptAt(UserOf(w)) :
    [uid |-> UserOf(w), started |-> s, owned |-> TRUE] \in sessions

(* Where the reaper unlinks a name, no desktop is behind it.                *)
NobodyReaped == \A t \in Threads : pc[t] = "unlinking" => KeptAt(UidOf[victim[t]]) = {}

(* stop_all has told every desktop of this daemon's.                        *)
NobodyLeft == pc[Main] \in {"stopwait", "stopunlink"} => \A s \in mine : ~Kept(s)

DeskInv ==
  /\ NoStrandedDesktop /\ OwnSessionsRecorded /\ OneDaemon
  /\ NobodyBehind /\ RecordedBehind /\ NobodyReaped /\ NobodyLeft

(* While a handoff for a user of this daemon's runs, and is not inserting,  *)
(* that user's desktop is on record.                                        *)
LEMMA HandoffRecorded ==
  ASSUME BaseInv, DeskInv, NEW w \in Workers, pc[w] \in Latched \ {"insert"},
         NEW m \in mine, UidOf[m] = UserOf(w), NEW s \in KeptAt(UserOf(w))
  PROVE  [uid |-> UserOf(w), started |-> s, owned |-> TRUE] \in sessions
<1>1. s \in Conns /\ Kept(s) /\ UidOf[s] = UserOf(w)
  BY DEF KeptAt
<1>2. s \in mine
  BY <1>1 DEF DeskInv, OneDaemon
<1>3. ~Draining
  BY DEF BaseInv, WorkersGone, Draining, Latched
<1>4. ASSUME NEW v \in Workers, cur[v] = s, pc[v] = "insert" PROVE FALSE
  <2>1. HandoffHolds(v, UserOf(w)) /\ HandoffHolds(w, UserOf(w))
    BY <1>1, <1>4 DEF HandoffHolds, Latched, UserOf
  <2>2. UserOf(w) \in Uids
    BY <1>1, PoolAssumption DEF PoolAssumption
  <2>q. QED
    BY <2>1, <2>2, <1>4 DEF BaseInv, LatchExclusion
<1>q. QED
  BY <1>1, <1>2, <1>3, <1>4 DEF DeskInv, OwnSessionsRecorded, Record

(* Taking a record out ends the desktop behind it.                          *)
LEMMA TakeKept ==
  ASSUME DeskInv, NEW w \in Workers, Take(w), NEW s \in Conns, Kept(s)'
  PROVE  Kept(s) /\ UidOf[s] # UserOf(w)
<1>1. Kept(s) /\ sess' = sess
  BY DEF Take, Sigterm, Kept, procVars
<1>2. ASSUME UidOf[s] = UserOf(w) PROVE FALSE
  <2>1. [uid |-> UserOf(w), started |-> s, owned |-> TRUE] \in Records(UserOf(w))
    BY <1>1, <1>2 DEF DeskInv, RecordedBehind, KeptAt, Take, Records
  <2>2. s \in {r.started : r \in {q \in Records(UserOf(w)) : q.owned}}
    BY <2>1
  <2>3. sup'[s] # "running"
    BY <2>2 DEF Take, Sigterm
  <2>q. QED
    BY <2>3 DEF Kept
<1>q. QED
  BY <1>1, <1>2

(* The connection an adoption is recorded under has been handed over and    *)
(* spawns nothing.                                                          *)
LEMMA LookupRetires ==
  ASSUME BaseInv, IdInv, NEW w \in Workers, Lookup(w), NEW c \in Conns, c = cur[w]
  PROVE  Retired(c)'
<1>1. /\ pc[w] = "lookup" /\ cur[w] \in Conns /\ cur[w] # None /\ pc' = [pc EXCEPT ![w] = "release"]
      /\ cur' = cur /\ queue' = queue /\ conn' = conn /\ mine' = mine
  BY PoolAssumption
     DEF PoolAssumption, BaseInv, ControlOK, Lookup, Goto, threadVars, poolVars
<1>2. conn[cur[w]] # "new" /\ ~Queued(cur[w])
  BY <1>1 DEF IdInv, JobsOK, InPool
<1>3. cur[w] \notin mine
  BY <1>1 DEF IdInv, FreshOK, PreBind
<1>4. \A v \in Workers : cur[v] = cur[w] => v = w
  BY <1>1 DEF IdInv, JobsOK
<1>5. pc'[w] = "release"
  BY <1>1 DEF BaseInv, TypeOK, PcOK, Threads
<1>q. QED
  BY <1>1, <1>2, <1>3, <1>4, <1>5 DEF Retired, Queued

(* Jobs stay distinct: only submit queues, only recv takes from the queue.  *)
LEMMA JobsStep == ASSUME BaseInv, IdInv, Next PROVE JobsOK'
<1> USE PoolAssumption DEF PoolAssumption, BaseInv, TypeOK, PcOK, ThreadsOK,
         TablesOK, ControlOK, Goto, UserOf, Threads, threadVars, poolVars, IdInv,
         JobsOK, Queued, InPool, WorkersGone
<1>1. ASSUME NEW c \in Conns, Submit(c) PROVE JobsOK'
  BY <1>1 DEF Submit
<1>2. ASSUME NEW c \in Conns, Refuse(c) PROVE JobsOK'
  BY <1>2 DEF Refuse
<1>3. ASSUME NEW t \in Threads, Scan(t) PROVE JobsOK'
  BY <1>3 DEF Scan, AfterReap
<1>4. ASSUME NEW t \in Threads, SkipUnlink(t) PROVE JobsOK'
  BY <1>4 DEF SkipUnlink
<1>5. ASSUME NEW t \in Threads, ClaimUnlink(t) PROVE JobsOK'
  BY <1>5 DEF ClaimUnlink
<1>6. ASSUME NEW t \in Threads, Unlink(t) PROVE JobsOK'
  BY <1>6 DEF Unlink
<1>7. ASSUME NEW t \in Threads, ProbeRead(t) PROVE JobsOK'
  BY <1>7 DEF ProbeRead, AfterReap
<1>8. ASSUME NEW t \in Threads, ProbeDrop(t) PROVE JobsOK'
  BY <1>8 DEF ProbeDrop, AfterReap
<1>9. ASSUME NEW w \in Workers, Recv(w) PROVE JobsOK'
  <2>1. /\ 1 \in DOMAIN queue /\ Head(queue) = queue[1]
        /\ \A i \in DOMAIN queue' : i + 1 \in DOMAIN queue /\ queue'[i] = queue[i + 1]
        /\ DOMAIN queue \subseteq Nat /\ DOMAIN queue' \subseteq Nat \ {0}
    BY <1>9 DEF Recv
  <2>2. cur' = cur \/ cur' = [cur EXCEPT ![w] = queue[1]]
    BY <1>9, <2>1 DEF Recv
  <2>3. conn' = conn \/ conn' = [conn EXCEPT ![queue[1]] = "closed"]
    BY <1>9, <2>1 DEF Recv
  <2>4. cur[w] = None /\ queue[1] \in Conns
    BY <1>9, <2>1 DEF Recv
  <2>5. JobsOK!1'
    BY <2>1
  <2>6. JobsOK!2'
    BY <2>1, <2>2
  <2>7. JobsOK!3'
    BY <2>1, <2>2
  <2>8. \A c \in Conns : InPool(c)' => InPool(c)
    BY <2>1, <2>2, <2>4
  <2>9. \A c \in Conns : conn'[c] = "new" => conn[c] = "new"
    BY <2>3
  <2>10. JobsOK!4'
    BY <2>8, <2>9
  <2>q. QED
    BY <2>5, <2>6, <2>7, <2>10
<1>10. ASSUME NEW w \in Workers, WorkerExit(w) PROVE JobsOK'
  BY <1>10 DEF WorkerExit
<1>11. ASSUME NEW w \in Workers, Acquire(w) PROVE JobsOK'
  BY <1>11 DEF Acquire
<1>12. ASSUME NEW w \in Workers, Connect(w) PROVE JobsOK'
  BY <1>12 DEF Connect
<1>13. ASSUME NEW w \in Workers, AwaitAccept(w) PROVE JobsOK'
  BY <1>13 DEF AwaitAccept
<1>14. ASSUME NEW w \in Workers, AwaitFail(w) PROVE JobsOK'
  BY <1>14 DEF AwaitFail
<1>15. ASSUME NEW w \in Workers, Lookup(w) PROVE JobsOK'
  BY <1>15 DEF Lookup, Record, Records
<1>16. ASSUME NEW w \in Workers, OwnsCheck(w) PROVE JobsOK'
  BY <1>16 DEF OwnsCheck
<1>17. ASSUME NEW w \in Workers, Take(w) PROVE JobsOK'
  BY <1>17 DEF Take, Records, Sigterm
<1>18. ASSUME NEW w \in Workers, TermWait(w) PROVE JobsOK'
  BY <1>18 DEF TermWait
<1>19. ASSUME NEW w \in Workers, TermKill(w) PROVE JobsOK'
  BY <1>19 DEF TermKill, Sigkill
<1>20. ASSUME NEW w \in Workers, Clear(w) PROVE JobsOK'
  BY <1>20 DEF Clear
<1>21. ASSUME NEW w \in Workers, Bind(w) PROVE JobsOK'
  BY <1>21 DEF Bind
<1>22. ASSUME NEW w \in Workers, Spawn(w) PROVE JobsOK'
  BY <1>22 DEF Spawn
<1>23. ASSUME NEW w \in Workers, SpawnFail(w) PROVE JobsOK'
  BY <1>23 DEF SpawnFail
<1>24. ASSUME NEW w \in Workers, Insert(w) PROVE JobsOK'
  BY <1>24 DEF Insert, Record, Records
<1>25. ASSUME NEW w \in Workers, ColdAccept(w) PROVE JobsOK'
  BY <1>25 DEF ColdAccept
<1>26. ASSUME NEW w \in Workers, ColdFail(w) PROVE JobsOK'
  BY <1>26 DEF ColdFail
<1>27. ASSUME NEW w \in Workers, Release(w) PROVE JobsOK'
  BY <1>27 DEF Release
<1>28. ASSUME NEW w \in Workers, Answer(w) PROVE JobsOK'
  BY <1>28 DEF Answer
<1>29. ASSUME BeginShutdown PROVE JobsOK'
  BY <1>29 DEF BeginShutdown
<1>30. ASSUME Exit PROVE JobsOK'
  BY <1>30 DEF Exit, Joined
<1>31. ASSUME StopAll PROVE JobsOK'
  BY <1>31 DEF StopAll, Sigterm, Joined
<1>32. ASSUME StopWait PROVE JobsOK'
  BY <1>32 DEF StopWait, Sigkill
<1>33. ASSUME StopUnlink PROVE JobsOK'
  BY <1>33 DEF StopUnlink
<1>34. ASSUME Crash PROVE JobsOK'
  BY <1>34 DEF Crash
<1>35. ASSUME Start PROVE JobsOK'
  BY <1>35 DEF Start
<1>36. ASSUME NEW s \in Conns, SessionEnds(s) PROVE JobsOK'
  BY <1>36 DEF SessionEnds
<1>37. ASSUME NEW s \in Conns, SupervisorExits(s) PROVE JobsOK'
  BY <1>37 DEF SupervisorExits
<1>38. ASSUME NEW s \in Conns, SupervisorKilled(s) PROVE JobsOK'
  BY <1>38 DEF SupervisorKilled
<1>q. QED
  BY <1>1, <1>2, <1>3, <1>4, <1>5, <1>6, <1>7, <1>8, <1>9, <1>10, <1>11, <1>12, <1>13,
     <1>14, <1>15, <1>16, <1>17, <1>18, <1>19, <1>20, <1>21, <1>22, <1>23, <1>24, <1>25,
     <1>26, <1>27, <1>28, <1>29, <1>30, <1>31, <1>32, <1>33, <1>34, <1>35, <1>36, <1>37,
     <1>38
     DEF Next, Accept, Reap, Worker, Handoff, Terminate, Shutdown, Process, Threads

(* Only Bind gives a connection a session, and its worker is past that.     *)
LEMMA FreshStep == ASSUME BaseInv, IdInv, Next PROVE FreshOK'
<1> USE PoolAssumption DEF PoolAssumption, BaseInv, TypeOK, PcOK, ThreadsOK,
         TablesOK, ControlOK, Goto, UserOf, Threads, threadVars, poolVars, IdInv,
         JobsOK, FreshOK, Queued, InPool, PreBind, WorkersGone, ProcessesOK,
         procVars, histVars
<1>1. ASSUME NEW c \in Conns, Submit(c) PROVE FreshOK'
  BY <1>1 DEF Submit
<1>2. ASSUME NEW c \in Conns, Refuse(c) PROVE FreshOK'
  BY <1>2 DEF Refuse
<1>3. ASSUME NEW t \in Threads, Scan(t) PROVE FreshOK'
  BY <1>3 DEF Scan, AfterReap
<1>4. ASSUME NEW t \in Threads, SkipUnlink(t) PROVE FreshOK'
  BY <1>4 DEF SkipUnlink
<1>5. ASSUME NEW t \in Threads, ClaimUnlink(t) PROVE FreshOK'
  BY <1>5 DEF ClaimUnlink
<1>6. ASSUME NEW t \in Threads, Unlink(t) PROVE FreshOK'
  BY <1>6 DEF Unlink
<1>7. ASSUME NEW t \in Threads, ProbeRead(t) PROVE FreshOK'
  BY <1>7 DEF ProbeRead, AfterReap
<1>8. ASSUME NEW t \in Threads, ProbeDrop(t) PROVE FreshOK'
  BY <1>8 DEF ProbeDrop, AfterReap
<1>9. ASSUME NEW w \in Workers, Recv(w) PROVE FreshOK'
  <2>1. /\ 1 \in DOMAIN queue /\ Head(queue) = queue[1]
        /\ \A i \in DOMAIN queue' : i + 1 \in DOMAIN queue /\ queue'[i] = queue[i + 1]
    BY <1>9 DEF Recv
  <2>2. \A c \in Conns : Queued(c)' => Queued(c)
    BY <2>1
  <2>3. \A c \in Conns : conn'[c] = "new" => conn[c] = "new"
    BY <1>9 DEF Recv
  <2>4. sess' = sess /\ mine' = mine
    BY <1>9 DEF Recv
  <2>5. FreshOK!1'
    BY <2>2, <2>3, <2>4
  <2>6. \/ pc' = pc /\ cur' = cur
        \/ cur' = [cur EXCEPT ![w] = queue[1]] /\ pc' = [pc EXCEPT ![w] = "latch"]
    BY <1>9, <2>1 DEF Recv
  <2>7. sess[queue[1]] = "none"
    BY <2>1
  <2>8. FreshOK!2'
    BY <2>4, <2>6, <2>7
  <2>q. QED
    BY <2>4, <2>5, <2>8
<1>10. ASSUME NEW w \in Workers, WorkerExit(w) PROVE FreshOK'
  BY <1>10 DEF WorkerExit
<1>11. ASSUME NEW w \in Workers, Acquire(w) PROVE FreshOK'
  BY <1>11 DEF Acquire
<1>12. ASSUME NEW w \in Workers, Connect(w) PROVE FreshOK'
  BY <1>12 DEF Connect
<1>13. ASSUME NEW w \in Workers, AwaitAccept(w) PROVE FreshOK'
  BY <1>13 DEF AwaitAccept
<1>14. ASSUME NEW w \in Workers, AwaitFail(w) PROVE FreshOK'
  BY <1>14 DEF AwaitFail
<1>15. ASSUME NEW w \in Workers, Lookup(w) PROVE FreshOK'
  BY <1>15 DEF Lookup, Record, Records
<1>16. ASSUME NEW w \in Workers, OwnsCheck(w) PROVE FreshOK'
  BY <1>16 DEF OwnsCheck
<1>17. ASSUME NEW w \in Workers, Take(w) PROVE FreshOK'
  BY <1>17 DEF Take, Records, Sigterm
<1>18. ASSUME NEW w \in Workers, TermWait(w) PROVE FreshOK'
  BY <1>18 DEF TermWait
<1>19. ASSUME NEW w \in Workers, TermKill(w) PROVE FreshOK'
  BY <1>19 DEF TermKill, Sigkill
<1>20. ASSUME NEW w \in Workers, Clear(w) PROVE FreshOK'
  BY <1>20 DEF Clear
<1>21. ASSUME NEW w \in Workers, Bind(w) PROVE FreshOK'
  <2>1. cur[w] \in Conns /\ pc[w] = "bind" /\ conn' = conn /\ queue' = queue /\ cur' = cur /\ mine' = mine
    BY <1>21 DEF Bind
  <2>2. \A c \in Conns : c # cur[w] => sess'[c] = sess[c]
    BY <1>21 DEF Bind
  <2>3. pc' \in {[pc EXCEPT ![w] = "spawn"], [pc EXCEPT ![w] = "release"]}
    BY <1>21 DEF Bind
  <2>3a. \A c \in Conns : conn[c] = "new" \/ Queued(c) => c # cur[w]
    BY <2>1
  <2>3b. \A v \in Workers : v # w => cur[v] # cur[w]
    BY <2>1
  <2>3c. \A c \in Conns : (conn[c] = "new" \/ Queued(c))' <=> conn[c] = "new" \/ Queued(c)
    BY <2>1
  <2>4. FreshOK!1'
    BY <2>1, <2>2, <2>3a, <2>3c
  <2>5. FreshOK!2'
    <3>1. ASSUME NEW v \in Workers, pc'[v] \in PreBind PROVE v # w /\ pc[v] \in PreBind
      BY <3>1, <2>3
    <3>2. \A v \in Workers : pc[v] \in PreBind => cur[v] \in Conns
      OBVIOUS
    <3>q. QED
      BY <2>1, <2>2, <2>3b, <3>1, <3>2
  <2>6. FreshOK!3'
    BY <2>1, <2>2
  <2>q. QED
    BY <2>4, <2>5, <2>6
<1>22. ASSUME NEW w \in Workers, Spawn(w) PROVE FreshOK'
  <2>1. cur[w] \in Conns /\ pc[w] = "spawn" /\ conn' = conn /\ queue' = queue /\ cur' = cur
    BY <1>22 DEF Spawn
  <2>2. sess' = [sess EXCEPT ![cur[w]] = "live"] /\ mine' = mine \cup {cur[w]}
    BY <1>22 DEF Spawn
  <2>3. pc' = [pc EXCEPT ![w] = "insert"]
    BY <1>22 DEF Spawn
  <2>3a. \A c \in Conns : conn[c] = "new" \/ Queued(c) => c # cur[w]
    BY <2>1
  <2>3b. \A v \in Workers : v # w => cur[v] # cur[w]
    BY <2>1
  <2>3c. \A c \in Conns : (conn[c] = "new" \/ Queued(c))' <=> conn[c] = "new" \/ Queued(c)
    BY <2>1
  <2>4. FreshOK!1'
    BY <2>1, <2>2, <2>3a, <2>3c
  <2>5. FreshOK!2'
    <3>1. ASSUME NEW v \in Workers, pc'[v] \in PreBind PROVE v # w /\ pc[v] \in PreBind
      BY <3>1, <2>3
    <3>2. \A v \in Workers : pc[v] \in PreBind => cur[v] \in Conns
      OBVIOUS
    <3>q. QED
      BY <2>1, <2>2, <2>3b, <3>1, <3>2
  <2>6. FreshOK!3'
    BY <2>1, <2>2
  <2>q. QED
    BY <2>4, <2>5, <2>6
<1>23. ASSUME NEW w \in Workers, SpawnFail(w) PROVE FreshOK'
  BY <1>23 DEF SpawnFail
<1>24. ASSUME NEW w \in Workers, Insert(w) PROVE FreshOK'
  BY <1>24 DEF Insert, Record, Records
<1>25. ASSUME NEW w \in Workers, ColdAccept(w) PROVE FreshOK'
  BY <1>25 DEF ColdAccept
<1>26. ASSUME NEW w \in Workers, ColdFail(w) PROVE FreshOK'
  BY <1>26 DEF ColdFail
<1>27. ASSUME NEW w \in Workers, Release(w) PROVE FreshOK'
  BY <1>27 DEF Release
<1>28. ASSUME NEW w \in Workers, Answer(w) PROVE FreshOK'
  BY <1>28 DEF Answer
<1>29. ASSUME BeginShutdown PROVE FreshOK'
  BY <1>29 DEF BeginShutdown
<1>30. ASSUME Exit PROVE FreshOK'
  BY <1>30 DEF Exit, Joined
<1>31. ASSUME StopAll PROVE FreshOK'
  BY <1>31 DEF StopAll, Sigterm, Joined
<1>32. ASSUME StopWait PROVE FreshOK'
  BY <1>32 DEF StopWait, Sigkill
<1>33. ASSUME StopUnlink PROVE FreshOK'
  BY <1>33 DEF StopUnlink
<1>34. ASSUME Crash PROVE FreshOK'
  BY <1>34 DEF Crash
<1>35. ASSUME Start PROVE FreshOK'
  BY <1>35 DEF Start
<1>36. ASSUME NEW s \in Conns, SessionEnds(s) PROVE FreshOK'
  BY <1>36 DEF SessionEnds
<1>37. ASSUME NEW s \in Conns, SupervisorExits(s) PROVE FreshOK'
  BY <1>37 DEF SupervisorExits
<1>38. ASSUME NEW s \in Conns, SupervisorKilled(s) PROVE FreshOK'
  BY <1>38 DEF SupervisorKilled
<1>q. QED
  BY <1>1, <1>2, <1>3, <1>4, <1>5, <1>6, <1>7, <1>8, <1>9, <1>10, <1>11, <1>12, <1>13,
     <1>14, <1>15, <1>16, <1>17, <1>18, <1>19, <1>20, <1>21, <1>22, <1>23, <1>24, <1>25,
     <1>26, <1>27, <1>28, <1>29, <1>30, <1>31, <1>32, <1>33, <1>34, <1>35, <1>36, <1>37,
     <1>38
     DEF Next, Accept, Reap, Worker, Handoff, Terminate, Shutdown, Process, Threads

(* A connection that is done stays done.                                    *)
LEMMA RetiredStep == ASSUME BaseInv, IdInv, Next, NEW a \in Conns, Retired(a) PROVE Retired(a)'
<1> USE PoolAssumption DEF PoolAssumption, BaseInv, TypeOK, PcOK, ThreadsOK,
         TablesOK, ControlOK, Goto, UserOf, Threads, threadVars, poolVars, IdInv,
         JobsOK, FreshOK, Retired, Queued, InPool, WorkersGone, histVars
<1>1. ASSUME NEW c \in Conns, Submit(c) PROVE Retired(a)'
  BY <1>1 DEF Submit
<1>2. ASSUME NEW c \in Conns, Refuse(c) PROVE Retired(a)'
  BY <1>2 DEF Refuse
<1>3. ASSUME NEW t \in Threads, Scan(t) PROVE Retired(a)'
  BY <1>3 DEF Scan, AfterReap
<1>4. ASSUME NEW t \in Threads, SkipUnlink(t) PROVE Retired(a)'
  BY <1>4 DEF SkipUnlink
<1>5. ASSUME NEW t \in Threads, ClaimUnlink(t) PROVE Retired(a)'
  BY <1>5 DEF ClaimUnlink
<1>6. ASSUME NEW t \in Threads, Unlink(t) PROVE Retired(a)'
  BY <1>6 DEF Unlink
<1>7. ASSUME NEW t \in Threads, ProbeRead(t) PROVE Retired(a)'
  BY <1>7 DEF ProbeRead, AfterReap
<1>8. ASSUME NEW t \in Threads, ProbeDrop(t) PROVE Retired(a)'
  BY <1>8 DEF ProbeDrop, AfterReap
<1>9. ASSUME NEW w \in Workers, Recv(w) PROVE Retired(a)'
  BY SMTT(60), <1>9 DEF Recv
<1>10. ASSUME NEW w \in Workers, WorkerExit(w) PROVE Retired(a)'
  BY <1>10 DEF WorkerExit
<1>11. ASSUME NEW w \in Workers, Acquire(w) PROVE Retired(a)'
  BY <1>11 DEF Acquire
<1>12. ASSUME NEW w \in Workers, Connect(w) PROVE Retired(a)'
  BY <1>12 DEF Connect
<1>13. ASSUME NEW w \in Workers, AwaitAccept(w) PROVE Retired(a)'
  BY <1>13 DEF AwaitAccept
<1>14. ASSUME NEW w \in Workers, AwaitFail(w) PROVE Retired(a)'
  BY <1>14 DEF AwaitFail
<1>15. ASSUME NEW w \in Workers, Lookup(w) PROVE Retired(a)'
  BY <1>15 DEF Lookup, Record, Records
<1>16. ASSUME NEW w \in Workers, OwnsCheck(w) PROVE Retired(a)'
  BY <1>16 DEF OwnsCheck
<1>17. ASSUME NEW w \in Workers, Take(w) PROVE Retired(a)'
  BY <1>17 DEF Take, Records, Sigterm
<1>18. ASSUME NEW w \in Workers, TermWait(w) PROVE Retired(a)'
  BY <1>18 DEF TermWait
<1>19. ASSUME NEW w \in Workers, TermKill(w) PROVE Retired(a)'
  BY <1>19 DEF TermKill, Sigkill
<1>20. ASSUME NEW w \in Workers, Clear(w) PROVE Retired(a)'
  BY <1>20 DEF Clear
<1>21. ASSUME NEW w \in Workers, Bind(w) PROVE Retired(a)'
  BY <1>21 DEF Bind
<1>22. ASSUME NEW w \in Workers, Spawn(w) PROVE Retired(a)'
  BY <1>22 DEF Spawn
<1>23. ASSUME NEW w \in Workers, SpawnFail(w) PROVE Retired(a)'
  BY <1>23 DEF SpawnFail
<1>24. ASSUME NEW w \in Workers, Insert(w) PROVE Retired(a)'
  BY <1>24 DEF Insert, Record, Records
<1>25. ASSUME NEW w \in Workers, ColdAccept(w) PROVE Retired(a)'
  BY <1>25 DEF ColdAccept
<1>26. ASSUME NEW w \in Workers, ColdFail(w) PROVE Retired(a)'
  BY <1>26 DEF ColdFail
<1>27. ASSUME NEW w \in Workers, Release(w) PROVE Retired(a)'
  BY <1>27 DEF Release
<1>28. ASSUME NEW w \in Workers, Answer(w) PROVE Retired(a)'
  BY <1>28 DEF Answer
<1>29. ASSUME BeginShutdown PROVE Retired(a)'
  BY <1>29 DEF BeginShutdown
<1>30. ASSUME Exit PROVE Retired(a)'
  BY <1>30 DEF Exit, Joined
<1>31. ASSUME StopAll PROVE Retired(a)'
  BY <1>31 DEF StopAll, Sigterm, Joined
<1>32. ASSUME StopWait PROVE Retired(a)'
  BY <1>32 DEF StopWait, Sigkill
<1>33. ASSUME StopUnlink PROVE Retired(a)'
  BY <1>33 DEF StopUnlink
<1>34. ASSUME Crash PROVE Retired(a)'
  BY <1>34 DEF Crash
<1>35. ASSUME Start PROVE Retired(a)'
  BY <1>35 DEF Start
<1>36. ASSUME NEW s \in Conns, SessionEnds(s) PROVE Retired(a)'
  BY <1>36 DEF SessionEnds
<1>37. ASSUME NEW s \in Conns, SupervisorExits(s) PROVE Retired(a)'
  BY <1>37 DEF SupervisorExits
<1>38. ASSUME NEW s \in Conns, SupervisorKilled(s) PROVE Retired(a)'
  BY <1>38 DEF SupervisorKilled
<1>q. QED
  BY <1>1, <1>2, <1>3, <1>4, <1>5, <1>6, <1>7, <1>8, <1>9, <1>10, <1>11, <1>12, <1>13,
     <1>14, <1>15, <1>16, <1>17, <1>18, <1>19, <1>20, <1>21, <1>22, <1>23, <1>24, <1>25,
     <1>26, <1>27, <1>28, <1>29, <1>30, <1>31, <1>32, <1>33, <1>34, <1>35, <1>36, <1>37,
     <1>38
     DEF Next, Accept, Reap, Worker, Handoff, Terminate, Shutdown, Process, Threads

(* Adoptions are filed under connections that are done; copies are of those. *)
LEMMA AdoptersStep == ASSUME BaseInv, IdInv, Next PROVE AdoptersOK'
<1>r. \A a \in Conns : Retired(a) => Retired(a)'
  BY RetiredStep
<1> USE <1>r DEF BaseInv, TypeOK, PcOK, ThreadsOK, TablesOK, IdInv, AdoptersOK, SessionRecord,
             Threads, threadVars
<1>1. ASSUME NEW c \in Conns, Submit(c) PROVE AdoptersOK'
  BY <1>1 DEF Submit
<1>2. ASSUME NEW c \in Conns, Refuse(c) PROVE AdoptersOK'
  BY <1>2 DEF Refuse
<1>3. ASSUME NEW t \in Threads, Scan(t) PROVE AdoptersOK'
  BY <1>3 DEF Scan, AfterReap
<1>4. ASSUME NEW t \in Threads, SkipUnlink(t) PROVE AdoptersOK'
  BY <1>4 DEF SkipUnlink
<1>5. ASSUME NEW t \in Threads, ClaimUnlink(t) PROVE AdoptersOK'
  BY <1>5 DEF ClaimUnlink
<1>6. ASSUME NEW t \in Threads, Unlink(t) PROVE AdoptersOK'
  BY <1>6 DEF Unlink
<1>7. ASSUME NEW t \in Threads, ProbeRead(t) PROVE AdoptersOK'
  BY <1>7 DEF ProbeRead, AfterReap
<1>8. ASSUME NEW t \in Threads, ProbeDrop(t) PROVE AdoptersOK'
  BY <1>8 DEF ProbeDrop, AfterReap
<1>9. ASSUME NEW w \in Workers, Recv(w) PROVE AdoptersOK'
  BY <1>9 DEF Recv
<1>10. ASSUME NEW w \in Workers, WorkerExit(w) PROVE AdoptersOK'
  BY <1>10 DEF WorkerExit
<1>11. ASSUME NEW w \in Workers, Acquire(w) PROVE AdoptersOK'
  BY <1>11 DEF Acquire
<1>12. ASSUME NEW w \in Workers, Connect(w) PROVE AdoptersOK'
  BY <1>12 DEF Connect
<1>13. ASSUME NEW w \in Workers, AwaitAccept(w) PROVE AdoptersOK'
  BY <1>13 DEF AwaitAccept
<1>14. ASSUME NEW w \in Workers, AwaitFail(w) PROVE AdoptersOK'
  BY <1>14 DEF AwaitFail
<1>15. ASSUME NEW w \in Workers, Lookup(w) PROVE AdoptersOK'
  <2>1. /\ pc[w] = "lookup" /\ cur[w] \in Conns /\ copies' = copies
        /\ sessions' = sessions \/ sessions' = sessions \cup {Record(UserOf(w), cur[w], FALSE)}
    BY <1>15 DEF Lookup, ControlOK
  <2>2. PICK c \in Conns : c = cur[w]
    BY <2>1
  <2>3. Retired(c)'
    BY LookupRetires, <1>15, <2>2
  <2>4. \A r \in sessions' : r \in sessions \/ r.started = c
    BY <2>1, <2>2 DEF Record
  <2>5. \A r \in sessions' : ~r.owned => Retired(r.started)'
    BY <2>3, <2>4
  <2>q. QED
    BY <2>1, <2>5
<1>16. ASSUME NEW w \in Workers, OwnsCheck(w) PROVE AdoptersOK'
  BY <1>16 DEF OwnsCheck
<1>17. ASSUME NEW w \in Workers, Take(w) PROVE AdoptersOK'
  BY <1>17 DEF Take, Records, Sigterm
<1>18. ASSUME NEW w \in Workers, TermWait(w) PROVE AdoptersOK'
  BY <1>18 DEF TermWait
<1>19. ASSUME NEW w \in Workers, TermKill(w) PROVE AdoptersOK'
  BY <1>19 DEF TermKill, Sigkill
<1>20. ASSUME NEW w \in Workers, Clear(w) PROVE AdoptersOK'
  BY <1>20 DEF Clear
<1>21. ASSUME NEW w \in Workers, Bind(w) PROVE AdoptersOK'
  BY <1>21 DEF Bind
<1>22. ASSUME NEW w \in Workers, Spawn(w) PROVE AdoptersOK'
  BY <1>22 DEF Spawn
<1>23. ASSUME NEW w \in Workers, SpawnFail(w) PROVE AdoptersOK'
  BY <1>23 DEF SpawnFail
<1>24. ASSUME NEW w \in Workers, Insert(w) PROVE AdoptersOK'
  BY <1>24 DEF Insert, Record, Records
<1>25. ASSUME NEW w \in Workers, ColdAccept(w) PROVE AdoptersOK'
  BY <1>25 DEF ColdAccept
<1>26. ASSUME NEW w \in Workers, ColdFail(w) PROVE AdoptersOK'
  BY <1>26 DEF ColdFail
<1>27. ASSUME NEW w \in Workers, Release(w) PROVE AdoptersOK'
  BY <1>27 DEF Release
<1>28. ASSUME NEW w \in Workers, Answer(w) PROVE AdoptersOK'
  BY <1>28 DEF Answer
<1>29. ASSUME BeginShutdown PROVE AdoptersOK'
  BY <1>29 DEF BeginShutdown
<1>30. ASSUME Exit PROVE AdoptersOK'
  BY <1>30 DEF Exit, Joined
<1>31. ASSUME StopAll PROVE AdoptersOK'
  BY <1>31 DEF StopAll, Sigterm, Joined
<1>32. ASSUME StopWait PROVE AdoptersOK'
  BY <1>32 DEF StopWait, Sigkill
<1>33. ASSUME StopUnlink PROVE AdoptersOK'
  BY <1>33 DEF StopUnlink
<1>34. ASSUME Crash PROVE AdoptersOK'
  BY <1>34 DEF Crash
<1>35. ASSUME Start PROVE AdoptersOK'
  BY <1>35 DEF Start
<1>36. ASSUME NEW s \in Conns, SessionEnds(s) PROVE AdoptersOK'
  BY <1>36 DEF SessionEnds
<1>37. ASSUME NEW s \in Conns, SupervisorExits(s) PROVE AdoptersOK'
  BY <1>37 DEF SupervisorExits
<1>38. ASSUME NEW s \in Conns, SupervisorKilled(s) PROVE AdoptersOK'
  BY <1>38 DEF SupervisorKilled
<1>q. QED
  BY <1>1, <1>2, <1>3, <1>4, <1>5, <1>6, <1>7, <1>8, <1>9, <1>10, <1>11, <1>12, <1>13,
     <1>14, <1>15, <1>16, <1>17, <1>18, <1>19, <1>20, <1>21, <1>22, <1>23, <1>24, <1>25,
     <1>26, <1>27, <1>28, <1>29, <1>30, <1>31, <1>32, <1>33, <1>34, <1>35, <1>36, <1>37,
     <1>38
     DEF Next, Accept, Reap, Worker, Handoff, Terminate, Shutdown, Process, Threads

(* What reap and stop_all carry between their lock sections is ours.        *)
LEMMA ReapStep == ASSUME BaseInv, IdInv, Next PROVE ReapOK'
<1> USE PoolAssumption DEF PoolAssumption, BaseInv, TypeOK, PcOK, ThreadsOK,
         TablesOK, ControlOK, Goto, UserOf, Threads, threadVars, poolVars, IdInv,
         ReapOK, WorkersGone, procVars, histVars
<1>1. ASSUME NEW c \in Conns, Submit(c) PROVE ReapOK'
  BY <1>1 DEF Submit
<1>2. ASSUME NEW c \in Conns, Refuse(c) PROVE ReapOK'
  BY <1>2 DEF Refuse
<1>3. ASSUME NEW t \in Threads, Scan(t) PROVE ReapOK'
  BY <1>3 DEF Scan, AfterReap
<1>4. ASSUME NEW t \in Threads, SkipUnlink(t) PROVE ReapOK'
  BY <1>4 DEF SkipUnlink
<1>5. ASSUME NEW t \in Threads, ClaimUnlink(t) PROVE ReapOK'
  BY <1>5 DEF ClaimUnlink
<1>6. ASSUME NEW t \in Threads, Unlink(t) PROVE ReapOK'
  BY <1>6 DEF Unlink
<1>7. ASSUME NEW t \in Threads, ProbeRead(t) PROVE ReapOK'
  BY <1>7 DEF ProbeRead, AfterReap
<1>8. ASSUME NEW t \in Threads, ProbeDrop(t) PROVE ReapOK'
  BY <1>8 DEF ProbeDrop, AfterReap
<1>9. ASSUME NEW w \in Workers, Recv(w) PROVE ReapOK'
  BY ZenonT(60), <1>9 DEF Recv
<1>10. ASSUME NEW w \in Workers, WorkerExit(w) PROVE ReapOK'
  BY <1>10 DEF WorkerExit
<1>11. ASSUME NEW w \in Workers, Acquire(w) PROVE ReapOK'
  BY <1>11 DEF Acquire
<1>12. ASSUME NEW w \in Workers, Connect(w) PROVE ReapOK'
  BY <1>12 DEF Connect
<1>13. ASSUME NEW w \in Workers, AwaitAccept(w) PROVE ReapOK'
  BY <1>13 DEF AwaitAccept
<1>14. ASSUME NEW w \in Workers, AwaitFail(w) PROVE ReapOK'
  BY <1>14 DEF AwaitFail
<1>15. ASSUME NEW w \in Workers, Lookup(w) PROVE ReapOK'
  BY <1>15 DEF Lookup, Record, Records
<1>16. ASSUME NEW w \in Workers, OwnsCheck(w) PROVE ReapOK'
  BY <1>16 DEF OwnsCheck
<1>17. ASSUME NEW w \in Workers, Take(w) PROVE ReapOK'
  BY <1>17 DEF Take, Records, Sigterm
<1>18. ASSUME NEW w \in Workers, TermWait(w) PROVE ReapOK'
  BY <1>18 DEF TermWait
<1>19. ASSUME NEW w \in Workers, TermKill(w) PROVE ReapOK'
  BY <1>19 DEF TermKill, Sigkill
<1>20. ASSUME NEW w \in Workers, Clear(w) PROVE ReapOK'
  BY <1>20 DEF Clear
<1>21. ASSUME NEW w \in Workers, Bind(w) PROVE ReapOK'
  BY <1>21 DEF Bind
<1>22. ASSUME NEW w \in Workers, Spawn(w) PROVE ReapOK'
  BY <1>22 DEF Spawn
<1>23. ASSUME NEW w \in Workers, SpawnFail(w) PROVE ReapOK'
  BY <1>23 DEF SpawnFail
<1>24. ASSUME NEW w \in Workers, Insert(w) PROVE ReapOK'
  BY <1>24 DEF Insert, Record, Records
<1>25. ASSUME NEW w \in Workers, ColdAccept(w) PROVE ReapOK'
  BY <1>25 DEF ColdAccept
<1>26. ASSUME NEW w \in Workers, ColdFail(w) PROVE ReapOK'
  BY <1>26 DEF ColdFail
<1>27. ASSUME NEW w \in Workers, Release(w) PROVE ReapOK'
  BY <1>27 DEF Release
<1>28. ASSUME NEW w \in Workers, Answer(w) PROVE ReapOK'
  BY <1>28 DEF Answer
<1>29. ASSUME BeginShutdown PROVE ReapOK'
  BY <1>29 DEF BeginShutdown
<1>30. ASSUME Exit PROVE ReapOK'
  BY <1>30 DEF Exit, Joined
<1>31. ASSUME StopAll PROVE ReapOK'
  BY <1>31 DEF StopAll, Sigterm, Joined
<1>32. ASSUME StopWait PROVE ReapOK'
  BY <1>32 DEF StopWait, Sigkill
<1>33. ASSUME StopUnlink PROVE ReapOK'
  BY <1>33 DEF StopUnlink
<1>34. ASSUME Crash PROVE ReapOK'
  BY <1>34 DEF Crash
<1>35. ASSUME Start PROVE ReapOK'
  BY <1>35 DEF Start
<1>36. ASSUME NEW s \in Conns, SessionEnds(s) PROVE ReapOK'
  BY <1>36 DEF SessionEnds
<1>37. ASSUME NEW s \in Conns, SupervisorExits(s) PROVE ReapOK'
  BY <1>37 DEF SupervisorExits
<1>38. ASSUME NEW s \in Conns, SupervisorKilled(s) PROVE ReapOK'
  BY <1>38 DEF SupervisorKilled
<1>q. QED
  BY <1>1, <1>2, <1>3, <1>4, <1>5, <1>6, <1>7, <1>8, <1>9, <1>10, <1>11, <1>12, <1>13,
     <1>14, <1>15, <1>16, <1>17, <1>18, <1>19, <1>20, <1>21, <1>22, <1>23, <1>24, <1>25,
     <1>26, <1>27, <1>28, <1>29, <1>30, <1>31, <1>32, <1>33, <1>34, <1>35, <1>36, <1>37,
     <1>38
     DEF Next, Accept, Reap, Worker, Handoff, Terminate, Shutdown, Process, Threads

(* Only unlink, bind and stop_all touch a name, each with nobody behind it. *)
LEMMA StrandedStep == ASSUME BaseInv, IdInv, DeskInv, Next PROVE NoStrandedDesktop'
<1> USE PoolAssumption DEF PoolAssumption, BaseInv, TypeOK, PcOK, ThreadsOK,
         TablesOK, ControlOK, Goto, UserOf, Threads, threadVars, poolVars, DeskInv,
         NoStrandedDesktop, NobodyBehind, NobodyReaped, OneDaemon, Kept, KeptAt,
         IdInv, ReapOK, RecordsOK, ProcessesOK, NameHeld, procVars, histVars
<1>1. ASSUME NEW c \in Conns, Submit(c) PROVE NoStrandedDesktop'
  BY <1>1 DEF Submit
<1>2. ASSUME NEW c \in Conns, Refuse(c) PROVE NoStrandedDesktop'
  BY <1>2 DEF Refuse
<1>3. ASSUME NEW t \in Threads, Scan(t) PROVE NoStrandedDesktop'
  BY <1>3 DEF Scan, AfterReap
<1>4. ASSUME NEW t \in Threads, SkipUnlink(t) PROVE NoStrandedDesktop'
  BY <1>4 DEF SkipUnlink
<1>5. ASSUME NEW t \in Threads, ClaimUnlink(t) PROVE NoStrandedDesktop'
  BY <1>5 DEF ClaimUnlink
<1>6. ASSUME NEW t \in Threads, Unlink(t) PROVE NoStrandedDesktop'
  BY <1>6 DEF Unlink
<1>7. ASSUME NEW t \in Threads, ProbeRead(t) PROVE NoStrandedDesktop'
  BY <1>7 DEF ProbeRead, AfterReap
<1>8. ASSUME NEW t \in Threads, ProbeDrop(t) PROVE NoStrandedDesktop'
  BY <1>8 DEF ProbeDrop, AfterReap
<1>9. ASSUME NEW w \in Workers, Recv(w) PROVE NoStrandedDesktop'
  BY <1>9 DEF Recv
<1>10. ASSUME NEW w \in Workers, WorkerExit(w) PROVE NoStrandedDesktop'
  BY <1>10 DEF WorkerExit
<1>11. ASSUME NEW w \in Workers, Acquire(w) PROVE NoStrandedDesktop'
  BY <1>11 DEF Acquire
<1>12. ASSUME NEW w \in Workers, Connect(w) PROVE NoStrandedDesktop'
  BY <1>12 DEF Connect
<1>13. ASSUME NEW w \in Workers, AwaitAccept(w) PROVE NoStrandedDesktop'
  BY <1>13 DEF AwaitAccept
<1>14. ASSUME NEW w \in Workers, AwaitFail(w) PROVE NoStrandedDesktop'
  BY <1>14 DEF AwaitFail
<1>15. ASSUME NEW w \in Workers, Lookup(w) PROVE NoStrandedDesktop'
  BY <1>15 DEF Lookup, Record, Records
<1>16. ASSUME NEW w \in Workers, OwnsCheck(w) PROVE NoStrandedDesktop'
  BY <1>16 DEF OwnsCheck
<1>17. ASSUME NEW w \in Workers, Take(w) PROVE NoStrandedDesktop'
  BY <1>17 DEF Take, Records, Sigterm
<1>18. ASSUME NEW w \in Workers, TermWait(w) PROVE NoStrandedDesktop'
  BY <1>18 DEF TermWait
<1>19. ASSUME NEW w \in Workers, TermKill(w) PROVE NoStrandedDesktop'
  BY <1>19 DEF TermKill, Sigkill
<1>20. ASSUME NEW w \in Workers, Clear(w) PROVE NoStrandedDesktop'
  BY <1>20 DEF Clear
<1>21. ASSUME NEW w \in Workers, Bind(w) PROVE NoStrandedDesktop'
  <2>1. cur[w] \in Conns /\ KeptAt(UserOf(w)) = {} /\ sup' = sup
    BY <1>21 DEF Bind
  <2>2. \A s \in Conns : s # cur[w] => sess'[s] = sess[s]
    BY <1>21 DEF Bind
  <2>3. sess'[cur[w]] = "live" => sess[cur[w]] = "live"
    BY <1>21 DEF Bind
  <2>4. \A u \in Uids : u # UserOf(w) => name'[u] = name[u]
    BY <1>21 DEF Bind
  <2>q. QED
    BY <2>1, <2>2, <2>3, <2>4
<1>22. ASSUME NEW w \in Workers, Spawn(w) PROVE NoStrandedDesktop'
  BY <1>22 DEF Spawn
<1>23. ASSUME NEW w \in Workers, SpawnFail(w) PROVE NoStrandedDesktop'
  BY <1>23 DEF SpawnFail
<1>24. ASSUME NEW w \in Workers, Insert(w) PROVE NoStrandedDesktop'
  BY <1>24 DEF Insert, Record, Records
<1>25. ASSUME NEW w \in Workers, ColdAccept(w) PROVE NoStrandedDesktop'
  BY <1>25 DEF ColdAccept
<1>26. ASSUME NEW w \in Workers, ColdFail(w) PROVE NoStrandedDesktop'
  BY <1>26 DEF ColdFail
<1>27. ASSUME NEW w \in Workers, Release(w) PROVE NoStrandedDesktop'
  BY <1>27 DEF Release
<1>28. ASSUME NEW w \in Workers, Answer(w) PROVE NoStrandedDesktop'
  BY <1>28 DEF Answer
<1>29. ASSUME BeginShutdown PROVE NoStrandedDesktop'
  BY <1>29 DEF BeginShutdown
<1>30. ASSUME Exit PROVE NoStrandedDesktop'
  BY <1>30 DEF Exit, Joined
<1>31. ASSUME StopAll PROVE NoStrandedDesktop'
  BY <1>31 DEF StopAll, Sigterm, Joined
<1>32. ASSUME StopWait PROVE NoStrandedDesktop'
  BY <1>32 DEF StopWait, Sigkill
<1>33. ASSUME StopUnlink PROVE NoStrandedDesktop'
  <2>1. \A r \in ended[Main] : r.started \in mine /\ r.uid = UidOf[r.started]
    BY <1>33 DEF StopUnlink
  <2>2. pc[Main] = "stopunlink" /\ mine \subseteq Conns /\ sess' = sess /\ sup' = sup
    BY <1>33 DEF StopUnlink
  <2>3. ASSUME NEW s \in Conns, Kept(s), NEW r \in ended[Main], r.uid = UidOf[s] PROVE FALSE
    <3>1. s \notin mine
      BY <2>2, <2>3 DEF NobodyLeft
    <3>2. r.started \in mine /\ UidOf[r.started] = UidOf[s]
      BY <2>1, <2>3
    <3>q. QED
      BY <3>1, <3>2, <2>3
  <2>4. \A s \in Conns : Kept(s) => name'[UidOf[s]] = name[UidOf[s]]
    BY <1>33, <2>3 DEF StopUnlink
  <2>q. QED
    BY <2>2, <2>4
<1>34. ASSUME Crash PROVE NoStrandedDesktop'
  BY <1>34 DEF Crash
<1>35. ASSUME Start PROVE NoStrandedDesktop'
  BY <1>35 DEF Start
<1>36. ASSUME NEW s \in Conns, SessionEnds(s) PROVE NoStrandedDesktop'
  BY <1>36 DEF SessionEnds
<1>37. ASSUME NEW s \in Conns, SupervisorExits(s) PROVE NoStrandedDesktop'
  BY <1>37 DEF SupervisorExits
<1>38. ASSUME NEW s \in Conns, SupervisorKilled(s) PROVE NoStrandedDesktop'
  BY <1>38 DEF SupervisorKilled
<1>q. QED
  BY <1>1, <1>2, <1>3, <1>4, <1>5, <1>6, <1>7, <1>8, <1>9, <1>10, <1>11, <1>12, <1>13,
     <1>14, <1>15, <1>16, <1>17, <1>18, <1>19, <1>20, <1>21, <1>22, <1>23, <1>24, <1>25,
     <1>26, <1>27, <1>28, <1>29, <1>30, <1>31, <1>32, <1>33, <1>34, <1>35, <1>36, <1>37,
     <1>38
     DEF Next, Accept, Reap, Worker, Handoff, Terminate, Shutdown, Process, Threads

(* A record of ours is dropped only once its supervisor is gone or told.    *)
LEMMA RecordedStep == ASSUME BaseInv, IdInv, DeskInv, Next PROVE OwnSessionsRecorded'
<1> USE PoolAssumption DEF PoolAssumption, BaseInv, TypeOK, PcOK, ThreadsOK,
         TablesOK, ControlOK, Goto, UserOf, Threads, threadVars, poolVars, DeskInv,
         OwnSessionsRecorded, Record, Draining, Kept, WorkersGone, procVars,
         histVars
<1>1. ASSUME NEW c \in Conns, Submit(c) PROVE OwnSessionsRecorded'
  BY <1>1 DEF Submit
<1>2. ASSUME NEW c \in Conns, Refuse(c) PROVE OwnSessionsRecorded'
  BY <1>2 DEF Refuse
<1>3. ASSUME NEW t \in Threads, Scan(t) PROVE OwnSessionsRecorded'
  BY <1>3 DEF Scan, AfterReap
<1>4. ASSUME NEW t \in Threads, SkipUnlink(t) PROVE OwnSessionsRecorded'
  BY <1>4 DEF SkipUnlink
<1>5. ASSUME NEW t \in Threads, ClaimUnlink(t) PROVE OwnSessionsRecorded'
  BY <1>5 DEF ClaimUnlink
<1>6. ASSUME NEW t \in Threads, Unlink(t) PROVE OwnSessionsRecorded'
  BY <1>6 DEF Unlink
<1>7. ASSUME NEW t \in Threads, ProbeRead(t) PROVE OwnSessionsRecorded'
  BY <1>7 DEF ProbeRead, AfterReap
<1>8. ASSUME NEW t \in Threads, ProbeDrop(t) PROVE OwnSessionsRecorded'
  <2>s. SUFFICES ASSUME NEW s \in mine', Kept(s)', ~Draining'
                  PROVE  \/ [uid |-> UidOf[s], started |-> s, owned |-> TRUE] \in sessions'
                         \/ \E v \in Workers : cur'[v] = s /\ pc'[v] = "insert"
    BY ZenonT(60)
  <2>1. \A r \in sessions : r.owned => r \in sessions'
    BY <1>8 DEF ProbeDrop, IdInv, ReapOK, AdoptersOK, Retired
  <2>2. sess' = sess /\ sup' = sup /\ mine' = mine /\ cur' = cur
    BY <1>8 DEF ProbeDrop
  <2>3. \A v \in Workers : pc[v] = "insert" => pc'[v] = "insert"
    BY <1>8 DEF ProbeDrop, AfterReap
  <2>4. pc[Main] \in {"stopwait", "stopunlink", "down"} => pc'[Main] = pc[Main]
    BY <1>8 DEF ProbeDrop, AfterReap
  <2>5. s \in mine /\ Kept(s) /\ ~Draining
    BY <2>2, <2>4, <2>s
  <2>6. \/ [uid |-> UidOf[s], started |-> s, owned |-> TRUE] \in sessions
        \/ \E v \in Workers : cur[v] = s /\ pc[v] = "insert"
    BY <2>5
  <2>q. QED
    BY <2>1, <2>2, <2>3, <2>6
<1>9. ASSUME NEW w \in Workers, Recv(w) PROVE OwnSessionsRecorded'
  <2>1. sessions' = sessions /\ sess' = sess /\ sup' = sup /\ mine' = mine /\ pc'[Main] = pc[Main]
    BY <1>9 DEF Recv
  <2>2. \A v \in Workers : pc[v] = "insert" => pc'[v] = "insert" /\ cur'[v] = cur[v]
    BY <1>9 DEF Recv
  <2>q. QED
    BY <2>1, <2>2
<1>10. ASSUME NEW w \in Workers, WorkerExit(w) PROVE OwnSessionsRecorded'
  BY <1>10 DEF WorkerExit
<1>11. ASSUME NEW w \in Workers, Acquire(w) PROVE OwnSessionsRecorded'
  BY <1>11 DEF Acquire
<1>12. ASSUME NEW w \in Workers, Connect(w) PROVE OwnSessionsRecorded'
  BY <1>12 DEF Connect
<1>13. ASSUME NEW w \in Workers, AwaitAccept(w) PROVE OwnSessionsRecorded'
  BY <1>13 DEF AwaitAccept
<1>14. ASSUME NEW w \in Workers, AwaitFail(w) PROVE OwnSessionsRecorded'
  BY <1>14 DEF AwaitFail
<1>15. ASSUME NEW w \in Workers, Lookup(w) PROVE OwnSessionsRecorded'
  BY <1>15 DEF Lookup, Record, Records
<1>16. ASSUME NEW w \in Workers, OwnsCheck(w) PROVE OwnSessionsRecorded'
  BY <1>16 DEF OwnsCheck
<1>17. ASSUME NEW w \in Workers, Take(w) PROVE OwnSessionsRecorded'
  <2>s. SUFFICES ASSUME NEW s \in mine', Kept(s)', ~Draining'
                  PROVE  \/ [uid |-> UidOf[s], started |-> s, owned |-> TRUE] \in sessions'
                         \/ \E v \in Workers : cur'[v] = s /\ pc'[v] = "insert"
    BY ZenonT(60)
  <2>1. pc[w] = "take" /\ sess' = sess /\ mine' = mine /\ cur' = cur /\ pc'[Main] = pc[Main]
    BY <1>17 DEF Take
  <2>2. \A v \in Workers : pc[v] = "insert" => pc'[v] = "insert"
    BY <1>17 DEF Take
  <2>3. \A r \in sessions : r.uid # UserOf(w) => r \in sessions'
    BY <1>17 DEF Take, Records
  <2>4. \A x \in Conns : Kept(x)' => Kept(x) /\ UidOf[x] # UserOf(w)
    BY TakeKept, <1>17
  <2>5. s \in mine /\ s \in Conns /\ Kept(s) /\ ~Draining /\ UidOf[s] # UserOf(w)
    BY <2>1, <2>4, <2>s DEF ProcessesOK
  <2>6. \/ [uid |-> UidOf[s], started |-> s, owned |-> TRUE] \in sessions
        \/ \E v \in Workers : cur[v] = s /\ pc[v] = "insert"
    BY <2>5
  <2>q. QED
    BY <2>1, <2>2, <2>3, <2>5, <2>6
<1>18. ASSUME NEW w \in Workers, TermWait(w) PROVE OwnSessionsRecorded'
  BY <1>18 DEF TermWait
<1>19. ASSUME NEW w \in Workers, TermKill(w) PROVE OwnSessionsRecorded'
  <2>s. SUFFICES ASSUME NEW s \in mine', Kept(s)', ~Draining'
                  PROVE  \/ [uid |-> UidOf[s], started |-> s, owned |-> TRUE] \in sessions'
                         \/ \E v \in Workers : cur'[v] = s /\ pc'[v] = "insert"
    BY ZenonT(60)
  <2>1. sessions' = sessions /\ sess' = sess /\ mine' = mine /\ cur' = cur /\ pc'[Main] = pc[Main]
    BY <1>19 DEF TermKill
  <2>2. \A v \in Workers : pc[v] = "insert" => pc'[v] = "insert"
    BY <1>19 DEF TermKill
  <2>3. \A x \in Conns : Kept(x)' => Kept(x)
    BY <1>19 DEF TermKill, Sigkill
  <2>5. s \in mine /\ Kept(s) /\ ~Draining
    BY <2>1, <2>3, <2>s DEF ProcessesOK
  <2>6. \/ [uid |-> UidOf[s], started |-> s, owned |-> TRUE] \in sessions
        \/ \E v \in Workers : cur[v] = s /\ pc[v] = "insert"
    BY <2>5
  <2>q. QED
    BY <2>1, <2>2, <2>6
<1>20. ASSUME NEW w \in Workers, Clear(w) PROVE OwnSessionsRecorded'
  BY <1>20 DEF Clear
<1>21. ASSUME NEW w \in Workers, Bind(w) PROVE OwnSessionsRecorded'
  <2>s. SUFFICES ASSUME NEW s \in mine', Kept(s)', ~Draining'
                  PROVE  \/ [uid |-> UidOf[s], started |-> s, owned |-> TRUE] \in sessions'
                         \/ \E v \in Workers : cur'[v] = s /\ pc'[v] = "insert"
    OBVIOUS
  <2>1. sessions' = sessions /\ sup' = sup /\ mine' = mine /\ cur' = cur /\ pc'[Main] = pc[Main]
    BY <1>21 DEF Bind
  <2>2. \A v \in Workers : pc[v] = "insert" => pc'[v] = "insert"
    BY <1>21 DEF Bind
  <2>3. \A x \in Conns : sess'[x] = "live" => sess[x] = "live"
    BY <1>21 DEF Bind, ProcessesOK
  <2>5. s \in mine /\ Kept(s) /\ ~Draining
    BY <2>1, <2>3, <2>s DEF ProcessesOK
  <2>6. \/ [uid |-> UidOf[s], started |-> s, owned |-> TRUE] \in sessions
        \/ \E v \in Workers : cur[v] = s /\ pc[v] = "insert"
    BY <2>5
  <2>q. QED
    BY <2>1, <2>2, <2>6
<1>22. ASSUME NEW w \in Workers, Spawn(w) PROVE OwnSessionsRecorded'
  BY <1>22 DEF Spawn
<1>23. ASSUME NEW w \in Workers, SpawnFail(w) PROVE OwnSessionsRecorded'
  BY <1>23 DEF SpawnFail
<1>24. ASSUME NEW w \in Workers, Insert(w) PROVE OwnSessionsRecorded'
  <2>s. SUFFICES ASSUME NEW s \in mine', Kept(s)', ~Draining'
                  PROVE  \/ [uid |-> UidOf[s], started |-> s, owned |-> TRUE] \in sessions'
                         \/ \E v \in Workers : cur'[v] = s /\ pc'[v] = "insert"
    OBVIOUS
  <2>1. pc[w] = "insert" /\ sess' = sess /\ sup' = sup /\ mine' = mine /\ cur' = cur /\ pc'[Main] = pc[Main]
    BY <1>24 DEF Insert
  <2>2. \A v \in Workers : v # w => pc'[v] = pc[v]
    BY <1>24 DEF Insert
  <2>3. \A r \in sessions : r.uid # UserOf(w) => r \in sessions'
    BY <1>24 DEF Insert, Records
  <2>4. [uid |-> UserOf(w), started |-> cur[w], owned |-> TRUE] \in sessions'
    BY <1>24 DEF Insert
  <2>5. \A x \in Conns : Kept(x) /\ UidOf[x] = UserOf(w) => x = cur[w]
    BY SMTT(60), <2>1 DEF NameHeld, NoStrandedDesktop
  <2>6. mine \subseteq Conns
    BY DEF ProcessesOK
  <2>7. s \in mine /\ s \in Conns /\ Kept(s) /\ ~Draining
    BY <2>1, <2>6, <2>s
  <2>8. CASE UidOf[s] = UserOf(w)
    BY <2>4, <2>5, <2>7, <2>8
  <2>9. CASE UidOf[s] # UserOf(w)
    <3>1. CASE [uid |-> UidOf[s], started |-> s, owned |-> TRUE] \in sessions
      BY <2>3, <2>9, <3>1
    <3>2. ASSUME NEW v \in Workers, cur[v] = s, pc[v] = "insert"
          PROVE  cur'[v] = s /\ pc'[v] = "insert"
      BY <2>1, <2>2, <2>9, <3>2
    <3>q. QED
      BY <2>7, <3>1, <3>2
  <2>q. QED
    BY <2>8, <2>9
<1>25. ASSUME NEW w \in Workers, ColdAccept(w) PROVE OwnSessionsRecorded'
  BY <1>25 DEF ColdAccept
<1>26. ASSUME NEW w \in Workers, ColdFail(w) PROVE OwnSessionsRecorded'
  BY <1>26 DEF ColdFail
<1>27. ASSUME NEW w \in Workers, Release(w) PROVE OwnSessionsRecorded'
  BY <1>27 DEF Release
<1>28. ASSUME NEW w \in Workers, Answer(w) PROVE OwnSessionsRecorded'
  BY ZenonT(60), <1>28 DEF Answer
<1>29. ASSUME BeginShutdown PROVE OwnSessionsRecorded'
  BY <1>29 DEF BeginShutdown
<1>30. ASSUME Exit PROVE OwnSessionsRecorded'
  BY <1>30 DEF Exit, Joined
<1>31. ASSUME StopAll PROVE OwnSessionsRecorded'
  BY <1>31 DEF StopAll, Sigterm, Joined
<1>32. ASSUME StopWait PROVE OwnSessionsRecorded'
  BY <1>32 DEF StopWait, Sigkill
<1>33. ASSUME StopUnlink PROVE OwnSessionsRecorded'
  BY <1>33 DEF StopUnlink
<1>34. ASSUME Crash PROVE OwnSessionsRecorded'
  BY <1>34 DEF Crash
<1>35. ASSUME Start PROVE OwnSessionsRecorded'
  BY <1>35 DEF Start
<1>36. ASSUME NEW s \in Conns, SessionEnds(s) PROVE OwnSessionsRecorded'
  BY <1>36 DEF SessionEnds
<1>37. ASSUME NEW s \in Conns, SupervisorExits(s) PROVE OwnSessionsRecorded'
  BY <1>37 DEF SupervisorExits
<1>38. ASSUME NEW s \in Conns, SupervisorKilled(s) PROVE OwnSessionsRecorded'
  BY <1>38 DEF SupervisorKilled
<1>q. QED
  BY <1>1, <1>2, <1>3, <1>4, <1>5, <1>6, <1>7, <1>8, <1>9, <1>10, <1>11, <1>12, <1>13,
     <1>14, <1>15, <1>16, <1>17, <1>18, <1>19, <1>20, <1>21, <1>22, <1>23, <1>24, <1>25,
     <1>26, <1>27, <1>28, <1>29, <1>30, <1>31, <1>32, <1>33, <1>34, <1>35, <1>36, <1>37,
     <1>38
     DEF Next, Accept, Reap, Worker, Handoff, Terminate, Shutdown, Process, Threads

(* A spawn happens only where no desktop is behind the name.                *)
LEMMA OneDaemonStep == ASSUME BaseInv, IdInv, DeskInv, Next PROVE OneDaemon'
<1> USE PoolAssumption DEF PoolAssumption, BaseInv, TypeOK, PcOK, ThreadsOK,
         TablesOK, ControlOK, Goto, UserOf, Threads, threadVars, poolVars, DeskInv,
         OneDaemon, NobodyBehind, Kept, KeptAt, ProcessesOK, procVars, histVars
<1>1. ASSUME NEW c \in Conns, Submit(c) PROVE OneDaemon'
  BY <1>1 DEF Submit
<1>2. ASSUME NEW c \in Conns, Refuse(c) PROVE OneDaemon'
  BY <1>2 DEF Refuse
<1>3. ASSUME NEW t \in Threads, Scan(t) PROVE OneDaemon'
  BY <1>3 DEF Scan, AfterReap
<1>4. ASSUME NEW t \in Threads, SkipUnlink(t) PROVE OneDaemon'
  BY <1>4 DEF SkipUnlink
<1>5. ASSUME NEW t \in Threads, ClaimUnlink(t) PROVE OneDaemon'
  BY <1>5 DEF ClaimUnlink
<1>6. ASSUME NEW t \in Threads, Unlink(t) PROVE OneDaemon'
  BY <1>6 DEF Unlink
<1>7. ASSUME NEW t \in Threads, ProbeRead(t) PROVE OneDaemon'
  BY <1>7 DEF ProbeRead, AfterReap
<1>8. ASSUME NEW t \in Threads, ProbeDrop(t) PROVE OneDaemon'
  BY <1>8 DEF ProbeDrop, AfterReap
<1>9. ASSUME NEW w \in Workers, Recv(w) PROVE OneDaemon'
  BY <1>9 DEF Recv
<1>10. ASSUME NEW w \in Workers, WorkerExit(w) PROVE OneDaemon'
  BY <1>10 DEF WorkerExit
<1>11. ASSUME NEW w \in Workers, Acquire(w) PROVE OneDaemon'
  BY <1>11 DEF Acquire
<1>12. ASSUME NEW w \in Workers, Connect(w) PROVE OneDaemon'
  BY <1>12 DEF Connect
<1>13. ASSUME NEW w \in Workers, AwaitAccept(w) PROVE OneDaemon'
  BY <1>13 DEF AwaitAccept
<1>14. ASSUME NEW w \in Workers, AwaitFail(w) PROVE OneDaemon'
  BY <1>14 DEF AwaitFail
<1>15. ASSUME NEW w \in Workers, Lookup(w) PROVE OneDaemon'
  BY <1>15 DEF Lookup, Record, Records
<1>16. ASSUME NEW w \in Workers, OwnsCheck(w) PROVE OneDaemon'
  BY <1>16 DEF OwnsCheck
<1>17. ASSUME NEW w \in Workers, Take(w) PROVE OneDaemon'
  BY <1>17 DEF Take, Records, Sigterm
<1>18. ASSUME NEW w \in Workers, TermWait(w) PROVE OneDaemon'
  BY <1>18 DEF TermWait
<1>19. ASSUME NEW w \in Workers, TermKill(w) PROVE OneDaemon'
  BY <1>19 DEF TermKill, Sigkill
<1>20. ASSUME NEW w \in Workers, Clear(w) PROVE OneDaemon'
  BY <1>20 DEF Clear
<1>21. ASSUME NEW w \in Workers, Bind(w) PROVE OneDaemon'
  BY <1>21 DEF Bind
<1>22. ASSUME NEW w \in Workers, Spawn(w) PROVE OneDaemon'
  BY <1>22 DEF Spawn
<1>23. ASSUME NEW w \in Workers, SpawnFail(w) PROVE OneDaemon'
  BY <1>23 DEF SpawnFail
<1>24. ASSUME NEW w \in Workers, Insert(w) PROVE OneDaemon'
  BY <1>24 DEF Insert, Record, Records
<1>25. ASSUME NEW w \in Workers, ColdAccept(w) PROVE OneDaemon'
  BY <1>25 DEF ColdAccept
<1>26. ASSUME NEW w \in Workers, ColdFail(w) PROVE OneDaemon'
  BY <1>26 DEF ColdFail
<1>27. ASSUME NEW w \in Workers, Release(w) PROVE OneDaemon'
  BY <1>27 DEF Release
<1>28. ASSUME NEW w \in Workers, Answer(w) PROVE OneDaemon'
  BY <1>28 DEF Answer
<1>29. ASSUME BeginShutdown PROVE OneDaemon'
  BY <1>29 DEF BeginShutdown
<1>30. ASSUME Exit PROVE OneDaemon'
  BY <1>30 DEF Exit, Joined
<1>31. ASSUME StopAll PROVE OneDaemon'
  BY <1>31 DEF StopAll, Sigterm, Joined
<1>32. ASSUME StopWait PROVE OneDaemon'
  BY <1>32 DEF StopWait, Sigkill
<1>33. ASSUME StopUnlink PROVE OneDaemon'
  BY <1>33 DEF StopUnlink
<1>34. ASSUME Crash PROVE OneDaemon'
  BY <1>34 DEF Crash
<1>35. ASSUME Start PROVE OneDaemon'
  BY <1>35 DEF Start
<1>36. ASSUME NEW s \in Conns, SessionEnds(s) PROVE OneDaemon'
  BY <1>36 DEF SessionEnds
<1>37. ASSUME NEW s \in Conns, SupervisorExits(s) PROVE OneDaemon'
  BY <1>37 DEF SupervisorExits
<1>38. ASSUME NEW s \in Conns, SupervisorKilled(s) PROVE OneDaemon'
  BY <1>38 DEF SupervisorKilled
<1>q. QED
  BY <1>1, <1>2, <1>3, <1>4, <1>5, <1>6, <1>7, <1>8, <1>9, <1>10, <1>11, <1>12, <1>13,
     <1>14, <1>15, <1>16, <1>17, <1>18, <1>19, <1>20, <1>21, <1>22, <1>23, <1>24, <1>25,
     <1>26, <1>27, <1>28, <1>29, <1>30, <1>31, <1>32, <1>33, <1>34, <1>35, <1>36, <1>37,
     <1>38
     DEF Next, Accept, Reap, Worker, Handoff, Terminate, Shutdown, Process, Threads

(* The handoff's latch keeps the name its own from the take to the spawn.   *)
LEMMA NobodyBehindStep == ASSUME BaseInv, IdInv, DeskInv, Next PROVE NobodyBehind'
<1> USE PoolAssumption DEF PoolAssumption, BaseInv, TypeOK, PcOK, ThreadsOK,
         TablesOK, ControlOK, Goto, UserOf, Threads, threadVars, poolVars, DeskInv,
         NoStrandedDesktop, NobodyBehind, RecordedBehind, Kept, KeptAt, ProcessesOK,
         WorkersGone, LatchTaken, LatchExclusion, HandoffHolds, ReapHolds, Latched,
         procVars
<1>1. ASSUME NEW c \in Conns, Submit(c) PROVE NobodyBehind'
  BY <1>1 DEF Submit
<1>2. ASSUME NEW c \in Conns, Refuse(c) PROVE NobodyBehind'
  BY <1>2 DEF Refuse
<1>3. ASSUME NEW t \in Threads, Scan(t) PROVE NobodyBehind'
  BY <1>3 DEF Scan, AfterReap
<1>4. ASSUME NEW t \in Threads, SkipUnlink(t) PROVE NobodyBehind'
  BY <1>4 DEF SkipUnlink
<1>5. ASSUME NEW t \in Threads, ClaimUnlink(t) PROVE NobodyBehind'
  BY <1>5 DEF ClaimUnlink
<1>6. ASSUME NEW t \in Threads, Unlink(t) PROVE NobodyBehind'
  BY <1>6 DEF Unlink
<1>7. ASSUME NEW t \in Threads, ProbeRead(t) PROVE NobodyBehind'
  BY <1>7 DEF ProbeRead, AfterReap
<1>8. ASSUME NEW t \in Threads, ProbeDrop(t) PROVE NobodyBehind'
  BY <1>8 DEF ProbeDrop, AfterReap
<1>9. ASSUME NEW w \in Workers, Recv(w) PROVE NobodyBehind'
  BY <1>9 DEF Recv
<1>10. ASSUME NEW w \in Workers, WorkerExit(w) PROVE NobodyBehind'
  BY <1>10 DEF WorkerExit
<1>11. ASSUME NEW w \in Workers, Acquire(w) PROVE NobodyBehind'
  BY <1>11 DEF Acquire
<1>12. ASSUME NEW w \in Workers, Connect(w) PROVE NobodyBehind'
  <2>1. /\ pc[w] = "connect" /\ cur' = cur /\ sess' = sess /\ sup' = sup
        /\ \A v \in Workers : v # w => pc'[v] = pc[v]
    BY <1>12 DEF Connect
  <2>2. pc'[w] = "bind" => name[UserOf(w)] = None
    BY <1>12 DEF Connect
  <2>3. pc'[w] \in {"bind", "await", "take", "owns"}
    BY <1>12 DEF Connect
  <2>4. name[UserOf(w)] = None => KeptAt(UserOf(w)) = {}
    OBVIOUS
  <2>q. QED
    BY <2>1, <2>2, <2>3, <2>4
<1>13. ASSUME NEW w \in Workers, AwaitAccept(w) PROVE NobodyBehind'
  BY <1>13 DEF AwaitAccept
<1>14. ASSUME NEW w \in Workers, AwaitFail(w) PROVE NobodyBehind'
  BY <1>14 DEF AwaitFail
<1>15. ASSUME NEW w \in Workers, Lookup(w) PROVE NobodyBehind'
  BY <1>15 DEF Lookup, Record, Records
<1>16. ASSUME NEW w \in Workers, OwnsCheck(w) PROVE NobodyBehind'
  BY <1>16 DEF OwnsCheck
<1>17. ASSUME NEW w \in Workers, Take(w) PROVE NobodyBehind'
  <2>1. /\ pc[w] = "take" /\ cur' = cur
        /\ \A v \in Workers : v # w => pc'[v] = pc[v]
    BY <1>17 DEF Take
  <2>2. \A s \in Conns : Kept(s)' => Kept(s) /\ UidOf[s] # UserOf(w)
    BY TakeKept, <1>17
  <2>3. ASSUME NEW v \in Workers, pc'[v] \in {"term", "clear", "bind", "spawn"},
               NEW s \in Conns, UidOf[s] = UserOf(v)', Kept(s)'
        PROVE  FALSE
    <3>1. CASE v = w
      BY <2>1, <2>2, <2>3, <3>1
    <3>2. CASE v # w
      BY <2>1, <2>2, <2>3, <3>2
    <3>q. QED
      BY <3>1, <3>2
  <2>q. QED
    BY <2>3
<1>18. ASSUME NEW w \in Workers, TermWait(w) PROVE NobodyBehind'
  BY <1>18 DEF TermWait
<1>19. ASSUME NEW w \in Workers, TermKill(w) PROVE NobodyBehind'
  BY <1>19 DEF TermKill, Sigkill
<1>20. ASSUME NEW w \in Workers, Clear(w) PROVE NobodyBehind'
  BY <1>20 DEF Clear
<1>21. ASSUME NEW w \in Workers, Bind(w) PROVE NobodyBehind'
  <2>1. /\ pc[w] = "bind" /\ cur' = cur /\ sup' = sup
        /\ \A v \in Workers : v # w => pc'[v] = pc[v]
    BY <1>21 DEF Bind
  <2>2. \A s \in Conns : sess'[s] = "live" => sess[s] = "live"
    BY <1>21 DEF Bind
  <2>3. ASSUME NEW v \in Workers, pc'[v] \in {"term", "clear", "bind", "spawn"},
               NEW s \in Conns, UidOf[s] = UserOf(v)', Kept(s)'
        PROVE  FALSE
    <3>1. Kept(s) /\ UserOf(v)' = UserOf(v)
      BY <2>1, <2>2, <2>3
    <3>2. pc[v] \in {"term", "clear", "bind", "spawn"}
      BY <2>1, <2>3
    <3>q. QED
      BY <2>3, <3>1, <3>2
  <2>q. QED
    BY <2>3
<1>22. ASSUME NEW w \in Workers, Spawn(w) PROVE NobodyBehind'
  BY <1>22 DEF Spawn
<1>23. ASSUME NEW w \in Workers, SpawnFail(w) PROVE NobodyBehind'
  BY <1>23 DEF SpawnFail
<1>24. ASSUME NEW w \in Workers, Insert(w) PROVE NobodyBehind'
  BY <1>24 DEF Insert, Record, Records
<1>25. ASSUME NEW w \in Workers, ColdAccept(w) PROVE NobodyBehind'
  BY <1>25 DEF ColdAccept
<1>26. ASSUME NEW w \in Workers, ColdFail(w) PROVE NobodyBehind'
  BY <1>26 DEF ColdFail
<1>27. ASSUME NEW w \in Workers, Release(w) PROVE NobodyBehind'
  BY <1>27 DEF Release
<1>28. ASSUME NEW w \in Workers, Answer(w) PROVE NobodyBehind'
  BY <1>28 DEF Answer
<1>29. ASSUME BeginShutdown PROVE NobodyBehind'
  BY <1>29 DEF BeginShutdown
<1>30. ASSUME Exit PROVE NobodyBehind'
  BY <1>30 DEF Exit, Joined
<1>31. ASSUME StopAll PROVE NobodyBehind'
  BY <1>31 DEF StopAll, Sigterm, Joined
<1>32. ASSUME StopWait PROVE NobodyBehind'
  BY <1>32 DEF StopWait, Sigkill
<1>33. ASSUME StopUnlink PROVE NobodyBehind'
  BY <1>33 DEF StopUnlink
<1>34. ASSUME Crash PROVE NobodyBehind'
  BY <1>34 DEF Crash
<1>35. ASSUME Start PROVE NobodyBehind'
  BY <1>35 DEF Start
<1>36. ASSUME NEW s \in Conns, SessionEnds(s) PROVE NobodyBehind'
  BY <1>36 DEF SessionEnds
<1>37. ASSUME NEW s \in Conns, SupervisorExits(s) PROVE NobodyBehind'
  BY <1>37 DEF SupervisorExits
<1>38. ASSUME NEW s \in Conns, SupervisorKilled(s) PROVE NobodyBehind'
  BY <1>38 DEF SupervisorKilled
<1>q. QED
  BY <1>1, <1>2, <1>3, <1>4, <1>5, <1>6, <1>7, <1>8, <1>9, <1>10, <1>11, <1>12, <1>13,
     <1>14, <1>15, <1>16, <1>17, <1>18, <1>19, <1>20, <1>21, <1>22, <1>23, <1>24, <1>25,
     <1>26, <1>27, <1>28, <1>29, <1>30, <1>31, <1>32, <1>33, <1>34, <1>35, <1>36, <1>37,
     <1>38
     DEF Next, Accept, Reap, Worker, Handoff, Terminate, Shutdown, Process, Threads

(* A record is taken out only for an unreachable session or one of ours.    *)
LEMMA RecordedBehindStep == ASSUME BaseInv, IdInv, DeskInv, Next PROVE RecordedBehind'
<1> USE PoolAssumption DEF PoolAssumption, BaseInv, TypeOK, PcOK, ThreadsOK,
         TablesOK, ControlOK, Goto, UserOf, Threads, threadVars, poolVars, DeskInv,
         RecordedBehind, Kept, KeptAt, ProcessesOK, WorkersGone, LatchTaken,
         LatchExclusion, HandoffHolds, ReapHolds, Latched, procVars
<1>1. ASSUME NEW c \in Conns, Submit(c) PROVE RecordedBehind'
  BY <1>1 DEF Submit
<1>2. ASSUME NEW c \in Conns, Refuse(c) PROVE RecordedBehind'
  BY <1>2 DEF Refuse
<1>3. ASSUME NEW t \in Threads, Scan(t) PROVE RecordedBehind'
  BY <1>3 DEF Scan, AfterReap
<1>4. ASSUME NEW t \in Threads, SkipUnlink(t) PROVE RecordedBehind'
  BY <1>4 DEF SkipUnlink
<1>5. ASSUME NEW t \in Threads, ClaimUnlink(t) PROVE RecordedBehind'
  BY <1>5 DEF ClaimUnlink
<1>6. ASSUME NEW t \in Threads, Unlink(t) PROVE RecordedBehind'
  BY <1>6 DEF Unlink
<1>7. ASSUME NEW t \in Threads, ProbeRead(t) PROVE RecordedBehind'
  BY <1>7 DEF ProbeRead, AfterReap
<1>8. ASSUME NEW t \in Threads, ProbeDrop(t) PROVE RecordedBehind'
  <2>1. \A r \in sessions : r.owned => r \in sessions'
    BY <1>8 DEF ProbeDrop, IdInv, ReapOK, AdoptersOK, Retired
  <2>2. sess' = sess /\ sup' = sup /\ cur' = cur
    BY <1>8 DEF ProbeDrop
  <2>3. \A v \in Workers : pc'[v] = "take" => pc[v] = "take"
    BY <1>8 DEF ProbeDrop, AfterReap
  <2>q. QED
    BY <2>1, <2>2, <2>3
<1>9. ASSUME NEW w \in Workers, Recv(w) PROVE RecordedBehind'
  BY <1>9 DEF Recv
<1>10. ASSUME NEW w \in Workers, WorkerExit(w) PROVE RecordedBehind'
  BY <1>10 DEF WorkerExit
<1>11. ASSUME NEW w \in Workers, Acquire(w) PROVE RecordedBehind'
  BY <1>11 DEF Acquire
<1>12. ASSUME NEW w \in Workers, Connect(w) PROVE RecordedBehind'
  <2>1. /\ pc[w] = "connect" /\ cur' = cur /\ sess' = sess /\ sup' = sup /\ sessions' = sessions
        /\ \A v \in Workers : v # w => pc'[v] = pc[v]
    BY <1>12 DEF Connect
  <2>2. pc'[w] = "take" => sess[name[UserOf(w)]] # "live"
    BY <1>12 DEF Connect, Listening
  <2>3. sess[name[UserOf(w)]] # "live" => KeptAt(UserOf(w)) = {}
    BY DEF NoStrandedDesktop
  <2>q. QED
    BY <2>1, <2>2, <2>3
<1>13. ASSUME NEW w \in Workers, AwaitAccept(w) PROVE RecordedBehind'
  BY <1>13 DEF AwaitAccept
<1>14. ASSUME NEW w \in Workers, AwaitFail(w) PROVE RecordedBehind'
  BY <1>14 DEF AwaitFail
<1>15. ASSUME NEW w \in Workers, Lookup(w) PROVE RecordedBehind'
  BY <1>15 DEF Lookup, Record, Records
<1>16. ASSUME NEW w \in Workers, OwnsCheck(w) PROVE RecordedBehind'
  <2>1. /\ pc[w] = "owns" /\ cur' = cur /\ sess' = sess /\ sup' = sup /\ sessions' = sessions
        /\ \A v \in Workers : v # w => pc'[v] = pc[v]
    BY <1>16 DEF OwnsCheck
  <2>2. pc'[w] = "take" => \E m \in mine : UidOf[m] = UserOf(w)
    <3>1. SUFFICES ASSUME pc'[w] = "take" PROVE \E m \in mine : UidOf[m] = UserOf(w)
      OBVIOUS
    <3>2. OwnsSession(UserOf(w))
      BY <1>16, <3>1 DEF OwnsCheck
    <3>3. PICK r \in sessions : r.uid = UserOf(w) /\ r.owned
      BY <3>2 DEF OwnsSession, Records
    <3>4. pc[Main] # "down"
      BY <2>1
    <3>5. r.started \in mine
      BY <3>3, <3>4 DEF IdInv, ReapOK
    <3>6. UidOf[r.started] = UserOf(w)
      BY <3>3 DEF RecordsOK
    <3>q. QED
      BY <3>5, <3>6
  <2>3. (\E m \in mine : UidOf[m] = UserOf(w)) =>
          \A s \in KeptAt(UserOf(w)) : [uid |-> UserOf(w), started |-> s, owned |-> TRUE] \in sessions
    BY HandoffRecorded, <2>1
  <2>q. QED
    BY <2>1, <2>2, <2>3
<1>17. ASSUME NEW w \in Workers, Take(w) PROVE RecordedBehind'
  <2>1. /\ pc[w] = "take" /\ cur' = cur
        /\ \A v \in Workers : v # w => pc'[v] = pc[v]
    BY <1>17 DEF Take
  <2>2. \A s \in Conns : Kept(s)' => Kept(s) /\ UidOf[s] # UserOf(w)
    BY TakeKept, <1>17
  <2>3. \A r \in sessions : r.uid # UserOf(w) => r \in sessions'
    BY <1>17 DEF Take, Records
  <2>4. pc'[w] # "take"
    BY <1>17 DEF Take
  <2>q. QED
    BY ZenonT(60), <2>1, <2>2, <2>3, <2>4
<1>18. ASSUME NEW w \in Workers, TermWait(w) PROVE RecordedBehind'
  BY <1>18 DEF TermWait
<1>19. ASSUME NEW w \in Workers, TermKill(w) PROVE RecordedBehind'
  BY <1>19 DEF TermKill, Sigkill
<1>20. ASSUME NEW w \in Workers, Clear(w) PROVE RecordedBehind'
  BY <1>20 DEF Clear
<1>21. ASSUME NEW w \in Workers, Bind(w) PROVE RecordedBehind'
  BY <1>21 DEF Bind
<1>22. ASSUME NEW w \in Workers, Spawn(w) PROVE RecordedBehind'
  BY <1>22 DEF Spawn
<1>23. ASSUME NEW w \in Workers, SpawnFail(w) PROVE RecordedBehind'
  BY <1>23 DEF SpawnFail
<1>24. ASSUME NEW w \in Workers, Insert(w) PROVE RecordedBehind'
  BY <1>24 DEF Insert, Record, Records
<1>25. ASSUME NEW w \in Workers, ColdAccept(w) PROVE RecordedBehind'
  BY <1>25 DEF ColdAccept
<1>26. ASSUME NEW w \in Workers, ColdFail(w) PROVE RecordedBehind'
  <2>1. /\ pc[w] = "cold" /\ cur' = cur /\ sess' = sess /\ sup' = sup /\ sessions' = sessions
        /\ \A v \in Workers : v # w => pc'[v] = pc[v]
    BY <1>26 DEF ColdFail
  <2>2. cur[w] \in mine
    BY <2>1 DEF IdInv, ReapOK
  <2>3. \A s \in KeptAt(UserOf(w)) : [uid |-> UserOf(w), started |-> s, owned |-> TRUE] \in sessions
    BY HandoffRecorded, <2>1, <2>2
  <2>q. QED
    BY <2>1, <2>3
<1>27. ASSUME NEW w \in Workers, Release(w) PROVE RecordedBehind'
  BY <1>27 DEF Release
<1>28. ASSUME NEW w \in Workers, Answer(w) PROVE RecordedBehind'
  BY <1>28 DEF Answer
<1>29. ASSUME BeginShutdown PROVE RecordedBehind'
  BY <1>29 DEF BeginShutdown
<1>30. ASSUME Exit PROVE RecordedBehind'
  BY <1>30 DEF Exit, Joined
<1>31. ASSUME StopAll PROVE RecordedBehind'
  BY <1>31 DEF StopAll, Sigterm, Joined
<1>32. ASSUME StopWait PROVE RecordedBehind'
  BY <1>32 DEF StopWait, Sigkill
<1>33. ASSUME StopUnlink PROVE RecordedBehind'
  BY <1>33 DEF StopUnlink
<1>34. ASSUME Crash PROVE RecordedBehind'
  BY <1>34 DEF Crash
<1>35. ASSUME Start PROVE RecordedBehind'
  BY <1>35 DEF Start
<1>36. ASSUME NEW s \in Conns, SessionEnds(s) PROVE RecordedBehind'
  BY <1>36 DEF SessionEnds
<1>37. ASSUME NEW s \in Conns, SupervisorExits(s) PROVE RecordedBehind'
  BY <1>37 DEF SupervisorExits
<1>38. ASSUME NEW s \in Conns, SupervisorKilled(s) PROVE RecordedBehind'
  BY <1>38 DEF SupervisorKilled
<1>q. QED
  BY <1>1, <1>2, <1>3, <1>4, <1>5, <1>6, <1>7, <1>8, <1>9, <1>10, <1>11, <1>12, <1>13,
     <1>14, <1>15, <1>16, <1>17, <1>18, <1>19, <1>20, <1>21, <1>22, <1>23, <1>24, <1>25,
     <1>26, <1>27, <1>28, <1>29, <1>30, <1>31, <1>32, <1>33, <1>34, <1>35, <1>36, <1>37,
     <1>38
     DEF Next, Accept, Reap, Worker, Handoff, Terminate, Shutdown, Process, Threads

(* The reaper looked at the table again under the latch before unlinking.   *)
LEMMA NobodyReapedStep == ASSUME BaseInv, IdInv, DeskInv, Next PROVE NobodyReaped'
<1> USE PoolAssumption DEF PoolAssumption, BaseInv, TypeOK, PcOK, ThreadsOK,
         TablesOK, ControlOK, Goto, UserOf, Threads, threadVars, poolVars, DeskInv,
         NobodyReaped, Kept, KeptAt, ProcessesOK, WorkersGone, LatchTaken,
         LatchExclusion, HandoffHolds, ReapHolds, Latched, procVars
<1>1. ASSUME NEW c \in Conns, Submit(c) PROVE NobodyReaped'
  BY <1>1 DEF Submit
<1>2. ASSUME NEW c \in Conns, Refuse(c) PROVE NobodyReaped'
  BY <1>2 DEF Refuse
<1>3. ASSUME NEW t \in Threads, Scan(t) PROVE NobodyReaped'
  BY <1>3 DEF Scan, AfterReap
<1>4. ASSUME NEW t \in Threads, SkipUnlink(t) PROVE NobodyReaped'
  BY <1>4 DEF SkipUnlink
<1>5. ASSUME NEW t \in Threads, ClaimUnlink(t) PROVE NobodyReaped'
  <2>1. PICK r \in ended[t] :
          /\ r.uid \notin busy /\ Records(r.uid) = {}
          /\ victim' = [victim EXCEPT ![t] = r.started]
    BY <1>5 DEF ClaimUnlink
  <2>2. pc[t] = "unlink" /\ pc' = [pc EXCEPT ![t] = "unlinking"] /\ sess' = sess /\ sup' = sup
    BY <1>5 DEF ClaimUnlink
  <2>3. r.started \in mine /\ r.uid = UidOf[r.started]
    BY DEF IdInv, ReapOK, RecordsOK
  <2>4. ~Draining
    BY <2>2 DEF Draining
  <2>5. ASSUME NEW s \in Conns, Kept(s), UidOf[s] = r.uid PROVE FALSE
    <3>1. s \in mine
      BY <2>3, <2>5 DEF OneDaemon
    <3>2. Record(UidOf[s], s, TRUE) \notin sessions
      BY <2>1, <2>5 DEF Record, Records
    <3>3. PICK v \in Workers : cur[v] = s /\ pc[v] = "insert"
      BY <2>4, <2>5, <3>1, <3>2 DEF OwnSessionsRecorded
    <3>4. r.uid \in busy
      BY <2>5, <3>3
    <3>q. QED
      BY <2>1, <3>4
  <2>6. KeptAt(r.uid) = {}
    BY <2>5
  <2>7. KeptAt(UidOf[r.started]) = {}
    BY <2>3, <2>6
  <2>8. KeptAt(UidOf[r.started])' = {}
    BY <2>2, <2>7
  <2>q. QED
    BY <2>1, <2>2, <2>8
<1>6. ASSUME NEW t \in Threads, Unlink(t) PROVE NobodyReaped'
  BY <1>6 DEF Unlink
<1>7. ASSUME NEW t \in Threads, ProbeRead(t) PROVE NobodyReaped'
  BY <1>7 DEF ProbeRead, AfterReap
<1>8. ASSUME NEW t \in Threads, ProbeDrop(t) PROVE NobodyReaped'
  BY <1>8 DEF ProbeDrop, AfterReap
<1>9. ASSUME NEW w \in Workers, Recv(w) PROVE NobodyReaped'
  BY <1>9 DEF Recv
<1>10. ASSUME NEW w \in Workers, WorkerExit(w) PROVE NobodyReaped'
  BY <1>10 DEF WorkerExit
<1>11. ASSUME NEW w \in Workers, Acquire(w) PROVE NobodyReaped'
  BY <1>11 DEF Acquire
<1>12. ASSUME NEW w \in Workers, Connect(w) PROVE NobodyReaped'
  BY <1>12 DEF Connect
<1>13. ASSUME NEW w \in Workers, AwaitAccept(w) PROVE NobodyReaped'
  BY <1>13 DEF AwaitAccept
<1>14. ASSUME NEW w \in Workers, AwaitFail(w) PROVE NobodyReaped'
  BY <1>14 DEF AwaitFail
<1>15. ASSUME NEW w \in Workers, Lookup(w) PROVE NobodyReaped'
  BY <1>15 DEF Lookup, Record, Records
<1>16. ASSUME NEW w \in Workers, OwnsCheck(w) PROVE NobodyReaped'
  BY <1>16 DEF OwnsCheck
<1>17. ASSUME NEW w \in Workers, Take(w) PROVE NobodyReaped'
  <2>1. /\ pc[w] = "take"
        /\ \A t \in Threads : t # w => pc'[t] = pc[t] /\ victim'[t] = victim[t]
    BY <1>17 DEF Take
  <2>2. \A s \in Conns : Kept(s)' => Kept(s)
    BY TakeKept, <1>17
  <2>3. pc'[w] # "unlinking"
    BY <1>17 DEF Take
  <2>4. \A u \in Uids : KeptAt(u)' \subseteq KeptAt(u)
    BY <2>2
  <2>5. \A t \in Threads : pc'[t] = "unlinking" => pc[t] = "unlinking" /\ victim'[t] = victim[t] /\ UidOf[victim[t]] \in Uids
    BY <2>1, <2>3
  <2>q. QED
    BY <2>4, <2>5
<1>18. ASSUME NEW w \in Workers, TermWait(w) PROVE NobodyReaped'
  BY <1>18 DEF TermWait
<1>19. ASSUME NEW w \in Workers, TermKill(w) PROVE NobodyReaped'
  BY <1>19 DEF TermKill, Sigkill
<1>20. ASSUME NEW w \in Workers, Clear(w) PROVE NobodyReaped'
  BY <1>20 DEF Clear
<1>21. ASSUME NEW w \in Workers, Bind(w) PROVE NobodyReaped'
  <2>1. /\ pc[w] = "bind" /\ victim' = victim /\ sup' = sup
        /\ \A t \in Threads : t # w => pc'[t] = pc[t]
    BY <1>21 DEF Bind
  <2>2. \A s \in Conns : sess'[s] = "live" => sess[s] = "live"
    BY <1>21 DEF Bind
  <2>3. pc'[w] # "unlinking"
    BY <1>21 DEF Bind
  <2>4. \A u \in Uids : KeptAt(u)' \subseteq KeptAt(u)
    BY <2>1, <2>2
  <2>5. \A t \in Threads : pc'[t] = "unlinking" => pc[t] = "unlinking" /\ UidOf[victim[t]] \in Uids
    BY <2>1, <2>3
  <2>q. QED
    BY <2>1, <2>4, <2>5
<1>22. ASSUME NEW w \in Workers, Spawn(w) PROVE NobodyReaped'
  BY <1>22 DEF Spawn
<1>23. ASSUME NEW w \in Workers, SpawnFail(w) PROVE NobodyReaped'
  BY <1>23 DEF SpawnFail
<1>24. ASSUME NEW w \in Workers, Insert(w) PROVE NobodyReaped'
  BY <1>24 DEF Insert, Record, Records
<1>25. ASSUME NEW w \in Workers, ColdAccept(w) PROVE NobodyReaped'
  BY <1>25 DEF ColdAccept
<1>26. ASSUME NEW w \in Workers, ColdFail(w) PROVE NobodyReaped'
  BY <1>26 DEF ColdFail
<1>27. ASSUME NEW w \in Workers, Release(w) PROVE NobodyReaped'
  BY <1>27 DEF Release
<1>28. ASSUME NEW w \in Workers, Answer(w) PROVE NobodyReaped'
  BY <1>28 DEF Answer
<1>29. ASSUME BeginShutdown PROVE NobodyReaped'
  BY <1>29 DEF BeginShutdown
<1>30. ASSUME Exit PROVE NobodyReaped'
  BY <1>30 DEF Exit, Joined
<1>31. ASSUME StopAll PROVE NobodyReaped'
  BY <1>31 DEF StopAll, Sigterm, Joined
<1>32. ASSUME StopWait PROVE NobodyReaped'
  BY <1>32 DEF StopWait, Sigkill
<1>33. ASSUME StopUnlink PROVE NobodyReaped'
  BY <1>33 DEF StopUnlink
<1>34. ASSUME Crash PROVE NobodyReaped'
  BY <1>34 DEF Crash
<1>35. ASSUME Start PROVE NobodyReaped'
  BY <1>35 DEF Start
<1>36. ASSUME NEW s \in Conns, SessionEnds(s) PROVE NobodyReaped'
  BY <1>36 DEF SessionEnds
<1>37. ASSUME NEW s \in Conns, SupervisorExits(s) PROVE NobodyReaped'
  BY <1>37 DEF SupervisorExits
<1>38. ASSUME NEW s \in Conns, SupervisorKilled(s) PROVE NobodyReaped'
  BY <1>38 DEF SupervisorKilled
<1>q. QED
  BY <1>1, <1>2, <1>3, <1>4, <1>5, <1>6, <1>7, <1>8, <1>9, <1>10, <1>11, <1>12, <1>13,
     <1>14, <1>15, <1>16, <1>17, <1>18, <1>19, <1>20, <1>21, <1>22, <1>23, <1>24, <1>25,
     <1>26, <1>27, <1>28, <1>29, <1>30, <1>31, <1>32, <1>33, <1>34, <1>35, <1>36, <1>37,
     <1>38
     DEF Next, Accept, Reap, Worker, Handoff, Terminate, Shutdown, Process, Threads

(* stop_all signals every supervisor on record, and none is unrecorded.     *)
LEMMA NobodyLeftStep == ASSUME BaseInv, IdInv, DeskInv, Next PROVE NobodyLeft'
<1> USE PoolAssumption DEF PoolAssumption, BaseInv, TypeOK, PcOK, ThreadsOK,
         TablesOK, ControlOK, Goto, UserOf, Threads, threadVars, poolVars, DeskInv,
         NobodyLeft, Kept, ProcessesOK, WorkersGone, procVars, histVars
<1>1. ASSUME NEW c \in Conns, Submit(c) PROVE NobodyLeft'
  BY <1>1 DEF Submit
<1>2. ASSUME NEW c \in Conns, Refuse(c) PROVE NobodyLeft'
  BY <1>2 DEF Refuse
<1>3. ASSUME NEW t \in Threads, Scan(t) PROVE NobodyLeft'
  BY <1>3 DEF Scan, AfterReap
<1>4. ASSUME NEW t \in Threads, SkipUnlink(t) PROVE NobodyLeft'
  BY <1>4 DEF SkipUnlink
<1>5. ASSUME NEW t \in Threads, ClaimUnlink(t) PROVE NobodyLeft'
  BY <1>5 DEF ClaimUnlink
<1>6. ASSUME NEW t \in Threads, Unlink(t) PROVE NobodyLeft'
  BY <1>6 DEF Unlink
<1>7. ASSUME NEW t \in Threads, ProbeRead(t) PROVE NobodyLeft'
  BY <1>7 DEF ProbeRead, AfterReap
<1>8. ASSUME NEW t \in Threads, ProbeDrop(t) PROVE NobodyLeft'
  BY <1>8 DEF ProbeDrop, AfterReap
<1>9. ASSUME NEW w \in Workers, Recv(w) PROVE NobodyLeft'
  BY <1>9 DEF Recv
<1>10. ASSUME NEW w \in Workers, WorkerExit(w) PROVE NobodyLeft'
  BY <1>10 DEF WorkerExit
<1>11. ASSUME NEW w \in Workers, Acquire(w) PROVE NobodyLeft'
  BY <1>11 DEF Acquire
<1>12. ASSUME NEW w \in Workers, Connect(w) PROVE NobodyLeft'
  BY <1>12 DEF Connect
<1>13. ASSUME NEW w \in Workers, AwaitAccept(w) PROVE NobodyLeft'
  BY <1>13 DEF AwaitAccept
<1>14. ASSUME NEW w \in Workers, AwaitFail(w) PROVE NobodyLeft'
  BY <1>14 DEF AwaitFail
<1>15. ASSUME NEW w \in Workers, Lookup(w) PROVE NobodyLeft'
  BY <1>15 DEF Lookup, Record, Records
<1>16. ASSUME NEW w \in Workers, OwnsCheck(w) PROVE NobodyLeft'
  BY <1>16 DEF OwnsCheck
<1>17. ASSUME NEW w \in Workers, Take(w) PROVE NobodyLeft'
  BY <1>17 DEF Take, Records, Sigterm
<1>18. ASSUME NEW w \in Workers, TermWait(w) PROVE NobodyLeft'
  BY <1>18 DEF TermWait
<1>19. ASSUME NEW w \in Workers, TermKill(w) PROVE NobodyLeft'
  BY <1>19 DEF TermKill, Sigkill
<1>20. ASSUME NEW w \in Workers, Clear(w) PROVE NobodyLeft'
  BY <1>20 DEF Clear
<1>21. ASSUME NEW w \in Workers, Bind(w) PROVE NobodyLeft'
  BY <1>21 DEF Bind
<1>22. ASSUME NEW w \in Workers, Spawn(w) PROVE NobodyLeft'
  BY <1>22 DEF Spawn
<1>23. ASSUME NEW w \in Workers, SpawnFail(w) PROVE NobodyLeft'
  BY <1>23 DEF SpawnFail
<1>24. ASSUME NEW w \in Workers, Insert(w) PROVE NobodyLeft'
  BY <1>24 DEF Insert, Record, Records
<1>25. ASSUME NEW w \in Workers, ColdAccept(w) PROVE NobodyLeft'
  BY <1>25 DEF ColdAccept
<1>26. ASSUME NEW w \in Workers, ColdFail(w) PROVE NobodyLeft'
  BY <1>26 DEF ColdFail
<1>27. ASSUME NEW w \in Workers, Release(w) PROVE NobodyLeft'
  BY <1>27 DEF Release
<1>28. ASSUME NEW w \in Workers, Answer(w) PROVE NobodyLeft'
  BY <1>28 DEF Answer
<1>29. ASSUME BeginShutdown PROVE NobodyLeft'
  BY <1>29 DEF BeginShutdown
<1>30. ASSUME Exit PROVE NobodyLeft'
  BY <1>30 DEF Exit, Joined
<1>31. ASSUME StopAll PROVE NobodyLeft'
  <2>1. \A s \in mine : Kept(s) => \E r \in sessions : r.owned /\ r.started = s
    BY <1>31 DEF StopAll, Joined, OwnSessionsRecorded, Draining, Record
  <2>2. \A s \in Conns : Kept(s)' => Kept(s) /\ ~ \E r \in sessions : r.owned /\ r.started = s
    BY <1>31 DEF StopAll, Sigterm
  <2>3. mine' = mine
    BY <1>31 DEF StopAll
  <2>q. QED
    BY <2>1, <2>2, <2>3
<1>32. ASSUME StopWait PROVE NobodyLeft'
  BY <1>32 DEF StopWait, Sigkill
<1>33. ASSUME StopUnlink PROVE NobodyLeft'
  BY <1>33 DEF StopUnlink
<1>34. ASSUME Crash PROVE NobodyLeft'
  BY <1>34 DEF Crash
<1>35. ASSUME Start PROVE NobodyLeft'
  BY <1>35 DEF Start
<1>36. ASSUME NEW s \in Conns, SessionEnds(s) PROVE NobodyLeft'
  BY <1>36 DEF SessionEnds
<1>37. ASSUME NEW s \in Conns, SupervisorExits(s) PROVE NobodyLeft'
  BY <1>37 DEF SupervisorExits
<1>38. ASSUME NEW s \in Conns, SupervisorKilled(s) PROVE NobodyLeft'
  BY <1>38 DEF SupervisorKilled
<1>q. QED
  BY <1>1, <1>2, <1>3, <1>4, <1>5, <1>6, <1>7, <1>8, <1>9, <1>10, <1>11, <1>12, <1>13,
     <1>14, <1>15, <1>16, <1>17, <1>18, <1>19, <1>20, <1>21, <1>22, <1>23, <1>24, <1>25,
     <1>26, <1>27, <1>28, <1>29, <1>30, <1>31, <1>32, <1>33, <1>34, <1>35, <1>36, <1>37,
     <1>38
     DEF Next, Accept, Reap, Worker, Handoff, Terminate, Shutdown, Process, Threads

(* The daemon starts with an empty table and no processes.                  *)
LEMMA InitDesk == ASSUME Init PROVE IdInv /\ DeskInv
<1> USE DEF Init, Threads, Kept, KeptAt
<1>1. JobsOK
  BY PoolAssumption DEF PoolAssumption, JobsOK, Queued, InPool
<1>2. FreshOK
  BY PoolAssumption DEF PoolAssumption, FreshOK, PreBind
<1>3. AdoptersOK /\ ReapOK
  BY PoolAssumption DEF PoolAssumption, AdoptersOK, ReapOK
<1>4. NoStrandedDesktop /\ OwnSessionsRecorded /\ OneDaemon
  BY DEF NoStrandedDesktop, OwnSessionsRecorded, OneDaemon
<1>5. NobodyBehind /\ RecordedBehind /\ NobodyReaped /\ NobodyLeft
  BY DEF NobodyBehind, RecordedBehind, NobodyReaped, NobodyLeft
<1>q. QED
  BY <1>1, <1>2, <1>3, <1>4, <1>5 DEF IdInv, DeskInv

(* Neither layer looks at anything but the variables.                       *)
LEMMA IdStutter == ASSUME IdInv, UNCHANGED vars PROVE IdInv'
  BY DEF IdInv, JobsOK, FreshOK, AdoptersOK, Retired, ReapOK, Queued, InPool,
     vars, threadVars, poolVars, procVars, histVars, lifeVars

LEMMA DeskStutter == ASSUME DeskInv, UNCHANGED vars PROVE DeskInv'
<1> USE DEF vars, threadVars, procVars, histVars, lifeVars, DeskInv, Kept, KeptAt,
         UserOf
<1>1. (NoStrandedDesktop /\ OwnSessionsRecorded /\ OneDaemon)'
  BY DEF NoStrandedDesktop, OwnSessionsRecorded, OneDaemon, Draining
<1>2. (NobodyBehind /\ RecordedBehind /\ NobodyReaped /\ NobodyLeft)'
  BY DEF NobodyBehind, RecordedBehind, NobodyReaped, NobodyLeft
<1>q. QED
  BY <1>1, <1>2

(* The identities of jobs, sessions and records are kept by every step, and *)
(* with them what is known of the desktops behind the names.                *)
THEOREM Desktops == Spec => [](BaseInv /\ IdInv /\ DeskInv)
<1>1. Init => IdInv /\ DeskInv
  BY InitDesk
<1>2. BaseInv /\ IdInv /\ [Next]_vars => IdInv'
  BY IdStutter, JobsStep, FreshStep, AdoptersStep, ReapStep DEF IdInv
<1>3. BaseInv /\ IdInv /\ DeskInv /\ [Next]_vars => DeskInv'
  BY DeskStutter, StrandedStep, RecordedStep, OneDaemonStep, NobodyBehindStep,
     RecordedBehindStep, NobodyReapedStep, NobodyLeftStep DEF DeskInv
<1>q. QED
  BY <1>1, <1>2, <1>3, Base, PTL DEF Spec

(* A desktop nobody told to stop is always reachable at its user's name, so *)
(* no user has two: SessionManager::handoff_with, reap and stop_all.        *)
THEOREM Reachable == Spec => []NoStrandedDesktop
  BY Desktops, PTL DEF DeskInv

(* The daemon never forgets a running session it started, so stop_all finds *)
(* every one of them: SessionManager::spawn, reap, terminate and stop_all.  *)
THEOREM Remembered == Spec => []OwnSessionsRecorded
  BY Desktops, PTL DEF DeskInv

-----------------------------------------------------------------------------
(* That the daemon keeps what UserDesktop promises its users. A desktop is  *)
(* a session nobody told to stop, and by NoStrandedDesktop it is the one    *)
(* its user's name leads to, so the mapping's CHOOSE has one choice.        *)
DesktopInv == BaseInv /\ IdInv /\ DeskInv

(* The user's desktop is the one behind the user's name, if any is kept.    *)
LEMMA OpenIsNamed ==
  ASSUME NoStrandedDesktop, NEW u
  PROVE  OpenDesktop(u) = IF KeptAt(u) = {} THEN None ELSE name[u]
<1>1. CASE KeptAt(u) = {}
  BY <1>1 DEF OpenDesktop, KeptAt
<1>2. CASE KeptAt(u) # {}
  <2>1. \E s \in Conns : Kept(s) /\ UidOf[s] = u
    BY <1>2 DEF KeptAt
  <2>2. OpenDesktop(u) \in Conns /\ Kept(OpenDesktop(u)) /\ UidOf[OpenDesktop(u)] = u
    BY <2>1 DEF OpenDesktop
  <2>q. QED
    BY <1>2, <2>2 DEF NoStrandedDesktop
<1>q. QED
  BY <1>1, <1>2

(* ... and so it is after a step.                                           *)
LEMMA OpenIsNamedNext ==
  ASSUME NoStrandedDesktop', NEW u
  PROVE  OpenDesktop(u)' = IF KeptAt(u)' = {} THEN None ELSE name'[u]
<1>1. CASE KeptAt(u)' = {}
  BY <1>1 DEF OpenDesktop, KeptAt
<1>2. CASE KeptAt(u)' # {}
  <2>1. \E s \in Conns : Kept(s)' /\ UidOf[s] = u
    BY <1>2 DEF KeptAt
  <2>2. OpenDesktop(u)' \in Conns /\ (\E s \in Conns : s = OpenDesktop(u)' /\ Kept(s)' /\ UidOf[s] = u)
    BY <2>1 DEF OpenDesktop
  <2>q. QED
    BY <1>2, <2>2 DEF NoStrandedDesktop
<1>q. QED
  BY <1>1, <1>2

PromiseStep == [Promise!Next]_<<[u \in Uids |-> OpenDesktop(u)], name>>

(* Where names stay and no desktop appears, desktops close or nothing does. *)
LEMMA Closing ==
  ASSUME NoStrandedDesktop, NoStrandedDesktop', name' = name,
         \A s \in Conns : Kept(s)' => Kept(s)
  PROVE  PromiseStep
<1> DEFINE U == {u \in Uids : KeptAt(u)' = {}}
<1>1. ASSUME NEW u \in Uids PROVE OpenDesktop(u)' = IF u \in U THEN None ELSE OpenDesktop(u)
  <2>1. CASE u \in U
    BY <2>1, OpenIsNamedNext
  <2>2. CASE u \notin U
    <3>1. KeptAt(u)' # {} /\ KeptAt(u) # {}
      BY <2>2 DEF KeptAt
    <3>q. QED
      BY <2>2, <3>1, OpenIsNamed, OpenIsNamedNext
  <2>q. QED
    BY <2>1, <2>2
<1>2. Promise!Close(U)
  BY <1>1 DEF Promise!Close
<1>3. U \in SUBSET Uids
  OBVIOUS
<1>q. QED
  BY <1>2, <1>3 DEF PromiseStep, Promise!Next

(* Where the same desktops are kept, and names change only for users who    *)
(* have none, doors are moved.                                              *)
LEMMA Moving ==
  ASSUME NoStrandedDesktop, NoStrandedDesktop',
         \A s \in Conns : Kept(s)' <=> Kept(s),
         NEW U \in SUBSET Uids, NEW target \in Conns \cup {None},
         \A u \in U : KeptAt(u) = {},
         name' = [u \in Uids |-> IF u \in U THEN target ELSE name[u]]
  PROVE  PromiseStep
<1>1. ASSUME NEW u \in Uids PROVE OpenDesktop(u)' = OpenDesktop(u) /\ KeptAt(u)' = KeptAt(u)
  <2>1. KeptAt(u)' = KeptAt(u)
    BY DEF KeptAt
  <2>2. KeptAt(u) = {} \/ name'[u] = name[u]
    OBVIOUS
  <2>q. QED
    BY <2>1, <2>2, OpenIsNamed, OpenIsNamedNext
<1>2. \A u \in U : OpenDesktop(u) = None
  BY OpenIsNamed
<1>3. [u \in Uids |-> OpenDesktop(u)]' = [u \in Uids |-> OpenDesktop(u)]
  BY <1>1
<1>4. Promise!Move(U, target)
  BY <1>2, <1>3 DEF Promise!Move
<1>q. QED
  BY <1>4 DEF PromiseStep, Promise!Next

(* The steps that touch a name, a session or a supervisor.                  *)
LEMMA ProcessSteps ==
  ASSUME Next
  PROVE  \/ UNCHANGED procVars
         \/ \E t \in Threads : Unlink(t)
         \/ \E w \in Workers : \/ Take(w) \/ TermKill(w) \/ Clear(w)
                               \/ Bind(w) \/ Spawn(w) \/ SpawnFail(w)
         \/ StopAll \/ StopWait \/ StopUnlink \/ Crash
         \/ \E s \in Conns : Process(s)
  BY ZenonT(60) DEF Next, Accept, Submit, Refuse, Reap, Scan, SkipUnlink, ClaimUnlink, ProbeRead,
         ProbeDrop, Worker, Recv, WorkerExit, Acquire, Handoff, Connect, AwaitAccept,
         AwaitFail, Lookup, OwnsCheck, Terminate, TermWait, Insert, ColdAccept, ColdFail,
         Release, Answer, Shutdown, BeginShutdown, Exit, Start, Threads, procVars

(* A desktop opens when its supervisor is started, behind its own name.     *)
LEMMA SpawnOpens ==
  ASSUME DesktopInv, NoStrandedDesktop', NEW w \in Workers, Spawn(w)
  PROVE  PromiseStep
<1>1. /\ pc[w] = "spawn" /\ cur[w] \in Conns /\ UserOf(w) = UidOf[cur[w]]
      /\ UserOf(w) \in Uids /\ name' = name /\ name[UserOf(w)] = cur[w]
      /\ KeptAt(UserOf(w)) = {}
  BY PoolAssumption
     DEF PoolAssumption, Spawn, DesktopInv, BaseInv, ControlOK, NameHeld, UserOf, DeskInv,
         NobodyBehind
<1>2. PICK u \in Uids, s \in Conns : u = UserOf(w) /\ s = cur[w]
  BY <1>1
<1>3. s \in KeptAt(u)'
  <2>1. sess' = [sess EXCEPT ![s] = "live"] /\ sup' = [sup EXCEPT ![s] = "running"]
    BY <1>2 DEF Spawn
  <2>2. DOMAIN sess = Conns /\ DOMAIN sup = Conns
    BY DEF DesktopInv, BaseInv, TypeOK, ProcessesOK
  <2>3. Kept(s)'
    BY <2>1, <2>2 DEF Kept
  <2>q. QED
    BY <1>1, <1>2, <2>3 DEF KeptAt
<1>4. ASSUME NEW v \in Uids, v # u PROVE KeptAt(v)' = KeptAt(v)
  <2>1. \A c \in Conns : c # s => sess'[c] = sess[c] /\ sup'[c] = sup[c]
    BY <1>2 DEF Spawn, DesktopInv, BaseInv, TypeOK, ProcessesOK
  <2>2. \A c \in Conns : UidOf[c] = v => c # s
    BY <1>1, <1>2, <1>4
  <2>q. QED
    BY <2>1, <2>2 DEF KeptAt, Kept
<1>5. NoStrandedDesktop
  BY DEF DesktopInv, DeskInv
<1>6. OpenDesktop(u) = None /\ OpenDesktop(u)' = name[u]
  BY <1>1, <1>2, <1>3, <1>5, OpenIsNamed, OpenIsNamedNext
<1>7. \A v \in Uids : v # u => OpenDesktop(v)' = OpenDesktop(v)
  BY <1>1, <1>4, <1>5, OpenIsNamed, OpenIsNamedNext
<1>8. name[u] # None
  BY <1>1, <1>2, PoolAssumption DEF PoolAssumption
<1>9. Promise!Open(u)
  <2> DEFINE before == [v \in Uids |-> OpenDesktop(v)]
  <2>1. before' = [before EXCEPT ![u] = name[u]]
    BY <1>6, <1>7
  <2>q. QED
    BY <1>1, <1>6, <1>8, <2>1 DEF Promise!Open
<1>q. QED
  BY <1>9 DEF PromiseStep, Promise!Next

(* ... and one name at a time.                                              *)
LEMMA MovingOne ==
  ASSUME DeskInv, NoStrandedDesktop', name \in [Uids -> Conns \cup {None}],
         NEW u \in Uids, KeptAt(u) = {}, NEW target \in Conns \cup {None},
         name' = [name EXCEPT ![u] = target], \A s \in Conns : Kept(s)' <=> Kept(s)
  PROVE  PromiseStep
<1>1. name' = [v \in Uids |-> IF v \in {u} THEN target ELSE name[v]]
  OBVIOUS
<1>2. {u} \in SUBSET Uids /\ \A v \in {u} : KeptAt(v) = {}
  OBVIOUS
<1>q. QED
  BY ZenonT(60), <1>1, <1>2, Moving DEF DeskInv

(* Names are unlinked or bound only where no desktop is behind them.        *)
LEMMA NamesMove ==
  ASSUME DesktopInv, NoStrandedDesktop',
         \/ \E t \in Threads : Unlink(t)
         \/ \E w \in Workers : Clear(w) \/ Bind(w)
         \/ StopUnlink
  PROVE  PromiseStep
<1> USE PoolAssumption DEF PoolAssumption, DesktopInv, BaseInv, TypeOK, PcOK, ThreadsOK,
        ProcessesOK, ControlOK, Threads, UserOf, procVars
<1>1. name \in [Uids -> Conns \cup {None}] /\ NoStrandedDesktop
  BY DEF DeskInv
<1>2. ASSUME NEW t \in Threads, Unlink(t) PROVE PromiseStep
  <2>1. victim[t] \in Conns /\ KeptAt(UidOf[victim[t]]) = {}
    BY <1>2 DEF Unlink, DeskInv, NobodyReaped
  <2>2. \A s \in Conns : Kept(s)' <=> Kept(s)
    BY <1>2 DEF Unlink, Kept
  <2>q. QED
    BY <1>1, <1>2, <2>1, <2>2, MovingOne DEF Unlink
<1>3. ASSUME NEW w \in Workers, Clear(w) PROVE PromiseStep
  <2>1. cur[w] \in Conns /\ KeptAt(UserOf(w)) = {}
    BY <1>3 DEF Clear, DeskInv, NobodyBehind
  <2>2. \A s \in Conns : Kept(s)' <=> Kept(s)
    BY <1>3 DEF Clear, Kept
  <2>q. QED
    BY <1>1, <1>3, <2>1, <2>2, MovingOne DEF Clear
<1>4. ASSUME NEW w \in Workers, Bind(w) PROVE PromiseStep
  <2>1. cur[w] \in Conns /\ KeptAt(UserOf(w)) = {}
    BY <1>4 DEF Bind, DeskInv, NobodyBehind
  <2>2. sess[cur[w]] = "none"
    BY <1>4 DEF Bind, IdInv, FreshOK, PreBind
  <2>3. \A s \in Conns : Kept(s)' <=> Kept(s)
    BY <1>4, <2>1, <2>2 DEF Bind, Kept
  <2>q. QED
    BY <1>1, <1>4, <2>1, <2>3, MovingOne DEF Bind
<1>5. ASSUME StopUnlink PROVE PromiseStep
  <2> DEFINE U == {u \in Uids : \E r \in ended[Main] : r.uid = u}
  <2>1. \A s \in Conns : Kept(s)' <=> Kept(s)
    BY <1>5 DEF StopUnlink, Kept
  <2>2. name' = [u \in Uids |-> IF u \in U THEN None ELSE name[u]]
    BY <1>5 DEF StopUnlink
  <2>3. ASSUME NEW u \in U, NEW s \in KeptAt(u) PROVE FALSE
    <3>1. PICK r \in ended[Main] : r.uid = u
      OBVIOUS
    <3>2. r.started \in mine /\ UidOf[r.started] = u
      BY <3>1 DEF IdInv, ReapOK, RecordsOK
    <3>3. s \in Conns /\ Kept(s) /\ UidOf[s] = u
      BY DEF KeptAt
    <3>4. s \in mine
      BY <3>2, <3>3 DEF DeskInv, OneDaemon
    <3>q. QED
      BY <1>5, <3>3, <3>4 DEF StopUnlink, DeskInv, NobodyLeft
  <2>4. U \in SUBSET Uids /\ \A u \in U : KeptAt(u) = {}
    BY <2>3
  <2>q. QED
    BY <1>1, <2>1, <2>2, <2>4, Moving
<1>q. QED
  BY <1>2, <1>3, <1>4, <1>5

(* No other step opens a desktop or moves a name.                           *)
LEMMA OthersClose ==
  ASSUME DesktopInv, NoStrandedDesktop',
         \/ UNCHANGED procVars
         \/ \E w \in Workers : Take(w) \/ TermKill(w) \/ SpawnFail(w)
         \/ StopAll \/ StopWait \/ Crash
         \/ \E s \in Conns : Process(s)
  PROVE  PromiseStep
<1>1. name' = name
  BY DEF procVars, Take, TermKill, SpawnFail, StopAll, StopWait, Crash, Process,
         SessionEnds, SupervisorExits, SupervisorKilled
<1>2. \A s \in Conns : Kept(s)' => Kept(s)
  BY DEF DesktopInv, BaseInv, TypeOK, ProcessesOK, Kept, Sigterm, Sigkill, procVars,
         Take, TermKill, SpawnFail, StopAll, StopWait, Crash, Process, SessionEnds,
         SupervisorExits, SupervisorKilled
<1>q. QED
  BY <1>1, <1>2, Closing DEF DesktopInv, DeskInv

(* The daemon gives each user at most one desktop, behind a name that leads *)
(* to it for as long as it is open: SessionManager and HandoffPool, their   *)
(* threads, shutdowns, crashes and restarts implement UserDesktop.          *)
THEOREM Promised == Spec => ImplementsUserDesktop
<1>1. Init => Promise!Init
  <2> SUFFICES ASSUME Init PROVE Promise!Init
    OBVIOUS
  <2>1. \A s \in Conns : ~Kept(s)
    BY DEF Init, Kept
  <2>2. \A u \in Uids : OpenDesktop(u) = None
    BY <2>1 DEF OpenDesktop
  <2>q. QED
    BY <2>2 DEF Init, Promise!Init
<1>2. DesktopInv /\ DesktopInv' /\ [Next]_vars => PromiseStep
  <2> SUFFICES ASSUME DesktopInv, DesktopInv', [Next]_vars PROVE PromiseStep
    OBVIOUS
  <2>1. NoStrandedDesktop'
    BY DEF DesktopInv, DeskInv
  <2>2. CASE Next
    BY <2>1, <2>2, ProcessSteps, SpawnOpens, NamesMove, OthersClose
  <2>3. CASE UNCHANGED vars
    BY <2>1, <2>3, OthersClose DEF vars
  <2>q. QED
    BY <2>2, <2>3
<1>3. Spec => []DesktopInv
  BY Desktops, PTL DEF DesktopInv
<1>q. QED
  BY <1>1, <1>2, <1>3, PTL DEF Spec, ImplementsUserDesktop, Promise!Spec, PromiseStep

-----------------------------------------------------------------------------
(* A name leads to a session of its user's, one that was bound.             *)
NamesOK == \A u \in Uids : name[u] # None => UidOf[name[u]] = u /\ sess[name[u]] # "none"

(* A session is bound before it is spawned, and spawned before it is ours.  *)
SpawnOK ==
  /\ \A s \in mine : sess[s] \in {"live", "dead"}
  /\ \A w \in Workers : pc[w] = "spawn" => sess[cur[w]] = "bound"

(* A session is on record before it is served for the first time.           *)
ServedOK ==
  /\ \A s \in served : sess[s] # "none"
  /\ \A w \in Workers : pc[w] \in {"spawn", "insert"} => cur[w] \notin served

(* The reaper unlinks names of sessions that were ours and have no successor. *)
ReapedOurs == \A t \in Threads : pc[t] = "unlinking" =>
  victim[t] \in mine /\ Records(UidOf[victim[t]]) = {}

(* A user whose name leads to a running session of an earlier daemon's has  *)
(* had none of this one's.                                                  *)
Adopted(u) == \E s \in Conns \ mine : name[u] = s /\ sess[s] = "live"
AdoptedAlone == \A u \in Uids : Adopted(u) => \A m \in mine : UidOf[m] # u

(* It is never the one being replaced.                                      *)
AdoptedKept ==
  \A w \in Workers : pc[w] \in {"take", "term", "clear", "bind"} => ~Adopted(UserOf(w))

(* There is one record per user.                                            *)
UniqueRecords == \A r, q \in sessions : r.uid = q.uid => r = q

(* A record of ours whose name is gone, or being replaced, is of a          *)
(* supervisor that has exited.                                              *)
ExitedIfUnnamed ==
  \A r \in sessions : r.owned => sup[r.started] = "exited" \/ name[r.uid] = r.started
ExitedIfReplaced ==
  \A w \in Workers : pc[w] \in {"term", "clear", "bind", "spawn", "insert"} =>
    \A r \in sessions : r.uid = UserOf(w) /\ r.owned => sup[r.started] = "exited"

(* Every supervisor of ours has exited, is on record, is about to be, or is *)
(* being waited for.                                                        *)
Accounted == ~Draining => \A s \in mine :
  \/ sup[s] = "exited"
  \/ \E r \in sessions : r.owned /\ r.started = s
  \/ \E w \in Workers : cur[w] = s /\ pc[w] = "insert"
  \/ \E w \in Workers : victim[w] = s /\ pc[w] = "term"

(* stop_all waits for those on record, which are all there are.             *)
Stopped ==
  /\ pc[Main] \in {"stopwait", "stopunlink"} => sessions = {}
  /\ pc[Main] = "stopwait" =>
       \A s \in mine : sup[s] = "exited" \/ \E r \in ended[Main] : r.started = s
  /\ pc[Main] = "stopunlink" => \A s \in mine : sup[s] = "exited"

(* A record the probe found no socket for is still there only while the     *)
(* user's next session waits to be recorded.                                *)
ProbedGone ==
  \A t \in Threads : pc[t] = "probed" => \A g \in copies[t] \cap sessions, s \in Conns :
    UidOf[s] = g.uid /\ Kept(s) => \E w \in Workers : cur[w] = s /\ pc[w] = "insert"

LedgerInv ==
  /\ NamesOK /\ SpawnOK /\ ServedOK /\ ReapedOurs /\ AdoptedAlone /\ AdoptedKept
  /\ UniqueRecords /\ ExitedIfUnnamed /\ ExitedIfReplaced /\ Accounted /\ Stopped
  /\ ProbedGone /\ ServedSessionsRecorded

-----------------------------------------------------------------------------
(* A worker under its user's latch is the only thread that is.              *)
LEMMA Alone ==
  ASSUME BaseInv, NEW w \in Workers, pc[w] \in Latched
  PROVE  /\ \A v \in Workers : pc[v] \in Latched /\ UserOf(v) = UserOf(w) => v = w
         /\ \A t \in Threads : pc[t] = "unlinking" => UidOf[victim[t]] # UserOf(w)
<1>1. UserOf(w) \in Uids
  BY PoolAssumption DEF PoolAssumption, BaseInv, ControlOK, Latched, UserOf
<1>q. QED
  BY <1>1 DEF BaseInv, LatchExclusion, HandoffHolds, ReapHolds

(* Names lead to sessions of their own users that have been bound.          *)
LEMMA NamesStep == ASSUME DesktopInv, LedgerInv, Next PROVE NamesOK'
<1> USE PoolAssumption DEF PoolAssumption, DesktopInv, BaseInv, TypeOK, ProcessesOK,
        ControlOK, UserOf, NamesOK, LedgerInv, procVars
<1>1. ASSUME name' = name, \A s \in Conns : sess[s] # "none" => sess'[s] # "none"
      PROVE  NamesOK'
  BY <1>1
<1>2. ASSUME NEW u \in Uids, name' = [name EXCEPT ![u] = None], sess' = sess PROVE NamesOK'
  BY <1>2
<1>3. ASSUME NEW w \in Workers, Bind(w) PROVE NamesOK'
  BY <1>3 DEF Bind
<1>4. ASSUME NEW t \in Threads, Unlink(t) PROVE NamesOK'
  BY <1>2, <1>4 DEF Unlink
<1>5. ASSUME NEW w \in Workers, Clear(w) PROVE NamesOK'
  BY <1>2, <1>5 DEF Clear
<1>6. ASSUME StopUnlink PROVE NamesOK'
  BY <1>6 DEF StopUnlink
<1>7. ASSUME \/ UNCHANGED procVars
             \/ \E w \in Workers : Take(w) \/ TermKill(w) \/ Spawn(w) \/ SpawnFail(w)
             \/ StopAll \/ StopWait \/ Crash
             \/ \E s \in Conns : Process(s)
      PROVE  name' = name /\ \A s \in Conns : sess[s] # "none" => sess'[s] # "none"
  <2>1. name' = name
    BY <1>7 DEF Take, TermKill, Spawn, SpawnFail, StopAll, StopWait, Crash, Process,
           SessionEnds, SupervisorExits, SupervisorKilled
  <2>2. \/ sess' = sess
        \/ \E s \in Conns, l \in {"live", "dead"} : sess' = [sess EXCEPT ![s] = l]
        \/ Crash
    BY <1>7 DEF Take, TermKill, Spawn, SpawnFail, StopAll, StopWait, Process,
           SessionEnds, SupervisorExits, SupervisorKilled
  <2>q. QED
    BY <2>1, <2>2 DEF Crash
<1>q. QED
  BY <1>1, <1>3, <1>4, <1>5, <1>6, <1>7, ProcessSteps

(* A worker reaches "spawn" by binding, and ours are spawned.               *)
LEMMA SpawnStep == ASSUME DesktopInv, LedgerInv, Next PROVE SpawnOK'
<1> USE PoolAssumption DEF PoolAssumption, DesktopInv, BaseInv, TypeOK, PcOK,
                           ThreadsOK, ProcessesOK, ControlOK, UserOf, LedgerInv,
                           Threads, Goto, threadVars, procVars, histVars, SpawnOK
<1>1. ASSUME NEW c \in Conns, Submit(c) \/ Refuse(c) PROVE SpawnOK'
  BY <1>1 DEF Submit, Refuse
<1>2. ASSUME NEW t \in Threads,
             Scan(t) \/ SkipUnlink(t) \/ ClaimUnlink(t) \/ Unlink(t) \/ ProbeRead(t) \/ ProbeDrop(t)
      PROVE  SpawnOK'
  BY <1>2 DEF Scan, SkipUnlink, ClaimUnlink, Unlink, ProbeRead, ProbeDrop, AfterReap
<1>3. ASSUME NEW w \in Workers,
             Recv(w) \/ WorkerExit(w) \/ Acquire(w) \/ Release(w) \/ Answer(w)
      PROVE  SpawnOK'
  BY <1>3 DEF Recv, WorkerExit, Acquire, Release, Answer
<1>4. ASSUME NEW w \in Workers,
             Connect(w) \/ AwaitAccept(w) \/ AwaitFail(w) \/ Lookup(w) \/ OwnsCheck(w)
      PROVE  SpawnOK'
  BY <1>4 DEF Connect, AwaitAccept, AwaitFail, Lookup, OwnsCheck, Record, Records
<1>5. ASSUME NEW w \in Workers,
             Take(w) \/ TermWait(w) \/ TermKill(w) \/ Clear(w)
      PROVE  SpawnOK'
  BY <1>5 DEF Take, TermWait, TermKill, Clear, Records, Sigterm, Sigkill
<1>6. ASSUME NEW w \in Workers, Bind(w) PROVE SpawnOK'
  BY <1>6 DEF Bind, IdInv, FreshOK, PreBind, JobsOK
<1>7. ASSUME NEW w \in Workers, Spawn(w) PROVE SpawnOK'
  BY <1>7 DEF Spawn, IdInv, JobsOK
<1>8. ASSUME NEW w \in Workers, SpawnFail(w) PROVE SpawnOK'
  BY <1>8 DEF SpawnFail, IdInv, JobsOK
<1>9. ASSUME NEW w \in Workers,
             Insert(w) \/ ColdAccept(w) \/ ColdFail(w)
      PROVE  SpawnOK'
  BY <1>9 DEF Insert, ColdAccept, ColdFail, Record, Records
<1>10. ASSUME BeginShutdown \/ Exit \/ StopAll \/ StopWait \/ StopUnlink
       PROVE  SpawnOK'
  BY <1>10 DEF BeginShutdown, Exit, StopAll, StopWait, StopUnlink, Joined, Sigterm,
               Sigkill
<1>11. ASSUME Crash PROVE SpawnOK'
  BY <1>11 DEF Crash
<1>12. ASSUME Start PROVE SpawnOK'
  BY <1>12 DEF Start
<1>13. ASSUME NEW s \in Conns,
              SessionEnds(s) \/ SupervisorExits(s) \/ SupervisorKilled(s)
       PROVE  SpawnOK'
  BY <1>13 DEF SessionEnds, SupervisorExits, SupervisorKilled
<1>q. QED
  BY <1>1, <1>2, <1>3, <1>4, <1>5, <1>6, <1>7, <1>8, <1>9, <1>10, <1>11, <1>12, <1>13
     DEF Next, Accept, Reap, Worker, Handoff, Terminate, Shutdown, Process, Threads

(* A session that is not yet on record has not been served.                 *)
LEMMA ServedStep == ASSUME DesktopInv, LedgerInv, Next PROVE ServedOK'
<1> USE PoolAssumption DEF PoolAssumption, DesktopInv, BaseInv, TypeOK, PcOK,
                           ThreadsOK, ProcessesOK, ControlOK, UserOf, LedgerInv,
                           Threads, Goto, threadVars, procVars, histVars, ServedOK
<1>1. ASSUME NEW c \in Conns, Submit(c) \/ Refuse(c) PROVE ServedOK'
  BY <1>1 DEF Submit, Refuse
<1>2. ASSUME NEW t \in Threads,
             Scan(t) \/ SkipUnlink(t) \/ ClaimUnlink(t) \/ Unlink(t) \/ ProbeRead(t) \/ ProbeDrop(t)
      PROVE  ServedOK'
  BY <1>2 DEF Scan, SkipUnlink, ClaimUnlink, Unlink, ProbeRead, ProbeDrop, AfterReap
<1>3. ASSUME NEW w \in Workers,
             Recv(w) \/ WorkerExit(w) \/ Acquire(w) \/ Release(w) \/ Answer(w)
      PROVE  ServedOK'
  BY <1>3 DEF Recv, WorkerExit, Acquire, Release, Answer
<1>4. ASSUME NEW w \in Workers, Lookup(w) PROVE ServedOK'
  BY <1>4, Alone DEF Lookup, NamesOK, NameHeld, Latched
<1>5. ASSUME NEW w \in Workers,
             Connect(w) \/ AwaitAccept(w) \/ AwaitFail(w) \/ OwnsCheck(w)
      PROVE  ServedOK'
  BY <1>5 DEF Connect, AwaitAccept, AwaitFail, OwnsCheck
<1>6. ASSUME NEW w \in Workers,
             Take(w) \/ TermWait(w) \/ TermKill(w) \/ Clear(w)
      PROVE  ServedOK'
  BY <1>6 DEF Take, TermWait, TermKill, Clear, Records, Sigterm, Sigkill
<1>7. ASSUME NEW w \in Workers, Bind(w) PROVE ServedOK'
  <2>1. cur[w] \in Conns /\ cur[w] \notin served
    BY <1>7 DEF Bind, IdInv, FreshOK, PreBind
  <2>2. served' = served /\ cur' = cur
    BY <1>7 DEF Bind
  <2>3. \A s \in Conns : sess[s] # "none" => sess'[s] # "none"
    BY <1>7 DEF Bind
  <2>4. pc' \in {[pc EXCEPT ![w] = "spawn"], [pc EXCEPT ![w] = "release"]}
    BY <1>7 DEF Bind
  <2>q. QED
    BY <2>1, <2>2, <2>3, <2>4
<1>8. ASSUME NEW w \in Workers, ColdAccept(w) PROVE ServedOK'
  BY <1>8, Alone DEF ColdAccept, NamesOK, NameHeld, Latched
<1>9. ASSUME NEW w \in Workers,
             Spawn(w) \/ SpawnFail(w) \/ Insert(w) \/ ColdFail(w)
      PROVE  ServedOK'
  BY <1>9 DEF Spawn, SpawnFail, Insert, ColdFail, Record, Records
<1>10. ASSUME BeginShutdown \/ Exit \/ StopAll \/ StopWait \/ StopUnlink
       PROVE  ServedOK'
  BY <1>10 DEF BeginShutdown, Exit, StopAll, StopWait, StopUnlink, Joined, Sigterm,
               Sigkill
<1>11. ASSUME Crash PROVE ServedOK'
  BY <1>11 DEF Crash
<1>12. ASSUME Start PROVE ServedOK'
  BY <1>12 DEF Start
<1>13. ASSUME NEW s \in Conns,
              SessionEnds(s) \/ SupervisorExits(s) \/ SupervisorKilled(s)
       PROVE  ServedOK'
  BY <1>13 DEF SessionEnds, SupervisorExits, SupervisorKilled
<1>q. QED
  BY <1>1, <1>2, <1>3, <1>4, <1>5, <1>6, <1>7, <1>8, <1>9, <1>10, <1>11, <1>12, <1>13
     DEF Next, Accept, Reap, Worker, Handoff, Terminate, Shutdown, Process, Threads

(* No session of the user's is recorded while the reaper has the latch.      *)
LEMMA ReapedStep == ASSUME DesktopInv, LedgerInv, Next PROVE ReapedOurs'
<1> USE PoolAssumption DEF PoolAssumption, DesktopInv, BaseInv, TypeOK, PcOK,
                           ThreadsOK, ProcessesOK, ControlOK, UserOf, LedgerInv,
                           Threads, Goto, threadVars, procVars, histVars, ReapedOurs,
                           Records, Record
<1>1. ASSUME NEW c \in Conns, Submit(c) \/ Refuse(c) PROVE ReapedOurs'
  BY <1>1 DEF Submit, Refuse
<1>2. ASSUME NEW t \in Threads, ClaimUnlink(t) PROVE ReapedOurs'
  BY <1>2 DEF ClaimUnlink, IdInv, ReapOK, RecordsOK
<1>3. ASSUME NEW t \in Threads,
             Scan(t) \/ SkipUnlink(t) \/ Unlink(t) \/ ProbeRead(t) \/ ProbeDrop(t)
      PROVE  ReapedOurs'
  BY <1>3 DEF Scan, SkipUnlink, Unlink, ProbeRead, ProbeDrop, AfterReap
<1>4. ASSUME NEW w \in Workers,
             Recv(w) \/ WorkerExit(w) \/ Acquire(w) \/ Release(w) \/ Answer(w)
      PROVE  ReapedOurs'
  BY <1>4 DEF Recv, WorkerExit, Acquire, Release, Answer
<1>5. ASSUME NEW w \in Workers, Lookup(w) PROVE ReapedOurs'
  BY <1>5, Alone DEF Lookup, Latched
<1>6. ASSUME NEW w \in Workers,
             Connect(w) \/ AwaitAccept(w) \/ AwaitFail(w) \/ OwnsCheck(w)
      PROVE  ReapedOurs'
  BY <1>6 DEF Connect, AwaitAccept, AwaitFail, OwnsCheck
<1>7. ASSUME NEW w \in Workers,
             Take(w) \/ TermWait(w) \/ TermKill(w) \/ Clear(w)
      PROVE  ReapedOurs'
  BY <1>7 DEF Take, TermWait, TermKill, Clear, Sigterm, Sigkill
<1>8. ASSUME NEW w \in Workers, Insert(w) PROVE ReapedOurs'
  BY <1>8, Alone DEF Insert, Latched
<1>9. ASSUME NEW w \in Workers,
             Bind(w) \/ Spawn(w) \/ SpawnFail(w) \/ ColdAccept(w) \/ ColdFail(w)
      PROVE  ReapedOurs'
  BY <1>9 DEF Bind, Spawn, SpawnFail, ColdAccept, ColdFail
<1>10. ASSUME BeginShutdown \/ Exit \/ StopAll \/ StopWait \/ StopUnlink
       PROVE  ReapedOurs'
  BY <1>10 DEF BeginShutdown, Exit, StopAll, StopWait, StopUnlink, Joined, Sigterm,
               Sigkill
<1>11. ASSUME Crash PROVE ReapedOurs'
  BY <1>11 DEF Crash
<1>12. ASSUME Start PROVE ReapedOurs'
  BY <1>12 DEF Start
<1>13. ASSUME NEW s \in Conns,
              SessionEnds(s) \/ SupervisorExits(s) \/ SupervisorKilled(s)
       PROVE  ReapedOurs'
  BY <1>13 DEF SessionEnds, SupervisorExits, SupervisorKilled
<1>q. QED
  BY <1>1, <1>2, <1>3, <1>4, <1>5, <1>6, <1>7, <1>8, <1>9, <1>10, <1>11, <1>12, <1>13
     DEF Next, Accept, Reap, Worker, Handoff, Terminate, Shutdown, Process, Threads

(* A new session of ours takes the name of the one before it.                *)
LEMMA AdoptedAloneStep == ASSUME DesktopInv, LedgerInv, Next PROVE AdoptedAlone'
<1> USE PoolAssumption DEF PoolAssumption, DesktopInv, BaseInv, TypeOK, PcOK,
                           ThreadsOK, ProcessesOK, ControlOK, UserOf, LedgerInv,
                           Threads, Goto, threadVars, procVars, histVars,
                           AdoptedAlone, Adopted
<1>1. ASSUME NEW c \in Conns, Submit(c) \/ Refuse(c) PROVE AdoptedAlone'
  BY <1>1 DEF Submit, Refuse
<1>2. ASSUME NEW t \in Threads,
             Scan(t) \/ SkipUnlink(t) \/ ClaimUnlink(t) \/ Unlink(t) \/ ProbeRead(t) \/ ProbeDrop(t)
      PROVE  AdoptedAlone'
  BY <1>2 DEF Scan, SkipUnlink, ClaimUnlink, Unlink, ProbeRead, ProbeDrop, AfterReap
<1>3. ASSUME NEW w \in Workers,
             Recv(w) \/ WorkerExit(w) \/ Acquire(w) \/ Release(w) \/ Answer(w)
      PROVE  AdoptedAlone'
  BY <1>3 DEF Recv, WorkerExit, Acquire, Release, Answer
<1>4. ASSUME NEW w \in Workers,
             Connect(w) \/ AwaitAccept(w) \/ AwaitFail(w) \/ Lookup(w) \/ OwnsCheck(w)
      PROVE  AdoptedAlone'
  BY <1>4 DEF Connect, AwaitAccept, AwaitFail, Lookup, OwnsCheck, Record, Records
<1>5. ASSUME NEW w \in Workers,
             Take(w) \/ TermWait(w) \/ TermKill(w) \/ Clear(w)
      PROVE  AdoptedAlone'
  BY <1>5 DEF Take, TermWait, TermKill, Clear, Records, Sigterm, Sigkill
<1>6. ASSUME NEW w \in Workers, Bind(w) PROVE AdoptedAlone'
  BY <1>6 DEF Bind
<1>7. ASSUME NEW w \in Workers, Spawn(w) PROVE AdoptedAlone'
  BY <1>7 DEF Spawn, NameHeld
<1>8. ASSUME NEW w \in Workers,
             SpawnFail(w) \/ Insert(w) \/ ColdAccept(w) \/ ColdFail(w)
      PROVE  AdoptedAlone'
  BY <1>8 DEF SpawnFail, Insert, ColdAccept, ColdFail, Record, Records
<1>9. ASSUME BeginShutdown \/ Exit \/ StopAll \/ StopWait \/ StopUnlink
      PROVE  AdoptedAlone'
  BY <1>9 DEF BeginShutdown, Exit, StopAll, StopWait, StopUnlink, Joined, Sigterm,
              Sigkill
<1>10. ASSUME Crash PROVE AdoptedAlone'
  BY <1>10 DEF Crash
<1>11. ASSUME Start PROVE AdoptedAlone'
  BY <1>11 DEF Start
<1>12. ASSUME NEW s \in Conns,
              SessionEnds(s) \/ SupervisorExits(s) \/ SupervisorKilled(s)
       PROVE  AdoptedAlone'
  BY <1>12 DEF SessionEnds, SupervisorExits, SupervisorKilled
<1>q. QED
  BY <1>1, <1>2, <1>3, <1>4, <1>5, <1>6, <1>7, <1>8, <1>9, <1>10, <1>11, <1>12
     DEF Next, Accept, Reap, Worker, Handoff, Terminate, Shutdown, Process, Threads

(* Only a name that is free, a session that is dead or one that is ours is   *)
(* replaced.                                                                *)
LEMMA AdoptedKeptStep == ASSUME DesktopInv, LedgerInv, Next PROVE AdoptedKept'
<1> USE PoolAssumption DEF PoolAssumption, DesktopInv, BaseInv, TypeOK, PcOK,
                           ThreadsOK, ProcessesOK, ControlOK, UserOf, LedgerInv,
                           Threads, Goto, threadVars, procVars, histVars,
                           AdoptedKept, Adopted
<1>1. ASSUME NEW c \in Conns, Submit(c) \/ Refuse(c) PROVE AdoptedKept'
  BY <1>1 DEF Submit, Refuse
<1>2. ASSUME NEW t \in Threads,
             Scan(t) \/ SkipUnlink(t) \/ ClaimUnlink(t) \/ Unlink(t) \/ ProbeRead(t) \/ ProbeDrop(t)
      PROVE  AdoptedKept'
  BY <1>2 DEF Scan, SkipUnlink, ClaimUnlink, Unlink, ProbeRead, ProbeDrop, AfterReap
<1>3. ASSUME NEW w \in Workers,
             Recv(w) \/ WorkerExit(w) \/ Acquire(w) \/ Release(w) \/ Answer(w)
      PROVE  AdoptedKept'
  BY <1>3 DEF Recv, WorkerExit, Acquire, Release, Answer
<1>4. ASSUME NEW w \in Workers, Connect(w) PROVE AdoptedKept'
  BY <1>4 DEF Connect, Listening
<1>5. ASSUME NEW w \in Workers, OwnsCheck(w) PROVE AdoptedKept'
  <2>1. OwnsSession(UserOf(w)) => \E m \in mine : UidOf[m] = UserOf(w)
    BY <1>5 DEF OwnsCheck, OwnsSession, Records, IdInv, ReapOK, RecordsOK, WorkersGone
  <2>2. UserOf(w) \in Uids /\ pc[w] = "owns"
    BY <1>5 DEF OwnsCheck
  <2>3. OwnsSession(UserOf(w)) => ~Adopted(UserOf(w))
    BY <2>1, <2>2 DEF AdoptedAlone
  <2>q. QED
    BY <1>5, <2>3 DEF OwnsCheck
<1>6. ASSUME NEW w \in Workers,
             AwaitAccept(w) \/ AwaitFail(w) \/ Lookup(w)
      PROVE  AdoptedKept'
  BY <1>6 DEF AwaitAccept, AwaitFail, Lookup, Record, Records
<1>7. ASSUME NEW w \in Workers, Clear(w) PROVE AdoptedKept'
  BY <1>7, Alone DEF Clear, Latched
<1>8. ASSUME NEW w \in Workers,
             Take(w) \/ TermWait(w) \/ TermKill(w)
      PROVE  AdoptedKept'
  BY <1>8 DEF Take, TermWait, TermKill, Records, Sigterm, Sigkill
<1>9. ASSUME NEW w \in Workers, Bind(w) PROVE AdoptedKept'
  BY <1>9, Alone DEF Bind, Latched
<1>10. ASSUME NEW w \in Workers, Spawn(w) PROVE AdoptedKept'
  BY <1>10, Alone DEF Spawn, Latched, NameHeld
<1>11. ASSUME NEW w \in Workers, ColdFail(w) PROVE AdoptedKept'
  BY <1>11 DEF ColdFail, NameHeld, IdInv, ReapOK
<1>12. ASSUME NEW w \in Workers,
              SpawnFail(w) \/ Insert(w) \/ ColdAccept(w)
       PROVE  AdoptedKept'
  BY <1>12 DEF SpawnFail, Insert, ColdAccept, Record, Records
<1>13. ASSUME BeginShutdown \/ Exit \/ StopAll \/ StopWait \/ StopUnlink
       PROVE  AdoptedKept'
  BY <1>13 DEF BeginShutdown, Exit, StopAll, StopWait, StopUnlink, Joined, Sigterm,
               Sigkill
<1>14. ASSUME Crash PROVE AdoptedKept'
  BY <1>14 DEF Crash
<1>15. ASSUME Start PROVE AdoptedKept'
  BY <1>15 DEF Start
<1>16. ASSUME NEW s \in Conns,
              SessionEnds(s) \/ SupervisorExits(s) \/ SupervisorKilled(s)
       PROVE  AdoptedKept'
  BY <1>16 DEF SessionEnds, SupervisorExits, SupervisorKilled
<1>q. QED
  BY <1>1, <1>2, <1>3, <1>4, <1>5, <1>6, <1>7, <1>8, <1>9, <1>10, <1>11, <1>12,
     <1>13, <1>14, <1>15, <1>16
     DEF Next, Accept, Reap, Worker, Handoff, Terminate, Shutdown, Process, Threads

(* A record is added where there is none, or in place of the others.         *)
LEMMA UniqueStep == ASSUME DesktopInv, LedgerInv, Next PROVE UniqueRecords'
<1> USE PoolAssumption DEF PoolAssumption, DesktopInv, BaseInv, TypeOK, PcOK,
                           ThreadsOK, ProcessesOK, ControlOK, UserOf, LedgerInv,
                           Threads, Goto, threadVars, procVars, histVars,
                           UniqueRecords, Records, Record, TablesOK, SessionRecord
<1>1. ASSUME NEW c \in Conns, Submit(c) \/ Refuse(c) PROVE UniqueRecords'
  BY <1>1 DEF Submit, Refuse
<1>2. ASSUME NEW t \in Threads,
             Scan(t) \/ SkipUnlink(t) \/ ClaimUnlink(t) \/ Unlink(t) \/ ProbeRead(t) \/ ProbeDrop(t)
      PROVE  UniqueRecords'
  BY <1>2 DEF Scan, SkipUnlink, ClaimUnlink, Unlink, ProbeRead, ProbeDrop, AfterReap
<1>3. ASSUME NEW w \in Workers,
             Recv(w) \/ WorkerExit(w) \/ Acquire(w) \/ Release(w) \/ Answer(w)
      PROVE  UniqueRecords'
  BY <1>3 DEF Recv, WorkerExit, Acquire, Release, Answer
<1>4. ASSUME NEW w \in Workers, Lookup(w) PROVE UniqueRecords'
  <2>1. Record(UserOf(w), cur[w], FALSE).uid = UserOf(w)
    OBVIOUS
  <2>2. CASE Records(UserOf(w)) # {}
    BY <1>4, <2>2 DEF Lookup
  <2>3. CASE \A q \in sessions : q.uid # UserOf(w)
    BY <1>4, <2>1, <2>3 DEF Lookup
  <2>q. QED
    BY <2>2, <2>3
<1>5. ASSUME NEW w \in Workers,
             Connect(w) \/ AwaitAccept(w) \/ AwaitFail(w) \/ OwnsCheck(w)
      PROVE  UniqueRecords'
  BY <1>5 DEF Connect, AwaitAccept, AwaitFail, OwnsCheck
<1>6. ASSUME NEW w \in Workers, Take(w) PROVE UniqueRecords'
  BY <1>6 DEF Take
<1>7. ASSUME NEW w \in Workers,
             TermWait(w) \/ TermKill(w) \/ Clear(w)
      PROVE  UniqueRecords'
  BY <1>7 DEF TermWait, TermKill, Clear, Sigkill
<1>8. ASSUME NEW w \in Workers, Insert(w) PROVE UniqueRecords'
  <2>1. Record(UserOf(w), cur[w], TRUE).uid = UserOf(w)
    OBVIOUS
  <2>2. \A q \in sessions \ Records(UserOf(w)) : q.uid # UserOf(w)
    OBVIOUS
  <2>q. QED
    BY <1>8, <2>1, <2>2 DEF Insert
<1>9. ASSUME NEW w \in Workers,
             Bind(w) \/ Spawn(w) \/ SpawnFail(w) \/ ColdAccept(w) \/ ColdFail(w)
      PROVE  UniqueRecords'
  BY <1>9 DEF Bind, Spawn, SpawnFail, ColdAccept, ColdFail
<1>10. ASSUME BeginShutdown \/ Exit \/ StopAll \/ StopWait \/ StopUnlink
       PROVE  UniqueRecords'
  BY <1>10 DEF BeginShutdown, Exit, StopAll, StopWait, StopUnlink, Joined, Sigterm,
               Sigkill
<1>11. ASSUME Crash PROVE UniqueRecords'
  BY <1>11 DEF Crash
<1>12. ASSUME Start PROVE UniqueRecords'
  BY <1>12 DEF Start
<1>13. ASSUME NEW s \in Conns,
              SessionEnds(s) \/ SupervisorExits(s) \/ SupervisorKilled(s)
       PROVE  UniqueRecords'
  BY <1>13 DEF SessionEnds, SupervisorExits, SupervisorKilled
<1>q. QED
  BY <1>1, <1>2, <1>3, <1>4, <1>5, <1>6, <1>7, <1>8, <1>9, <1>10, <1>11, <1>12, <1>13
     DEF Next, Accept, Reap, Worker, Handoff, Terminate, Shutdown, Process, Threads

(* A name is taken away only where no supervisor of ours is left behind it.  *)
LEMMA UnnamedStep == ASSUME DesktopInv, LedgerInv, Next PROVE ExitedIfUnnamed'
<1> USE PoolAssumption DEF PoolAssumption, DesktopInv, BaseInv, TypeOK, PcOK,
                           ThreadsOK, ProcessesOK, ControlOK, UserOf, LedgerInv,
                           Threads, Goto, threadVars, procVars, histVars,
                           ExitedIfUnnamed, RecordsOK, TablesOK, SessionRecord
<1>1. ASSUME NEW c \in Conns, Submit(c) \/ Refuse(c) PROVE ExitedIfUnnamed'
  BY <1>1 DEF Submit, Refuse
<1>2. ASSUME NEW t \in Threads, Unlink(t) PROVE ExitedIfUnnamed'
  BY <1>2 DEF Unlink, ReapedOurs, Records
<1>3. ASSUME NEW t \in Threads,
             Scan(t) \/ SkipUnlink(t) \/ ClaimUnlink(t) \/ ProbeRead(t) \/ ProbeDrop(t)
      PROVE  ExitedIfUnnamed'
  BY <1>3 DEF Scan, SkipUnlink, ClaimUnlink, ProbeRead, ProbeDrop, AfterReap
<1>4. ASSUME NEW w \in Workers,
             Recv(w) \/ WorkerExit(w) \/ Acquire(w) \/ Release(w) \/ Answer(w)
      PROVE  ExitedIfUnnamed'
  BY <1>4 DEF Recv, WorkerExit, Acquire, Release, Answer
<1>5. ASSUME NEW w \in Workers, Lookup(w) PROVE ExitedIfUnnamed'
  BY <1>5 DEF Lookup, Record, Records
<1>6. ASSUME NEW w \in Workers,
             Connect(w) \/ AwaitAccept(w) \/ AwaitFail(w) \/ OwnsCheck(w)
      PROVE  ExitedIfUnnamed'
  BY <1>6 DEF Connect, AwaitAccept, AwaitFail, OwnsCheck
<1>7. ASSUME NEW w \in Workers, Take(w) PROVE ExitedIfUnnamed'
  BY <1>7 DEF Take, Records, Sigterm
<1>8. ASSUME NEW w \in Workers, Clear(w) PROVE ExitedIfUnnamed'
  BY <1>8 DEF Clear, ExitedIfReplaced, Records
<1>9. ASSUME NEW w \in Workers, TermWait(w) \/ TermKill(w) PROVE ExitedIfUnnamed'
  BY <1>9 DEF TermWait, TermKill, Sigkill
<1>10. ASSUME NEW w \in Workers, Bind(w) PROVE ExitedIfUnnamed'
  BY <1>10 DEF Bind, ExitedIfReplaced, Records
<1>11. ASSUME NEW w \in Workers, Spawn(w) PROVE ExitedIfUnnamed'
  <2>1. \A r \in sessions : r.owned => r.started \in mine
    BY <1>11 DEF Spawn, IdInv, ReapOK, WorkersGone
  <2>2. \A r \in sessions : r.owned => r.started # cur[w]
    BY <1>11, <2>1 DEF Spawn, SpawnOK
  <2>q. QED
    BY <1>11, <2>2 DEF Spawn
<1>12. ASSUME NEW w \in Workers, Insert(w) PROVE ExitedIfUnnamed'
  BY <1>12 DEF Insert, Record, Records, NameHeld
<1>13. ASSUME NEW w \in Workers,
              SpawnFail(w) \/ ColdAccept(w) \/ ColdFail(w)
       PROVE  ExitedIfUnnamed'
  BY <1>13 DEF SpawnFail, ColdAccept, ColdFail
<1>14. ASSUME StopUnlink PROVE ExitedIfUnnamed'
  BY <1>14 DEF StopUnlink, Stopped
<1>15. ASSUME BeginShutdown \/ Exit \/ StopAll \/ StopWait PROVE ExitedIfUnnamed'
  BY <1>15 DEF BeginShutdown, Exit, StopAll, StopWait, Joined, Sigterm, Sigkill
<1>16. ASSUME Crash PROVE ExitedIfUnnamed'
  BY <1>16 DEF Crash
<1>17. ASSUME Start PROVE ExitedIfUnnamed'
  BY <1>17 DEF Start
<1>18. ASSUME NEW s \in Conns,
              SessionEnds(s) \/ SupervisorExits(s) \/ SupervisorKilled(s)
       PROVE  ExitedIfUnnamed'
  BY <1>18 DEF SessionEnds, SupervisorExits, SupervisorKilled
<1>q. QED
  BY <1>1, <1>2, <1>3, <1>4, <1>5, <1>6, <1>7, <1>8, <1>9, <1>10, <1>11, <1>12,
     <1>13, <1>14, <1>15, <1>16, <1>17, <1>18
     DEF Next, Accept, Reap, Worker, Handoff, Terminate, Shutdown, Process, Threads

(* A worker starts a session once the one on record before it is over.       *)
LEMMA ReplacedStep == ASSUME DesktopInv, LedgerInv, Next PROVE ExitedIfReplaced'
<1> USE PoolAssumption DEF PoolAssumption, DesktopInv, BaseInv, TypeOK, PcOK,
                           ThreadsOK, ProcessesOK, ControlOK, UserOf, LedgerInv,
                           Threads, Goto, threadVars, procVars, histVars,
                           ExitedIfReplaced
<1>0. \A r \in sessions : r.started \in Conns
  BY DEF TablesOK, SessionRecord
<1> USE <1>0
<1>1. ASSUME NEW c \in Conns, Submit(c) \/ Refuse(c) PROVE ExitedIfReplaced'
  BY <1>1 DEF Submit, Refuse
<1>2. ASSUME NEW t \in Threads,
             Scan(t) \/ SkipUnlink(t) \/ ClaimUnlink(t) \/ Unlink(t) \/ ProbeRead(t) \/ ProbeDrop(t)
      PROVE  ExitedIfReplaced'
  BY <1>2 DEF Scan, SkipUnlink, ClaimUnlink, Unlink, ProbeRead, ProbeDrop, AfterReap
<1>3. ASSUME NEW w \in Workers,
             Recv(w) \/ WorkerExit(w) \/ Acquire(w) \/ Release(w) \/ Answer(w)
      PROVE  ExitedIfReplaced'
  BY <1>3 DEF Recv, WorkerExit, Acquire, Release, Answer
<1>4. ASSUME NEW w \in Workers, Connect(w) PROVE ExitedIfReplaced'
  <2>1. ASSUME name[UserOf(w)] = None, NEW r \in sessions, r.uid = UserOf(w), r.owned
        PROVE  sup[r.started] = "exited"
    BY <1>4, <2>1 DEF Connect, ExitedIfUnnamed
  <2>q. QED
    BY <1>4, <2>1 DEF Connect
<1>5. ASSUME NEW w \in Workers, Lookup(w) PROVE ExitedIfReplaced'
  BY <1>5, Alone DEF Lookup, Record, Records, Latched
<1>6. ASSUME NEW w \in Workers,
             AwaitAccept(w) \/ AwaitFail(w) \/ OwnsCheck(w)
      PROVE  ExitedIfReplaced'
  BY <1>6 DEF AwaitAccept, AwaitFail, OwnsCheck
<1>7. ASSUME NEW w \in Workers, Take(w) PROVE ExitedIfReplaced'
  BY <1>7, Alone DEF Take, Sigterm, Records, Latched
<1>8. ASSUME NEW w \in Workers, Clear(w) PROVE ExitedIfReplaced'
  BY <1>8 DEF Clear
<1>9. ASSUME NEW w \in Workers, TermWait(w) \/ TermKill(w) PROVE ExitedIfReplaced'
  BY <1>9 DEF TermWait, TermKill, Sigkill
<1>10. ASSUME NEW w \in Workers, Bind(w) PROVE ExitedIfReplaced'
  BY <1>10 DEF Bind
<1>11. ASSUME NEW w \in Workers, Spawn(w) PROVE ExitedIfReplaced'
  <2>1. \A r \in sessions : r.owned => r.started \in mine
    BY <1>11 DEF Spawn, IdInv, ReapOK, WorkersGone
  <2>2. \A r \in sessions : r.owned => r.started # cur[w]
    BY <1>11, <2>1 DEF Spawn, SpawnOK
  <2>q. QED
    BY <1>11, <2>2 DEF Spawn
<1>12. ASSUME NEW w \in Workers, Insert(w) PROVE ExitedIfReplaced'
  BY <1>12, Alone DEF Insert, Record, Records, Latched
<1>13. ASSUME NEW w \in Workers,
              SpawnFail(w) \/ ColdAccept(w) \/ ColdFail(w)
       PROVE  ExitedIfReplaced'
  BY <1>13 DEF SpawnFail, ColdAccept, ColdFail
<1>14. ASSUME BeginShutdown \/ Exit \/ StopAll \/ StopWait \/ StopUnlink
       PROVE  ExitedIfReplaced'
  BY <1>14 DEF BeginShutdown, Exit, StopAll, StopWait, StopUnlink, Joined, Sigterm,
               Sigkill
<1>15. ASSUME Crash PROVE ExitedIfReplaced'
  BY <1>15 DEF Crash
<1>16. ASSUME Start PROVE ExitedIfReplaced'
  BY <1>16 DEF Start
<1>17. ASSUME NEW s \in Conns,
              SessionEnds(s) \/ SupervisorExits(s) \/ SupervisorKilled(s)
       PROVE  ExitedIfReplaced'
  BY <1>17 DEF SessionEnds, SupervisorExits, SupervisorKilled
<1>q. QED
  BY <1>1, <1>2, <1>3, <1>4, <1>5, <1>6, <1>7, <1>8, <1>9, <1>10, <1>11, <1>12,
     <1>13, <1>14, <1>15, <1>16, <1>17
     DEF Next, Accept, Reap, Worker, Handoff, Terminate, Shutdown, Process, Threads

(* A supervisor of ours is forgotten only once it has exited.               *)
LEMMA AccountedStep == ASSUME DesktopInv, LedgerInv, Next PROVE Accounted'
<1> USE PoolAssumption DEF PoolAssumption, DesktopInv, BaseInv, TypeOK, PcOK,
                           ThreadsOK, ProcessesOK, ControlOK, UserOf, LedgerInv,
                           Threads, Goto, threadVars, procVars, histVars, Accounted,
                           Draining, WorkersGone
<1>1. ASSUME NEW c \in Conns, Submit(c) \/ Refuse(c) PROVE Accounted'
  BY <1>1 DEF Submit, Refuse
<1>2. ASSUME NEW t \in Threads, Scan(t) PROVE Accounted'
  BY <1>2 DEF Scan, AfterReap
<1>3. ASSUME NEW t \in Threads, ProbeDrop(t) PROVE Accounted'
  <2>1. \A r \in sessions : r.owned => r \in sessions'
    <3>1. ASSUME NEW r \in sessions, r.owned, NEW g \in copies[t], g.uid = r.uid, g.started = r.started
          PROVE  FALSE
      <4>1. Retired(g.started)
        BY <1>3, <3>1 DEF ProbeDrop, IdInv, AdoptersOK
      <4>2. r.started \in mine \/ pc[Main] = "down"
        BY <3>1 DEF IdInv, ReapOK
      <4>3. pc[Main] = "down" => t \notin Workers /\ t # Main
        BY <1>3 DEF ProbeDrop
      <4>q. QED
        BY <3>1, <4>1, <4>2, <4>3 DEF Retired
    <3>q. QED
      BY <1>3, <3>1 DEF ProbeDrop
  <2>q. QED
    BY <1>3, <2>1 DEF ProbeDrop, AfterReap
<1>4. ASSUME NEW t \in Threads,
             SkipUnlink(t) \/ ClaimUnlink(t) \/ Unlink(t) \/ ProbeRead(t)
      PROVE  Accounted'
  BY <1>4 DEF SkipUnlink, ClaimUnlink, Unlink, ProbeRead, AfterReap
<1>5. ASSUME NEW w \in Workers,
             Recv(w) \/ WorkerExit(w) \/ Acquire(w) \/ Release(w) \/ Answer(w)
      PROVE  Accounted'
  BY <1>5 DEF Recv, WorkerExit, Acquire, Release, Answer
<1>6. ASSUME NEW w \in Workers, Lookup(w) PROVE Accounted'
  BY <1>6 DEF Lookup, Records
<1>7. ASSUME NEW w \in Workers,
             Connect(w) \/ AwaitAccept(w) \/ AwaitFail(w) \/ OwnsCheck(w)
      PROVE  Accounted'
  BY <1>7 DEF Connect, AwaitAccept, AwaitFail, OwnsCheck
<1>8. ASSUME NEW w \in Workers, Take(w) PROVE Accounted'
  <2>1. ASSUME NEW r \in sessions, r.owned, r.uid = UserOf(w)
        PROVE  victim'[w] = r.started /\ pc'[w] = "term"
    <3>1. {q.started : q \in {x \in Records(UserOf(w)) : x.owned}} = {r.started}
      BY <2>1 DEF Records, UniqueRecords
    <3> DEFINE own == {q.started : q \in {x \in Records(UserOf(w)) : x.owned}}
    <3>2. \/ own = {}
          \/ \E s \in own : victim' = [victim EXCEPT ![w] = s] /\ Goto(w, "term")
      BY <1>8 DEF Take
    <3>3. own = {r.started}
      BY <3>1
    <3> HIDE DEF own
    <3>4. victim' = [victim EXCEPT ![w] = r.started] /\ Goto(w, "term")
      BY <3>2, <3>3
    <3>q. QED
      BY <3>4
  <2>2. ASSUME NEW r \in sessions, r.owned, r.uid # UserOf(w) PROVE r \in sessions'
    BY <1>8, <2>2 DEF Take, Records
  <2>3. \A s \in Conns : sup[s] = "exited" => sup'[s] = "exited"
    BY <1>8 DEF Take, Sigterm
  <2>4. \A v \in Workers : v # w => pc'[v] = pc[v] /\ victim'[v] = victim[v]
    BY <1>8 DEF Take
  <2>q. QED
    BY <1>8, <2>1, <2>2, <2>3, <2>4 DEF Take
<1>9. ASSUME NEW w \in Workers,
             TermWait(w) \/ TermKill(w) \/ Clear(w)
      PROVE  Accounted'
  BY <1>9 DEF TermWait, TermKill, Clear, Sigkill
<1>10. ASSUME NEW w \in Workers, Spawn(w) PROVE Accounted'
  BY <1>10 DEF Spawn
<1>11. ASSUME NEW w \in Workers, Insert(w) PROVE Accounted'
  <2>1. \A r \in sessions : r.owned => r \in sessions' \/ sup[r.started] = "exited"
    BY ZenonT(60), <1>11 DEF Insert, Records, ExitedIfReplaced
  <2>2. Record(UserOf(w), cur[w], TRUE) \in sessions'
    BY <1>11 DEF Insert
  <2>3. Record(UserOf(w), cur[w], TRUE).owned /\ Record(UserOf(w), cur[w], TRUE).started = cur[w]
    BY DEF Record
  <2>4. \A v \in Workers : v # w => pc'[v] = pc[v] /\ cur'[v] = cur[v] /\ victim'[v] = victim[v]
    BY <1>11 DEF Insert
  <2>5. pc[w] = "insert" /\ mine' = mine /\ sup' = sup /\ Draining' = Draining
    BY <1>11 DEF Insert
  <2>6. ASSUME ~Draining, NEW s \in mine
        PROVE  \/ sup[s] = "exited"
               \/ \E r \in sessions' : r.owned /\ r.started = s
               \/ \E v \in Workers : cur'[v] = s /\ pc'[v] = "insert"
               \/ \E v \in Workers : victim'[v] = s /\ pc'[v] = "term"
    <3>1. CASE \E r \in sessions : r.owned /\ r.started = s
      BY <2>1, <2>5, <3>1
    <3>2. CASE \E v \in Workers : cur[v] = s /\ pc[v] = "insert"
      <4>1. PICK v \in Workers : cur[v] = s /\ pc[v] = "insert"
        BY <3>2
      <4>2. CASE v = w
        BY <2>2, <2>3, <4>1, <4>2
      <4>3. CASE v # w
        BY <2>4, <4>1, <4>3
      <4>q. QED
        BY <4>2, <4>3
    <3>3. CASE \E v \in Workers : victim[v] = s /\ pc[v] = "term"
      BY <2>4, <2>5, <3>3
    <3>q. QED
      BY <2>6, <3>1, <3>2, <3>3
  <2>q. QED
    BY <2>5, <2>6
<1>12. ASSUME NEW w \in Workers,
              Bind(w) \/ SpawnFail(w) \/ ColdAccept(w) \/ ColdFail(w)
       PROVE  Accounted'
  BY <1>12 DEF Bind, SpawnFail, ColdAccept, ColdFail
<1>13. ASSUME BeginShutdown \/ Exit \/ StopAll \/ StopWait \/ StopUnlink
       PROVE  Accounted'
  BY <1>13 DEF BeginShutdown, Exit, StopAll, StopWait, StopUnlink, Joined, Sigterm,
               Sigkill
<1>14. ASSUME Crash PROVE Accounted'
  BY <1>14 DEF Crash
<1>15. ASSUME Start PROVE Accounted'
  BY <1>15 DEF Start
<1>16. ASSUME NEW s \in Conns,
              SessionEnds(s) \/ SupervisorExits(s) \/ SupervisorKilled(s)
       PROVE  Accounted'
  BY <1>16 DEF SessionEnds, SupervisorExits, SupervisorKilled
<1>q. QED
  BY <1>1, <1>2, <1>3, <1>4, <1>5, <1>6, <1>7, <1>8, <1>9, <1>10, <1>11, <1>12,
     <1>13, <1>14, <1>15, <1>16
     DEF Next, Accept, Reap, Worker, Handoff, Terminate, Shutdown, Process, Threads

(* stop_all signals, waits for and then kills whatever was on record.        *)
LEMMA StoppedStep == ASSUME DesktopInv, LedgerInv, Next PROVE Stopped'
<1> USE PoolAssumption DEF PoolAssumption, DesktopInv, BaseInv, TypeOK, PcOK,
                           ThreadsOK, ProcessesOK, ControlOK, UserOf, LedgerInv,
                           Threads, Goto, threadVars, procVars, histVars, Stopped,
                           WorkersGone
<1>1. ASSUME NEW c \in Conns, Submit(c) \/ Refuse(c) PROVE Stopped'
  BY <1>1 DEF Submit, Refuse
<1>2. ASSUME NEW t \in Threads,
             Scan(t) \/ SkipUnlink(t) \/ ClaimUnlink(t) \/ Unlink(t) \/ ProbeRead(t) \/ ProbeDrop(t)
      PROVE  Stopped'
  BY <1>2 DEF Scan, SkipUnlink, ClaimUnlink, Unlink, ProbeRead, ProbeDrop, AfterReap
<1>3. ASSUME NEW w \in Workers,
             Recv(w) \/ WorkerExit(w) \/ Acquire(w) \/ Release(w) \/ Answer(w)
      PROVE  Stopped'
  BY <1>3 DEF Recv, WorkerExit, Acquire, Release, Answer
<1>4. ASSUME NEW w \in Workers,
             Connect(w) \/ AwaitAccept(w) \/ AwaitFail(w) \/ Lookup(w) \/ OwnsCheck(w)
      PROVE  Stopped'
  BY <1>4 DEF Connect, AwaitAccept, AwaitFail, Lookup, OwnsCheck, Record, Records
<1>5. ASSUME NEW w \in Workers,
             Take(w) \/ TermWait(w) \/ TermKill(w) \/ Clear(w)
      PROVE  Stopped'
  BY <1>5 DEF Take, TermWait, TermKill, Clear, Records, Sigterm, Sigkill
<1>6. ASSUME NEW w \in Workers,
             Bind(w) \/ Spawn(w) \/ SpawnFail(w) \/ Insert(w) \/ ColdAccept(w) \/ ColdFail(w)
      PROVE  Stopped'
  BY <1>6 DEF Bind, Spawn, SpawnFail, Insert, ColdAccept, ColdFail, Record, Records
<1>7. ASSUME StopAll PROVE Stopped'
  <2>1. \A s \in mine : sup[s] = "exited" \/ \E r \in sessions : r.owned /\ r.started = s
    BY <1>7 DEF StopAll, Joined, Accounted, Draining
  <2>2. sessions' = {} /\ ended'[Main] = {r \in sessions : r.owned}
    BY <1>7 DEF StopAll
  <2>3. \A s \in Conns : sup[s] = "exited" => sup'[s] = "exited"
    BY <1>7 DEF StopAll, Sigterm
  <2>q. QED
    BY <1>7, <2>1, <2>2, <2>3 DEF StopAll
<1>8. ASSUME StopWait PROVE Stopped'
  BY <1>8 DEF StopWait, Sigkill
<1>9. ASSUME BeginShutdown \/ Exit \/ StopUnlink PROVE Stopped'
  BY <1>9 DEF BeginShutdown, Exit, StopUnlink, Joined
<1>10. ASSUME Crash PROVE Stopped'
  BY <1>10 DEF Crash
<1>11. ASSUME Start PROVE Stopped'
  BY <1>11 DEF Start
<1>12. ASSUME NEW s \in Conns,
              SessionEnds(s) \/ SupervisorExits(s) \/ SupervisorKilled(s)
       PROVE  Stopped'
  BY <1>12 DEF SessionEnds, SupervisorExits, SupervisorKilled
<1>q. QED
  BY <1>1, <1>2, <1>3, <1>4, <1>5, <1>6, <1>7, <1>8, <1>9, <1>10, <1>11, <1>12
     DEF Next, Accept, Reap, Worker, Handoff, Terminate, Shutdown, Process, Threads

(* A record that was looked up is replaced before its user has a new session *)
(* on record.                                                               *)
LEMMA ProbedStep == ASSUME DesktopInv, LedgerInv, Next PROVE ProbedGone'
<1> USE PoolAssumption DEF PoolAssumption, DesktopInv, BaseInv, TypeOK, PcOK,
                           ThreadsOK, ProcessesOK, ControlOK, UserOf, LedgerInv,
                           Threads, Goto, threadVars, procVars, histVars, ProbedGone,
                           Kept, WorkersGone
<1>1. ASSUME NEW c \in Conns, Submit(c) \/ Refuse(c) PROVE ProbedGone'
  BY <1>1 DEF Submit, Refuse
<1>2. ASSUME NEW t \in Threads, ProbeRead(t) PROVE ProbedGone'
  BY <1>2 DEF ProbeRead, AfterReap, PathBound, Listening
<1>3. ASSUME NEW t \in Threads,
             Scan(t) \/ SkipUnlink(t) \/ ClaimUnlink(t) \/ Unlink(t) \/ ProbeDrop(t)
      PROVE  ProbedGone'
  BY <1>3 DEF Scan, SkipUnlink, ClaimUnlink, Unlink, ProbeDrop, AfterReap
<1>4. ASSUME NEW w \in Workers,
             Recv(w) \/ WorkerExit(w) \/ Acquire(w) \/ Release(w) \/ Answer(w)
      PROVE  ProbedGone'
  BY <1>4 DEF Recv, WorkerExit, Acquire, Release, Answer
<1>5. ASSUME NEW w \in Workers, Lookup(w) PROVE ProbedGone'
  <2>1. ASSUME NEW t \in Threads, NEW g \in copies[t], g \in sessions' PROVE g \in sessions
    <3>1. Retired(g.started)
      BY <2>1 DEF IdInv, AdoptersOK
    <3>2. g.started # cur[w]
      BY <1>5, <3>1 DEF Retired, Lookup
    <3>q. QED
      BY <1>5, <2>1, <3>2 DEF Lookup, Record
  <2>2. \A t \in Threads : pc'[t] = "probed" => pc[t] = "probed"
    BY <1>5 DEF Lookup
  <2>3. \A v \in Workers : pc[v] = "insert" => pc'[v] = "insert"
    BY <1>5 DEF Lookup
  <2>4. copies' = copies /\ cur' = cur /\ \A s \in Conns : Kept(s)' = Kept(s)
    BY <1>5 DEF Lookup
  <2>q. QED
    BY <2>1, <2>2, <2>3, <2>4
<1>6. ASSUME NEW w \in Workers,
             Connect(w) \/ AwaitAccept(w) \/ AwaitFail(w) \/ OwnsCheck(w)
      PROVE  ProbedGone'
  BY <1>6 DEF Connect, AwaitAccept, AwaitFail, OwnsCheck
<1>7. ASSUME NEW w \in Workers,
             Take(w) \/ TermWait(w) \/ TermKill(w) \/ Clear(w)
      PROVE  ProbedGone'
  BY <1>7 DEF Take, TermWait, TermKill, Clear, Records, Sigterm, Sigkill
<1>8. ASSUME NEW w \in Workers, Bind(w) PROVE ProbedGone'
  <2>1. \A s \in Conns : Kept(s)' => Kept(s)
    BY <1>8 DEF Bind
  <2>q. QED
    BY <1>8, <2>1 DEF Bind
<1>9. ASSUME NEW w \in Workers, Spawn(w) PROVE ProbedGone'
  <2>1. \A s \in Conns : Kept(s)' => Kept(s) \/ s = cur[w]
    BY <1>9 DEF Spawn
  <2>2. \A v \in Workers : pc[v] = "insert" => pc'[v] = "insert"
    BY <1>9 DEF Spawn
  <2>3. \A t \in Threads : pc'[t] = "probed" => pc[t] = "probed"
    BY <1>9 DEF Spawn
  <2>4. pc'[w] = "insert" /\ cur' = cur /\ copies' = copies /\ sessions' = sessions
    BY <1>9 DEF Spawn
  <2>q. QED
    BY <2>1, <2>2, <2>3, <2>4
<1>10. ASSUME NEW w \in Workers, Insert(w) PROVE ProbedGone'
  <2>1. ASSUME NEW t \in Threads, pc'[t] = "probed", NEW g \in copies[t], g \in sessions',
               NEW s \in Conns, UidOf[s] = g.uid, Kept(s)
        PROVE  \E v \in Workers : cur[v] = s /\ pc'[v] = "insert"
    <3>1. ~g.owned
      BY <2>1 DEF IdInv, AdoptersOK
    <3>2. g \in sessions /\ g.uid # UserOf(w)
      BY <1>10, <2>1, <3>1 DEF Insert, Record, Records
    <3>3. PICK v \in Workers : cur[v] = s /\ pc[v] = "insert"
      BY <1>10, <2>1, <3>2 DEF Insert
    <3>4. v # w
      BY <2>1, <3>2, <3>3
    <3>q. QED
      BY <1>10, <3>3, <3>4 DEF Insert
  <2>2. copies' = copies /\ cur' = cur /\ \A s \in Conns : Kept(s)' = Kept(s)
    BY <1>10 DEF Insert
  <2>q. QED
    BY <2>1, <2>2
<1>11. ASSUME NEW w \in Workers,
              SpawnFail(w) \/ ColdAccept(w) \/ ColdFail(w)
       PROVE  ProbedGone'
  BY <1>11 DEF SpawnFail, ColdAccept, ColdFail
<1>12. ASSUME BeginShutdown \/ Exit \/ StopAll \/ StopWait \/ StopUnlink
       PROVE  ProbedGone'
  BY <1>12 DEF BeginShutdown, Exit, StopAll, StopWait, StopUnlink, Joined, Sigterm,
               Sigkill
<1>13. ASSUME Crash PROVE ProbedGone'
  BY <1>13 DEF Crash
<1>14. ASSUME Start PROVE ProbedGone'
  BY <1>14 DEF Start
<1>15. ASSUME NEW s \in Conns,
              SessionEnds(s) \/ SupervisorExits(s) \/ SupervisorKilled(s)
       PROVE  ProbedGone'
  BY <1>15 DEF SessionEnds, SupervisorExits, SupervisorKilled
<1>q. QED
  BY <1>1, <1>2, <1>3, <1>4, <1>5, <1>6, <1>7, <1>8, <1>9, <1>10, <1>11, <1>12,
     <1>13, <1>14, <1>15
     DEF Next, Accept, Reap, Worker, Handoff, Terminate, Shutdown, Process, Threads

(* A record of a user whose session is served is never the last to go.      *)
LEMMA ServedRecordedStep == ASSUME DesktopInv, LedgerInv, Next PROVE ServedSessionsRecorded'
<1> USE PoolAssumption DEF PoolAssumption, DesktopInv, BaseInv, TypeOK, PcOK,
                           ThreadsOK, ProcessesOK, ControlOK, UserOf, LedgerInv,
                           Threads, Goto, threadVars, procVars, histVars,
                           ServedSessionsRecorded, Draining, Kept, WorkersGone
<1>0. sessions' = sessions => \A u : Records(u)' = Records(u)
  BY DEF Records
<1> USE <1>0
<1>1. ASSUME NEW c \in Conns, Submit(c) \/ Refuse(c) PROVE ServedSessionsRecorded'
  BY <1>1 DEF Submit, Refuse
<1>2. ASSUME NEW t \in Threads, Scan(t) PROVE ServedSessionsRecorded'
  <2>1. ASSUME ~Draining, NEW s \in served, Kept(s) PROVE Records(UidOf[s])' # {}
    <3>1. PICK r \in sessions : r.uid = UidOf[s]
      BY <2>1 DEF Records
    <3>2. CASE r.owned /\ sup[r.started] = "exited"
      <4>1. r.started \in mine /\ UidOf[r.started] = UidOf[s]
        BY <2>1, <3>1, <3>2 DEF IdInv, ReapOK, RecordsOK
      <4>2. s \in mine
        BY <2>1, <4>1 DEF DeskInv, OneDaemon
      <4>3. Record(UidOf[s], s, TRUE) \in sessions
        <5>1. \A w \in Workers : ~(cur[w] = s /\ pc[w] = "insert")
          BY <2>1 DEF ServedOK
        <5>2. Kept(s) => \/ Record(UidOf[s], s, TRUE) \in sessions
                         \/ \E w \in Workers : cur[w] = s /\ pc[w] = "insert"
          BY <2>1, <4>2 DEF DeskInv, OwnSessionsRecorded
        <5>q. QED
          BY <2>1, <5>1, <5>2
      <4>4. Record(UidOf[s], s, TRUE) \in sessions'
        BY <1>2, <2>1, <4>3 DEF Scan, Record
      <4>q. QED
        BY <4>4 DEF Records, Record
    <3>3. CASE ~(r.owned /\ sup[r.started] = "exited")
      BY <1>2, <3>1, <3>3 DEF Scan, Records
    <3>q. QED
      BY <3>2, <3>3
  <2>q. QED
    BY <1>2, <2>1 DEF Scan, AfterReap
<1>3. ASSUME NEW t \in Threads, ProbeDrop(t) PROVE ServedSessionsRecorded'
  <2>1. ASSUME ~Draining, NEW s \in served, Kept(s) PROVE Records(UidOf[s])' # {}
    <3>1. PICK r \in sessions : r.uid = UidOf[s]
      BY <2>1 DEF Records
    <3>2. ASSUME NEW g \in copies[t], g.uid = r.uid, g.started = r.started PROVE FALSE
      <4>1. ~g.owned /\ Retired(g.started)
        BY <1>3, <3>2 DEF ProbeDrop, IdInv, AdoptersOK
      <4>2. ~r.owned
        BY <2>1, <3>1, <3>2, <4>1 DEF IdInv, ReapOK, Retired
      <4>3. r = g
        <5>1. r \in SessionRecord /\ g \in SessionRecord
          BY <3>1, <3>2 DEF TablesOK
        <5>2. r.owned = g.owned
          BY <4>1, <4>2, <5>1 DEF SessionRecord
        <5>q. QED
          BY <3>2, <5>1, <5>2 DEF SessionRecord
      <4>4. \E w \in Workers : cur[w] = s /\ pc[w] = "insert"
        BY <1>3, <2>1, <3>1, <3>2, <4>3 DEF ProbeDrop, ProbedGone
      <4>q. QED
        BY <2>1, <4>4 DEF ServedOK
    <3>q. QED
      BY <1>3, <3>1, <3>2 DEF ProbeDrop, Records
  <2>q. QED
    BY <1>3, <2>1 DEF ProbeDrop, AfterReap
<1>4. ASSUME NEW t \in Threads,
             SkipUnlink(t) \/ ClaimUnlink(t) \/ Unlink(t) \/ ProbeRead(t)
      PROVE  ServedSessionsRecorded'
  BY <1>4 DEF SkipUnlink, ClaimUnlink, Unlink, ProbeRead, AfterReap
<1>5. ASSUME NEW w \in Workers,
             Recv(w) \/ WorkerExit(w) \/ Acquire(w) \/ Release(w) \/ Answer(w)
      PROVE  ServedSessionsRecorded'
  BY <1>5 DEF Recv, WorkerExit, Acquire, Release, Answer
<1>6. ASSUME NEW w \in Workers, Lookup(w) PROVE ServedSessionsRecorded'
  <2>1. Records(UserOf(w))' # {} /\ \A u : Records(u) # {} => Records(u)' # {}
    <3>1. sessions \subseteq sessions'
      BY <1>6 DEF Lookup
    <3>2. \A u : Records(u) \subseteq Records(u)'
      BY <3>1 DEF Records
    <3>3. Records(UserOf(w)) = {} => Record(UserOf(w), cur[w], FALSE) \in Records(UserOf(w))'
      BY <1>6 DEF Lookup, Records, Record
    <3>q. QED
      BY <1>6, <3>1, <3>3 DEF Lookup, Records
  <2>2. UidOf[name[UserOf(w)]] = UserOf(w)
    BY <1>6 DEF Lookup, NamesOK, NameHeld
  <2>q. QED
    BY <1>6, <2>1, <2>2 DEF Lookup
<1>7. ASSUME NEW w \in Workers,
             Connect(w) \/ AwaitAccept(w) \/ AwaitFail(w) \/ OwnsCheck(w)
      PROVE  ServedSessionsRecorded'
  BY <1>7 DEF Connect, AwaitAccept, AwaitFail, OwnsCheck
<1>8. ASSUME NEW w \in Workers, Take(w) PROVE ServedSessionsRecorded'
  <2>1. \A s \in Conns : Kept(s)' => Kept(s) /\ UidOf[s] # UserOf(w)
    BY <1>8, TakeKept
  <2>2. \A u : u # UserOf(w) => Records(u)' = Records(u)
    BY <1>8 DEF Take, Records
  <2>q. QED
    BY <1>8, <2>1, <2>2 DEF Take
<1>9. ASSUME NEW w \in Workers,
             TermWait(w) \/ TermKill(w) \/ Clear(w)
      PROVE  ServedSessionsRecorded'
  BY <1>9 DEF TermWait, TermKill, Clear, Sigkill
<1>10. ASSUME NEW w \in Workers, Bind(w) PROVE ServedSessionsRecorded'
  <2>1. \A s \in Conns : Kept(s)' => Kept(s)
    BY <1>10 DEF Bind
  <2>q. QED
    BY <1>10, <2>1 DEF Bind, Records
<1>11. ASSUME NEW w \in Workers, Spawn(w) PROVE ServedSessionsRecorded'
  <2>1. cur[w] \notin served
    BY <1>11 DEF Spawn, ServedOK
  <2>2. \A s \in served : Kept(s)' => Kept(s)
    BY <1>11, <2>1 DEF Spawn
  <2>q. QED
    BY <1>11, <2>2 DEF Spawn, Records
<1>12. ASSUME NEW w \in Workers, Insert(w) PROVE ServedSessionsRecorded'
  <2>1. Record(UserOf(w), cur[w], TRUE) \in Records(UserOf(w))'
    BY <1>12 DEF Insert, Records, Record
  <2>2. \A u : u # UserOf(w) => Records(u) \subseteq Records(u)'
    BY <1>12 DEF Insert, Records
  <2>q. QED
    BY <1>12, <2>1, <2>2 DEF Insert
<1>13. ASSUME NEW w \in Workers, ColdAccept(w) PROVE ServedSessionsRecorded'
  <2>1. cur[w] \in mine /\ name[UserOf(w)] = cur[w] /\ ~Draining
    BY <1>13 DEF ColdAccept, IdInv, ReapOK, NameHeld
  <2>2. ASSUME Kept(cur[w]) PROVE Records(UserOf(w)) # {}
    <3>1. \A v \in Workers : cur[v] = cur[w] => v = w
      BY <1>13 DEF ColdAccept, IdInv, JobsOK
    <3>2. Record(UidOf[cur[w]], cur[w], TRUE) \in sessions
      BY ZenonT(60), <1>13, <2>1, <2>2, <3>1 DEF ColdAccept, DeskInv, OwnSessionsRecorded
    <3>q. QED
      BY <3>2 DEF Records, Record
  <2>q. QED
    BY <1>13, <2>1, <2>2 DEF ColdAccept, Records
<1>14. ASSUME NEW w \in Workers,
              SpawnFail(w) \/ ColdFail(w)
       PROVE  ServedSessionsRecorded'
  BY <1>14 DEF SpawnFail, ColdFail
<1>15. ASSUME BeginShutdown \/ Exit \/ StopAll \/ StopWait \/ StopUnlink
       PROVE  ServedSessionsRecorded'
  BY <1>15 DEF BeginShutdown, Exit, StopAll, StopWait, StopUnlink, Joined, Sigterm,
               Sigkill
<1>16. ASSUME Crash PROVE ServedSessionsRecorded'
  BY <1>16 DEF Crash
<1>17. ASSUME Start PROVE ServedSessionsRecorded'
  BY <1>17 DEF Start
<1>18. ASSUME NEW s \in Conns,
              SessionEnds(s) \/ SupervisorExits(s) \/ SupervisorKilled(s)
       PROVE  ServedSessionsRecorded'
  BY <1>18 DEF SessionEnds, SupervisorExits, SupervisorKilled
<1>q. QED
  BY <1>1, <1>2, <1>3, <1>4, <1>5, <1>6, <1>7, <1>8, <1>9, <1>10, <1>11, <1>12,
     <1>13, <1>14, <1>15, <1>16, <1>17, <1>18
     DEF Next, Accept, Reap, Worker, Handoff, Terminate, Shutdown, Process, Threads

-----------------------------------------------------------------------------
(* The daemon starts with an empty table, and no process has run.           *)
LEMMA InitLedger == ASSUME Init PROVE LedgerInv
<1> USE DEF Init, Threads
<1>1. NamesOK /\ SpawnOK /\ ServedOK /\ ReapedOurs
  BY PoolAssumption DEF PoolAssumption, NamesOK, SpawnOK, ServedOK, ReapedOurs
<1>2. AdoptedAlone /\ AdoptedKept
  BY PoolAssumption DEF PoolAssumption, AdoptedAlone, AdoptedKept, Adopted
<1>3. UniqueRecords /\ ExitedIfUnnamed /\ ExitedIfReplaced /\ Accounted /\ Stopped
  BY DEF UniqueRecords, ExitedIfUnnamed, ExitedIfReplaced, Accounted, Stopped
<1>4. ProbedGone /\ ServedSessionsRecorded
  BY DEF ProbedGone, ServedSessionsRecorded
<1>q. QED
  BY <1>1, <1>2, <1>3, <1>4 DEF LedgerInv

(* The layer looks at nothing but the variables.                            *)
LEMMA LedgerStutter == ASSUME LedgerInv, UNCHANGED vars PROVE LedgerInv'
<1> USE DEF vars, threadVars, procVars, histVars, lifeVars, LedgerInv, UserOf
<1>1. (NamesOK /\ SpawnOK /\ ServedOK /\ ReapedOurs)'
  BY DEF NamesOK, SpawnOK, ServedOK, ReapedOurs, Records
<1>2. (AdoptedAlone /\ AdoptedKept)'
  BY DEF AdoptedAlone, AdoptedKept, Adopted
<1>3. (UniqueRecords /\ ExitedIfUnnamed /\ ExitedIfReplaced /\ Accounted /\ Stopped)'
  BY DEF UniqueRecords, ExitedIfUnnamed, ExitedIfReplaced, Accounted, Stopped, Draining
<1>4. (ProbedGone /\ ServedSessionsRecorded)'
  BY DEF ProbedGone, ServedSessionsRecorded, Kept, Records, Draining
<1>q. QED
  BY <1>1, <1>2, <1>3, <1>4

(* Names, records and supervisors stay in step, in every reachable state.   *)
THEOREM Ledger == Spec => [](DesktopInv /\ LedgerInv)
<1>1. Init => LedgerInv
  BY InitLedger
<1>2. DesktopInv /\ LedgerInv /\ [Next]_vars => LedgerInv'
  BY LedgerStutter, NamesStep, SpawnStep, ServedStep, ReapedStep, AdoptedAloneStep,
     AdoptedKeptStep, UniqueStep, UnnamedStep, ReplacedStep, AccountedStep, StoppedStep,
     ProbedStep, ServedRecordedStep DEF LedgerInv
<1>3. Spec => []DesktopInv
  BY Desktops, PTL DEF DesktopInv
<1>q. QED
  BY <1>1, <1>2, <1>3, PTL DEF Spec

(* The daemon never forgets a running session it has handed a client to,    *)
(* spawned or adopted: SessionManager::adopt_record, reap, probe_adopted.   *)
THEOREM ServedRemembered == Spec => []ServedSessionsRecorded
  BY Ledger, PTL DEF LedgerInv

(* Unlinks and binds of one step spare the name of a running session of an  *)
(* earlier daemon's.                                                        *)
LEMMA AdoptedSpared ==
  ASSUME DesktopInv, LedgerInv, Next, NEW s \in Conns \ mine,
         name[UidOf[s]] = s, sess[s] = "live"
  PROVE  name'[UidOf[s]] = s
<1> USE PoolAssumption DEF PoolAssumption, DesktopInv, BaseInv, TypeOK, PcOK, ThreadsOK,
        ProcessesOK, ControlOK, UserOf, LedgerInv, Threads
<1>1. Adopted(UidOf[s]) /\ UidOf[s] \in Uids
  BY DEF Adopted
<1>2. \A m \in mine : UidOf[m] # UidOf[s]
  BY <1>1 DEF AdoptedAlone
<1>3. ASSUME NEW t \in Threads, Unlink(t) PROVE name'[UidOf[s]] = s
  BY <1>2, <1>3 DEF Unlink, ReapedOurs
<1>4. ASSUME NEW w \in Workers, Clear(w) \/ Bind(w) PROVE name'[UidOf[s]] = s
  <2>1. UserOf(w) # UidOf[s]
    BY <1>1, <1>4 DEF Clear, Bind, AdoptedKept
  <2>q. QED
    BY <1>4, <2>1 DEF Clear, Bind
<1>5. ASSUME StopUnlink PROVE name'[UidOf[s]] = s
  <2>1. \A r \in ended[Main] : r.uid # UidOf[s]
    BY <1>2 DEF IdInv, ReapOK, RecordsOK
  <2>q. QED
    BY <1>5, <2>1 DEF StopUnlink
<1>q. QED
  BY <1>3, <1>4, <1>5, ProcessSteps
     DEF procVars, Take, TermKill, Spawn, SpawnFail, StopAll, StopWait, Crash, Process,
         SessionEnds, SupervisorExits, SupervisorKilled

(* A session of an earlier daemon keeps its name for as long as it runs:    *)
(* SessionManager::handoff_with, reap and stop_all never replace it.        *)
THEOREM AdoptedSafe == Spec => AdoptedLeftAlone
<1>1. DesktopInv /\ LedgerInv /\ [Next]_vars =>
        [\A s \in Conns \ mine :
           name[UidOf[s]] = s /\ sess[s] = "live" => name'[UidOf[s]] = s]_vars
  BY AdoptedSpared
<1>q. QED
  BY <1>1, Ledger, PTL DEF Spec, AdoptedLeftAlone

(* Once stop_all is done, nothing this daemon started is running, whatever  *)
(* it was doing when it was told to stop.                                   *)
THEOREM StopEndsAll == Spec => StopAllStops
<1>1. LedgerInv /\ [Next]_vars => [StopUnlink => \A s \in mine : sup[s] = "exited"]_vars
  BY DEF LedgerInv, Stopped, StopUnlink
<1>q. QED
  BY <1>1, Ledger, PTL DEF Spec, StopAllStops
-----------------------------------------------------------------------------
(* While the daemon runs, a latch that is taken has a holder.               *)
LatchOwned == pc[Main] # "down" =>
  \A u \in busy : (\E w \in Workers : HandoffHolds(w, u)) \/ (\E t \in Threads : ReapHolds(t, u))

(* A uid's count in Admission is its jobs in the pool, and within its cap.  *)
PoolJobs(u) == {c \in Conns : UidOf[c] = u /\ InPool(c)}
PlacesCounted == \A u \in Uids : inFlight[u] <= PerUid /\ inFlight[u] = Cardinality(PoolJobs(u))

(* Every path out of a handoff or an unlink frees the latch it took.         *)
LEMMA LatchOwnedStep == ASSUME DesktopInv, LatchOwned, Next PROVE LatchOwned'
<1> USE PoolAssumption DEF PoolAssumption, DesktopInv, BaseInv, TypeOK, PcOK,
                           ThreadsOK, ProcessesOK, ControlOK, UserOf, Threads, Goto,
                           threadVars, procVars, histVars, LatchOwned, HandoffHolds,
                           ReapHolds, Latched, WorkersGone
<1>1. ASSUME NEW c \in Conns, Submit(c) \/ Refuse(c) PROVE LatchOwned'
  BY <1>1 DEF Submit, Refuse
<1>2. ASSUME NEW t \in Threads, Scan(t) PROVE LatchOwned'
  BY <1>2 DEF Scan, AfterReap
<1>3. ASSUME NEW t \in Threads, SkipUnlink(t) PROVE LatchOwned'
  BY <1>3 DEF SkipUnlink
<1>4. ASSUME NEW t \in Threads, ClaimUnlink(t) PROVE LatchOwned'
  BY <1>4 DEF ClaimUnlink, RecordsOK
<1>5. ASSUME NEW t \in Threads, Unlink(t) PROVE LatchOwned'
  <2>1. \A u \in busy' : ~ReapHolds(t, u)
    BY <1>5 DEF Unlink
  <2>2. \A v \in Threads, u \in Uids : v # t /\ ReapHolds(v, u) => ReapHolds(v, u)'
    BY <1>5 DEF Unlink
  <2>3. ASSUME NEW w \in Workers, NEW u \in Uids, HandoffHolds(w, u) PROVE HandoffHolds(w, u)'
    BY <1>5, <2>3 DEF Unlink
  <2>4. (pc[Main] # "down" <=> pc'[Main] # "down") /\ busy' \subseteq busy /\ busy \subseteq Uids
    BY <1>5 DEF Unlink, TablesOK
  <2>q. QED
    BY <2>1, <2>2, <2>3, <2>4
<1>6. ASSUME NEW t \in Threads, ProbeRead(t) PROVE LatchOwned'
  BY <1>6 DEF ProbeRead, AfterReap
<1>7. ASSUME NEW t \in Threads, ProbeDrop(t) PROVE LatchOwned'
  BY <1>7 DEF ProbeDrop, AfterReap
<1>8. ASSUME NEW w \in Workers, Release(w) PROVE LatchOwned'
  <2>1. \A u \in busy' : ~HandoffHolds(w, u)
    BY <1>8 DEF Release
  <2>q. QED
    BY <1>8, <2>1 DEF Release
<1>9. ASSUME NEW w \in Workers,
             Recv(w) \/ WorkerExit(w) \/ Acquire(w) \/ Answer(w)
      PROVE  LatchOwned'
  BY <1>9 DEF Recv, WorkerExit, Acquire, Answer
<1>10. ASSUME NEW w \in Workers,
              Connect(w) \/ AwaitAccept(w) \/ AwaitFail(w) \/ Lookup(w) \/ OwnsCheck(w)
       PROVE  LatchOwned'
  BY <1>10 DEF Connect, AwaitAccept, AwaitFail, Lookup, OwnsCheck, Record, Records
<1>11. ASSUME NEW w \in Workers,
              Take(w) \/ TermWait(w) \/ TermKill(w) \/ Clear(w)
       PROVE  LatchOwned'
  BY <1>11 DEF Take, TermWait, TermKill, Clear, Records, Sigterm, Sigkill
<1>12. ASSUME NEW w \in Workers,
              Bind(w) \/ Spawn(w) \/ SpawnFail(w) \/ Insert(w) \/ ColdAccept(w) \/ ColdFail(w)
       PROVE  LatchOwned'
  BY <1>12 DEF Bind, Spawn, SpawnFail, Insert, ColdAccept, ColdFail, Record, Records
<1>13. ASSUME BeginShutdown \/ Exit \/ StopAll \/ StopWait \/ StopUnlink
       PROVE  LatchOwned'
  BY <1>13 DEF BeginShutdown, Exit, StopAll, StopWait, StopUnlink, Joined, Sigterm,
               Sigkill
<1>14. ASSUME Crash PROVE LatchOwned'
  BY <1>14 DEF Crash
<1>15. ASSUME Start PROVE LatchOwned'
  BY <1>15 DEF Start
<1>16. ASSUME NEW s \in Conns,
              SessionEnds(s) \/ SupervisorExits(s) \/ SupervisorKilled(s)
       PROVE  LatchOwned'
  BY <1>16 DEF SessionEnds, SupervisorExits, SupervisorKilled
<1>q. QED
  BY <1>1, <1>2, <1>3, <1>4, <1>5, <1>6, <1>7, <1>8, <1>9, <1>10, <1>11, <1>12,
     <1>13, <1>14, <1>15, <1>16
     DEF Next, Accept, Reap, Worker, Handoff, Terminate, Shutdown, Process, Threads

LEMMA NoJobs == ASSUME NEW S, S = {} PROVE Cardinality(S) = 0
  BY FS_EmptySet, Zenon

(* The jobs of a user, when one is added, taken out or neither.              *)
LEMMA JobsCounted ==
  ASSUME PlacesCounted, TablesOK, NEW d \in Conns
  PROVE  /\ \A u \in Uids : IsFiniteSet(PoolJobs(u))
         /\ \A u \in Uids : d \notin PoolJobs(u) =>
              Cardinality(PoolJobs(u) \cup {d}) = inFlight[u] + 1
         /\ \A u \in Uids : d \in PoolJobs(u) =>
              Cardinality(PoolJobs(u) \ {d}) = inFlight[u] - 1
<1>1. ASSUME NEW u \in Uids PROVE IsFiniteSet(PoolJobs(u))
  BY PoolAssumption, FS_Subset DEF PoolAssumption, PoolJobs
<1>2. ASSUME NEW u \in Uids, d \notin PoolJobs(u)
      PROVE  Cardinality(PoolJobs(u) \cup {d}) = inFlight[u] + 1
  BY ZenonT(60), <1>1, <1>2, FS_AddElement DEF PlacesCounted
<1>3. ASSUME NEW u \in Uids, d \in PoolJobs(u)
      PROVE  Cardinality(PoolJobs(u) \ {d}) = inFlight[u] - 1
  BY <1>1, <1>3, FS_RemoveElement DEF PlacesCounted
<1>q. QED
  BY <1>1, <1>2, <1>3

(* Only submit, recv, the end of a job and a crash change what is in the pool. *)
LEMMA PoolSteps ==
  ASSUME Next
  PROVE  \/ \E c \in Conns : Submit(c)
         \/ \E w \in Workers : Recv(w) \/ Answer(w)
         \/ Crash
         \/ UNCHANGED <<queue, inFlight, cur>>
  BY ZenonT(60) DEF Next, Accept, Refuse, Reap, Scan, SkipUnlink, ClaimUnlink, Unlink, ProbeRead,
         ProbeDrop, Worker, WorkerExit, Acquire, Handoff, Connect, AwaitAccept, AwaitFail,
         Lookup, OwnsCheck, Terminate, Take, TermWait, TermKill, Clear, Bind, Spawn,
         SpawnFail, Insert, ColdAccept, ColdFail, Release, Shutdown, BeginShutdown, Exit,
         StopAll, StopWait, StopUnlink, Start, Process, SessionEnds, SupervisorExits,
         SupervisorKilled, Threads, threadVars, poolVars

(* A place is taken with its job and given back with it.                    *)
LEMMA PlacesStep == ASSUME DesktopInv, PlacesCounted, Next PROVE PlacesCounted'
<1> USE PoolAssumption DEF PoolAssumption, DesktopInv, BaseInv, TypeOK, TablesOK, ThreadsOK,
        ControlOK
<1>1. ASSUME NEW c \in Conns, Submit(c) PROVE PlacesCounted'
  <2>1. ~InPool(c) /\ inFlight[UidOf[c]] < PerUid
    BY <1>1 DEF Submit, HasPlace, IdInv, JobsOK
  <2>2. \A d \in Conns : InPool(d)' <=> InPool(d) \/ d = c
    <3>1. /\ DOMAIN queue' = 1 .. Len(queue) + 1 /\ DOMAIN queue = 1 .. Len(queue)
          /\ \A i \in DOMAIN queue : queue'[i] = queue[i]
          /\ Len(queue) + 1 \in DOMAIN queue' /\ queue'[Len(queue) + 1] = c
          /\ Len(queue) \in Nat
      BY <1>1 DEF Submit
    <3>2. \A i \in DOMAIN queue' : i \in DOMAIN queue \/ i = Len(queue) + 1
      BY <3>1
    <3>3. cur' = cur
      BY <1>1 DEF Submit, threadVars
    <3>4. \A d \in Conns : (\E i \in DOMAIN queue' : queue'[i] = d) <=>
                           (\E i \in DOMAIN queue : queue[i] = d) \/ d = c
      <4>1. ASSUME NEW d \in Conns, NEW i \in DOMAIN queue', queue'[i] = d
            PROVE  (\E j \in DOMAIN queue : queue[j] = d) \/ d = c
        BY <3>1, <3>2, <4>1
      <4>2. ASSUME NEW d \in Conns, NEW i \in DOMAIN queue, queue[i] = d
            PROVE  \E j \in DOMAIN queue' : queue'[j] = d
        BY <3>1, <4>2
      <4>3. \E j \in DOMAIN queue' : queue'[j] = c
        BY <3>1
      <4>q. QED
        BY <4>1, <4>2, <4>3
    <3>q. QED
      BY <3>3, <3>4 DEF InPool
  <2>3. \A u \in Uids : PoolJobs(u)' = IF u = UidOf[c] THEN PoolJobs(u) \cup {c} ELSE PoolJobs(u)
    BY <2>2 DEF PoolJobs
  <2>4. \A u \in Uids : inFlight'[u] = IF u = UidOf[c] THEN inFlight[u] + 1 ELSE inFlight[u]
    BY <1>1 DEF Submit
  <2>5. c \notin PoolJobs(UidOf[c])
    BY <2>1 DEF PoolJobs
  <2>6. Cardinality(PoolJobs(UidOf[c]) \cup {c}) = inFlight[UidOf[c]] + 1
    BY <2>5, JobsCounted
  <2>7. ASSUME NEW u \in Uids
        PROVE  inFlight'[u] <= PerUid /\ inFlight'[u] = Cardinality(PoolJobs(u)')
    <3>1. CASE u = UidOf[c]
      <4>1. Cardinality(PoolJobs(u)') = Cardinality(PoolJobs(u) \cup {c})
        BY <2>3, <3>1, Zenon
      <4>q. QED
        BY <2>1, <2>4, <2>6, <3>1, <4>1
    <3>2. CASE u # UidOf[c]
      <4>1. Cardinality(PoolJobs(u)') = Cardinality(PoolJobs(u))
        BY <2>3, <3>2, Zenon
      <4>q. QED
        BY <2>4, <3>2, <4>1 DEF PlacesCounted
    <3>q. QED
      BY <3>1, <3>2
  <2>q. QED
    BY <2>7 DEF PlacesCounted
<1>2. ASSUME NEW w \in Workers, NEW c \in Conns, InPool(c),
             \A d \in Conns : InPool(d)' <=> InPool(d) /\ d # c,
             inFlight' = [inFlight EXCEPT ![UidOf[c]] = @ - 1]
      PROVE  PlacesCounted'
  <2>1. \A u \in Uids : PoolJobs(u)' = IF u = UidOf[c] THEN PoolJobs(u) \ {c} ELSE PoolJobs(u)
    BY <1>2 DEF PoolJobs
  <2>2. \A u \in Uids : inFlight'[u] = IF u = UidOf[c] THEN inFlight[u] - 1 ELSE inFlight[u]
    BY <1>2
  <2>3. c \in PoolJobs(UidOf[c])
    BY <1>2 DEF PoolJobs
  <2>4. Cardinality(PoolJobs(UidOf[c]) \ {c}) = inFlight[UidOf[c]] - 1
    BY <2>3, JobsCounted
  <2>5. ASSUME NEW u \in Uids
        PROVE  inFlight'[u] <= PerUid /\ inFlight'[u] = Cardinality(PoolJobs(u)')
    <3>1. CASE u = UidOf[c]
      <4>1. Cardinality(PoolJobs(u)') = Cardinality(PoolJobs(u) \ {c})
        BY <2>1, <3>1, Zenon
      <4>q. QED
        BY <2>2, <2>4, <3>1, <4>1 DEF PlacesCounted
    <3>2. CASE u # UidOf[c]
      <4>1. Cardinality(PoolJobs(u)') = Cardinality(PoolJobs(u))
        BY <2>1, <3>2, Zenon
      <4>q. QED
        BY <2>2, <3>2, <4>1 DEF PlacesCounted
    <3>q. QED
      BY <3>1, <3>2
  <2>q. QED
    BY <2>5 DEF PlacesCounted
<1>3. ASSUME \A c \in Conns : InPool(c)' <=> InPool(c), inFlight' = inFlight
      PROVE  PlacesCounted'
  <2>1. \A u \in Uids : PoolJobs(u)' = PoolJobs(u)
    BY <1>3 DEF PoolJobs
  <2>q. QED
    BY <1>3, <2>1 DEF PlacesCounted
<1>4. ASSUME NEW w \in Workers, Recv(w) PROVE PlacesCounted'
  <2> DEFINE c == queue[1]
  <2>1. /\ 1 \in DOMAIN queue /\ Head(queue) = c /\ c \in Conns
        /\ DOMAIN queue \subseteq Nat \ {0} /\ DOMAIN queue' \subseteq Nat \ {0}
        /\ \A i \in DOMAIN queue' : i + 1 \in DOMAIN queue /\ queue'[i] = queue[i + 1]
        /\ \A i \in DOMAIN queue : i # 1 => i - 1 \in DOMAIN queue' /\ queue'[i - 1] = queue[i]
    BY <1>4 DEF Recv
  <2>2. \A i \in DOMAIN queue : queue[i] = c => i = 1
    BY <2>1 DEF IdInv, JobsOK
  <2>3. \A d \in Conns : (\E i \in DOMAIN queue' : queue'[i] = d) <=>
                         (\E i \in DOMAIN queue : queue[i] = d) /\ d # c
    <3>1. ASSUME NEW d \in Conns, NEW i \in DOMAIN queue', queue'[i] = d
          PROVE  (\E j \in DOMAIN queue : queue[j] = d) /\ d # c
      BY <2>1, <2>2, <3>1
    <3>2. ASSUME NEW d \in Conns, NEW i \in DOMAIN queue, queue[i] = d, d # c
          PROVE  \E j \in DOMAIN queue' : queue'[j] = d
      BY <2>1, <3>2
    <3>q. QED
      BY <3>1, <3>2
  <2>4. CASE stopping
    <3>1. \A v \in Workers : cur[v] # c
      BY <2>1 DEF IdInv, JobsOK, Queued
    <3>2. InPool(c) /\ \A d \in Conns : InPool(d)' <=> InPool(d) /\ d # c
      BY <1>4, <2>1, <2>3, <2>4, <3>1 DEF InPool, Recv
    <3>3. inFlight' = [inFlight EXCEPT ![UidOf[c]] = @ - 1]
      BY <1>4, <2>1, <2>4 DEF Recv
    <3>q. QED
      BY <1>2, <2>1, <3>2, <3>3
  <2>5. CASE ~stopping
    <3>1. cur' = [cur EXCEPT ![w] = c] /\ cur[w] = None /\ inFlight' = inFlight
      BY <1>4, <2>1, <2>5 DEF Recv
    <3>2. \A d \in Conns : (\E v \in Workers : cur'[v] = d) <=> (\E v \in Workers : cur[v] = d) \/ d = c
      BY <3>1
    <3>3. \A d \in Conns : InPool(d)' <=> InPool(d)
      BY <2>1, <2>3, <3>2 DEF InPool
    <3>q. QED
      BY <1>3, <3>1, <3>3
  <2>q. QED
    BY <2>4, <2>5
<1>5. ASSUME NEW w \in Workers, Answer(w) PROVE PlacesCounted'
  <2>1. /\ cur[w] \in Conns /\ cur' = [cur EXCEPT ![w] = None] /\ queue' = queue
        /\ inFlight' = [inFlight EXCEPT ![UidOf[cur[w]]] = @ - 1]
    BY <1>5 DEF Answer, UserOf
  <2>2. /\ \A v \in Workers : cur[v] = cur[w] => v = w
        /\ ~ \E i \in DOMAIN queue : queue[i] = cur[w]
    BY <2>1 DEF IdInv, JobsOK, Queued
  <2>3. PICK c \in Conns : c = cur[w]
    BY <2>1
  <2>4. InPool(c) /\ \A d \in Conns : InPool(d)' <=> InPool(d) /\ d # c
    BY <2>1, <2>2, <2>3 DEF InPool
  <2>q. QED
    BY <1>2, <2>1, <2>3, <2>4
<1>6. ASSUME Crash PROVE PlacesCounted'
  <2>1. \A u \in Uids : PoolJobs(u)' = {} /\ inFlight'[u] = 0
    BY <1>6 DEF Crash, PoolJobs, InPool
  <2>2. \A u \in Uids : Cardinality(PoolJobs(u)') = 0
    BY <2>1, NoJobs, Zenon
  <2>q. QED
    BY <2>1, <2>2 DEF PlacesCounted
<1>7. ASSUME UNCHANGED <<queue, inFlight, cur>> PROVE PlacesCounted'
  BY <1>3, <1>7 DEF InPool
<1>q. QED
  BY <1>1, <1>4, <1>5, <1>6, <1>7, PoolSteps

(* No refusal, full channel, shutdown or error keeps a user's latch or a    *)
(* place in the pool: Starts, Admission::take, Slot::drop, HandoffPool.     *)
THEOREM NoLeak == Spec => []NothingLeaked
<1>1. Init => LatchOwned /\ PlacesCounted
  <2> SUFFICES ASSUME Init PROVE LatchOwned /\ PlacesCounted
    OBVIOUS
  <2>1. \A u \in Uids : PoolJobs(u) = {} /\ inFlight[u] = 0
    BY PoolAssumption DEF PoolAssumption, Init, PoolJobs, InPool
  <2>2. \A u \in Uids : Cardinality(PoolJobs(u)) = 0
    BY <2>1, NoJobs, Zenon
  <2>q. QED
    BY <2>1, <2>2, PoolAssumption DEF PoolAssumption, Init, LatchOwned, PlacesCounted
<1>2. DesktopInv /\ LatchOwned /\ PlacesCounted /\ [Next]_vars => (LatchOwned /\ PlacesCounted)'
  <2> SUFFICES ASSUME DesktopInv, LatchOwned, PlacesCounted, [Next]_vars
               PROVE  (LatchOwned /\ PlacesCounted)'
    OBVIOUS
  <2>1. CASE Next
    BY <2>1, LatchOwnedStep, PlacesStep
  <2>2. CASE UNCHANGED vars
    BY <2>2 DEF vars, threadVars, poolVars, LatchOwned, PlacesCounted, PoolJobs, InPool,
                HandoffHolds, ReapHolds, UserOf
  <2>q. QED
    BY <2>1, <2>2
<1>3. LatchOwned /\ PlacesCounted => NothingLeaked
  BY DEF LatchOwned, PlacesCounted, PoolJobs, NothingLeaked
<1>4. Spec => []DesktopInv
  BY Desktops, PTL DEF DesktopInv
<1>q. QED
  BY <1>1, <1>2, <1>3, <1>4, PTL DEF Spec
================================================================================
