------------------------- MODULE ConfigReloadProofs -------------------------
(***************************************************************************)
(* The safety properties of ConfigReload for any contents, log files,      *)
(* workers, connections and number of reloads.                             *)
(*                                                                         *)
(* The argument: every snapshot anyone takes is the current one (LiveStep),*)
(* so a property of all live snapshots only has to be shown of the next    *)
(* current one, and that is the candidate of the reload thread.  IInv says *)
(* what the thread knows of its candidate between loading and publishing.  *)
(***************************************************************************)
EXTENDS ConfigReload, TLAPS

Whole(s) == \E c \in Contents : Loads(c) /\ s = BuildActiveConfig(c, s.generation, s.security_manager)

\* Built by this process, with its first manager.
Ours(s) == s \in Snapshot /\ Whole(s) /\ s.security_manager = startup.body

\* The reload thread between a successful load and the publication.
Candidate ==
    thread \in {"logging", "publishing"} => Ours(candidate) /\ candidate.generation = generation + 1

\* The snapshots of a connection are taken in this order.
Ordered(c) ==
    /\ limits[c] # None => accepted[c] # None /\ accepted[c].generation <= limits[c].generation
    /\ request[c] # None => limits[c] # None /\ limits[c].generation <= request[c].generation

IInv ==
    /\ TypeOK
    /\ Ours(current)
    /\ thread \in {"loading", "logging", "publishing"} => generation < MaxReloads
    /\ Candidate
    /\ \A s \in Live : Ours(s)
    /\ GenerationIdentifies
    /\ \A c \in Conns : Ordered(c)

-----------------------------------------------------------------------------
\* Who holds a live snapshot.
LEMMA LiveMember ==
    \A s : s \in Live <=>
        /\ s # None
        /\ \/ s = current \/ s = written[1]
           \/ \E c \in Conns : s = accepted[c] \/ s = limits[c] \/ s = request[c]
  BY DEF Live

\* The same after a step.
LEMMA LiveMemberPrime ==
    \A s : s \in Live' <=>
        /\ s # None
        /\ \/ s = current' \/ s = written'[1]
           \/ \E c \in Conns : s = accepted'[c] \/ s = limits'[c] \/ s = request'[c]
  BY DEF Live

\* Snapshots come into use only by being current: connections and requests
\* take nothing else, and a reload discards none that is held.
LEMMA LiveStep ==
    ASSUME TypeOK, [Next]_vars
    PROVE  Live' \subseteq Live \cup {current'}
<1> SUFFICES ASSUME NEW s \in Live' PROVE s \in Live \/ s = current'
  OBVIOUS
<1>1. CASE /\ accepted' = accepted /\ limits' = limits /\ request' = request /\ written' = written
  BY <1>1, LiveMember, LiveMemberPrime
<1>2. CASE \E c \in Conns : Accept(c) \/ Serve(c) \/ BeginRequest(c) \/ EndRequest(c) \/ Close(c)
  <2> PICK c \in Conns : Accept(c) \/ Serve(c) \/ BeginRequest(c) \/ EndRequest(c) \/ Close(c)
    BY <1>2
  <2>1. CASE Accept(c)
    BY <2>1, LiveMember, LiveMemberPrime DEF Accept, served, TypeOK
  <2>2. CASE Serve(c)
    BY <2>2, LiveMember, LiveMemberPrime DEF Serve, served, TypeOK
  <2>3. CASE BeginRequest(c)
    BY <2>3, LiveMember, LiveMemberPrime DEF BeginRequest, served, TypeOK
  <2>4. CASE EndRequest(c)
    BY <2>4, LiveMember, LiveMemberPrime DEF EndRequest, served, TypeOK
  <2>5. CASE Close(c)
    BY <2>5, LiveMember, LiveMemberPrime DEF Close, served, TypeOK
  <2> QED
    BY <2>1, <2>2, <2>3, <2>4, <2>5
<1> QED
  BY <1>1, <1>2 DEF Next, vars, Write, Signal, ReloadStep, Register, Receive, LoadFails, LoadPanics,
     Load, UpdateLogFile, UpdateLogFilePanics, Publish, StartWorker, Bind, BindFails, JoinPanics,
     clients, process, reload

-----------------------------------------------------------------------------
\* What build_active_config returns is a snapshot with the parts it was given.
LEMMA BuildType ==
    ASSUME NEW c \in Contents, NEW g \in Nat, NEW d \in Contents
    PROVE  /\ BuildActiveConfig(c, g, d.body) \in Snapshot
           /\ BuildActiveConfig(c, g, d.body).generation = g
           /\ BuildActiveConfig(c, g, d.body).security_manager = d.body
  BY ContentsAssumption DEF BuildActiveConfig, Snapshot

\* What is loaded becomes a snapshot of this process when it gets its manager.
LEMMA BuildOurs ==
    ASSUME TypeOK, NEW c \in Contents, Loads(c), NEW g \in Nat
    PROVE  Ours(BuildActiveConfig(c, g, startup.body))
<1>1. startup \in Contents
  BY DEF TypeOK
<1> QED
  BY <1>1, BuildType DEF Ours, Whole

\* The first snapshot satisfies the invariant.
LEMMA InitIInv == Init => IInv
<1> SUFFICES ASSUME Init PROVE IInv
  OBVIOUS
<1> DEFINE first == BuildActiveConfig(startup, 0, startup.body)
<1>1. startup \in Contents /\ Loads(startup) /\ Opens(startup.logfile)
  BY DEF Init, Sound, Loads, Acceptable
<1>2. first \in Snapshot /\ first.generation = 0 /\ first.security_manager = startup.body
  BY <1>1, BuildType
<1>3. current = first /\ written[1] = None
  BY DEF Init
<1>4. TypeOK
  <2>1. generation \in 0..MaxReloads
    BY ReloadBound DEF Init
  <2>2. /\ file \in Contents /\ startup \in Contents
        /\ up \in BOOLEAN /\ sighup \in BOOLEAN /\ thread \in Threads
        /\ worker \in [Workers -> {"binding", "accepting", "dead"}]
        /\ candidate = None /\ current \in Snapshot /\ current.generation = generation
    BY <1>1, <1>2, <1>3 DEF Init, Threads
  <2>3. log_file \in LogFiles \cup {NoLog}
    BY <1>1, ContentsAssumption DEF Init
  <2>4. /\ accepted \in [Conns -> Snapshot \cup {None}]
        /\ limits \in [Conns -> Snapshot \cup {None}]
        /\ request \in [Conns -> Snapshot \cup {None}]
        /\ written \in (Snapshot \X (LogFiles \cup {NoLog})) \cup {<<None, None>>}
    BY DEF Init
  <2> QED
    BY <2>1, <2>2, <2>3, <2>4 DEF TypeOK
<1>5. Ours(current)
  BY <1>1, <1>3, <1>4, BuildOurs
<1>6. Live \subseteq {current}
  BY <1>3, LiveMember DEF Init
<1>7. GenerationIdentifies
  BY <1>2, <1>3, <1>6 DEF GenerationIdentifies
<1>8. \A c \in Conns : Ordered(c)
  BY DEF Init, Ordered
<1> QED
  BY <1>2, <1>3, <1>4, <1>5, <1>6, <1>7, <1>8 DEF IInv, Candidate, Init

-----------------------------------------------------------------------------
\* The types are kept; the bound on generations holds because Receive checks
\* it and the thread keeps its number until it publishes.
LEMMA TypeStep ==
    ASSUME IInv, [Next]_vars
    PROVE  TypeOK'
<1> USE DEF IInv, TypeOK, Threads
<1>1. CASE UNCHANGED vars
  BY <1>1 DEF vars, process, reload, clients
<1>2. ASSUME NEW c \in Contents, Write(c) PROVE TypeOK'
  BY <1>2 DEF Write, process, reload, clients
<1>3. CASE Signal
  BY <1>3 DEF Signal, reload, clients
<1>4. CASE Register \/ Receive \/ LoadFails \/ LoadPanics \/ UpdateLogFilePanics
  BY <1>4 DEF Register, Receive, LoadFails, LoadPanics, UpdateLogFilePanics, process, clients
<1>5. CASE Load
  <2>1. current.security_manager = startup.body
    BY DEF Ours
  <2>2. generation + 1 \in Nat
    BY ReloadBound
  <2>3. candidate' \in Snapshot
    BY <1>5, <2>1, <2>2, BuildType DEF Load
  <2>4. candidate'.generation = generation + 1
    BY <1>5, <2>1, <2>2, BuildType DEF Load
  <2> QED
    BY <1>5, <2>3, <2>4 DEF Load, process, clients
<1>6. CASE UpdateLogFile
  <2>1. candidate.logfile \in LogFiles \cup {NoLog}
    BY <1>6 DEF UpdateLogFile, Candidate, Ours, Snapshot
  <2> QED
    BY <1>6, <2>1 DEF UpdateLogFile, process, clients
<1>7. CASE Publish
  <2>1. candidate \in Snapshot /\ candidate.generation \in 0..MaxReloads
    BY <1>7, ReloadBound DEF Publish, Candidate, Ours
  <2> QED
    BY <1>7, <2>1 DEF Publish, process, clients
<1>8. ASSUME NEW w \in Workers, StartWorker(w) PROVE TypeOK'
  BY <1>8 DEF StartWorker, Bind, BindFails, reload, clients
<1>9. CASE JoinPanics
  BY <1>9 DEF JoinPanics, reload, clients
<1>10. ASSUME NEW c \in Conns, Accept(c) \/ Serve(c) \/ BeginRequest(c) \/ Close(c) PROVE TypeOK'
  BY <1>10 DEF Accept, Serve, BeginRequest, Close, served, process, reload
<1>11. ASSUME NEW c \in Conns, EndRequest(c) PROVE TypeOK'
  <2>1. <<request[c], log_file>> \in Snapshot \X (LogFiles \cup {NoLog})
    BY <1>11 DEF EndRequest
  <2> QED
    BY <1>11, <2>1 DEF EndRequest, served, process, reload
<1> QED
  BY <1>1, <1>2, <1>3, <1>4, <1>5, <1>6, <1>7, <1>8, <1>9, <1>10, <1>11 DEF Next, ReloadStep

\* Only the publication changes what is current and the number of it.
LEMMA CurrentStep ==
    ASSUME [Next]_vars
    PROVE  /\ startup' = startup
           /\ Publish \/ (current' = current /\ generation' = generation)
  BY DEF Next, vars, Write, Signal, ReloadStep, Register, Receive, LoadFails, LoadPanics,
     Load, UpdateLogFile, UpdateLogFilePanics, Publish, StartWorker, Bind, BindFails, JoinPanics,
     Accept, Serve, BeginRequest, EndRequest, Close, served, process, reload

\* The thread holds a fit candidate from the load to the publication.
LEMMA CandidateStep ==
    ASSUME IInv, [Next]_vars
    PROVE  /\ Candidate'
           /\ (thread' \in {"loading", "logging", "publishing"} => generation' < MaxReloads)
<1>1. startup' = startup
  BY CurrentStep
<1>2. ASSUME NEW s PROVE Ours(s)' <=> Ours(s)
  BY <1>1 DEF Ours, Whole, Loads, Acceptable
<1>3. CASE Load
  <2>1. current.security_manager = startup.body /\ file \in Contents /\ Loads(file) /\ generation + 1 \in Nat
    BY <1>3, ReloadBound DEF Load, IInv, Ours, TypeOK
  <2>2. candidate' = BuildActiveConfig(file, generation + 1, startup.body)
    BY <1>3, <2>1 DEF Load
  <2>3. Ours(candidate')
    BY <2>1, <2>2, BuildOurs DEF IInv
  <2>4. candidate'.generation = generation + 1
    BY <2>1, <2>2, BuildType DEF IInv, TypeOK
  <2> QED
    BY <1>2, <1>3, <2>3, <2>4 DEF Load, IInv, Candidate
<1>4. CASE Receive \/ UpdateLogFile \/ Register \/ LoadFails \/ LoadPanics \/ UpdateLogFilePanics \/ Publish
  BY <1>2, <1>4 DEF IInv, Candidate, Receive, UpdateLogFile, Register, LoadFails, LoadPanics,
     UpdateLogFilePanics, Publish
<1>5. CASE UNCHANGED reload
  BY <1>2, <1>5 DEF IInv, Candidate, reload
<1> QED
  BY <1>3, <1>4, <1>5 DEF Next, vars, ReloadStep, Write, Signal, StartWorker, Bind, BindFails,
     JoinPanics, Accept, Serve, BeginRequest, EndRequest, Close, served

\* A step keeps the three snapshots of a connection in order: what it takes is
\* current, and nothing it holds is newer than that.
LEMMA OrderedStep ==
    ASSUME IInv, [Next]_vars, NEW d \in Conns
    PROVE  Ordered(d)'
<1>1. CASE accepted' = accepted /\ limits' = limits /\ request' = request
  BY <1>1 DEF IInv, Ordered
<1>2. ASSUME NEW c \in Conns, Accept(c) \/ Serve(c) \/ BeginRequest(c) \/ EndRequest(c) \/ Close(c)
      PROVE  Ordered(d)'
  <2> USE DEF IInv
  <2>1. accepted[d] # None => accepted[d].generation <= current.generation
    BY LiveMember DEF GenerationIdentifies
  <2>2. limits[d] # None => limits[d].generation <= current.generation
    BY LiveMember DEF GenerationIdentifies
  <2>3. CASE Accept(c)
    BY <2>3 DEF Accept, Ordered, TypeOK
  <2>4. CASE Serve(c)
    BY <2>4, <2>1 DEF Serve, Ordered, TypeOK, served
  <2>5. CASE BeginRequest(c)
    BY <2>5, <2>2 DEF BeginRequest, Ordered, TypeOK, served
  <2>6. CASE EndRequest(c)
    BY <2>6 DEF EndRequest, Ordered, TypeOK
  <2>7. CASE Close(c)
    BY <2>7 DEF Close, Ordered, TypeOK
  <2> QED
    BY <1>2, <2>3, <2>4, <2>5, <2>6, <2>7
<1> QED
  BY <1>1, <1>2 DEF Next, vars, Write, Signal, ReloadStep, Register, Receive, LoadFails, LoadPanics,
     Load, UpdateLogFile, UpdateLogFilePanics, Publish, StartWorker, Bind, BindFails, JoinPanics,
     clients, process, reload

\* IInv is inductive.
LEMMA NextIInv == IInv /\ [Next]_vars => IInv'
<1> SUFFICES ASSUME IInv, [Next]_vars PROVE IInv'
  OBVIOUS
<1>1. TypeOK'
  BY TypeStep
<1>2. startup' = startup /\ (Publish \/ (current' = current /\ generation' = generation))
  BY CurrentStep
<1>3. ASSUME NEW s PROVE Ours(s)' <=> Ours(s)
  BY <1>2 DEF Ours, Whole, Loads, Acceptable
<1>4. Ours(current') /\ current'.generation = generation'
  BY <1>1, <1>2 DEF IInv, Candidate, Publish, TypeOK
<1>5. Live' \subseteq Live \cup {current'}
  BY LiveStep DEF IInv
<1>6. \A s \in Live' : Ours(s)'
  BY <1>3, <1>4, <1>5 DEF IInv
<1>7. GenerationIdentifies'
  <2>1. CASE Publish
    <3>1. \A s \in Live : s.generation \in Nat /\ s.generation < current'.generation
      BY <2>1 DEF IInv, TypeOK, Publish, Candidate, GenerationIdentifies, Ours, Snapshot
    <3>2. current'.generation \in Nat
      BY <1>4 DEF Ours, Snapshot
    <3>3. \A s, u \in Live : s.generation = u.generation => s = u
      BY DEF IInv, GenerationIdentifies
    <3> QED
      BY <3>1, <3>2, <3>3, <1>5 DEF GenerationIdentifies
  <2>2. CASE current' = current
    <3>1. Live' \subseteq Live
      BY <2>2, <1>5, LiveMember, LiveMemberPrime
    <3> QED
      BY <2>2, <3>1 DEF IInv, GenerationIdentifies
  <2> QED
    BY <1>2, <2>1, <2>2
<1>8. \A c \in Conns : Ordered(c)'
  BY OrderedStep
<1>9. Candidate' /\ (thread' \in {"loading", "logging", "publishing"} => generation' < MaxReloads)
  BY CandidateStep
<1>10. Ours(current)'
  BY <1>2, <1>4 DEF Ours, Whole, Loads, Acceptable
<1> QED
  BY <1>1, <1>4, <1>6, <1>7, <1>8, <1>9, <1>10 DEF IInv

\* The invariant holds throughout.
THEOREM Invariance == Spec => []IInv
  BY InitIInv, NextIInv, PTL DEF Spec

-----------------------------------------------------------------------------
\* The disk, the threads and the snapshots keep their types, and the thread's
\* counter stays the number of the snapshot in the store.
THEOREM TypeCorrectness == Spec => []TypeOK
<1>1. IInv => TypeOK
  BY DEF IInv
<1> QED
  BY <1>1, Invariance, PTL

\* Every snapshot in use is the whole of one loadable content of proxy.conf,
\* for any contents and whatever the file held when it was read.
THEOREM WholeSnapshots == Spec => []SnapshotsAreWhole
<1>1. IInv => SnapshotsAreWhole
  BY DEF IInv, SnapshotsAreWhole, Ours, Whole
<1> QED
  BY <1>1, Invariance, PTL

\* One security manager serves all snapshots, connections and requests.
THEOREM OneManager == Spec => []ManagerSurvives
<1>1. IInv => ManagerSurvives
  BY DEF IInv, ManagerSurvives, Ours
<1> QED
  BY <1>1, Invariance, PTL

\* A generation names one snapshot, and nobody is ahead of the store.
THEOREM GenerationsIdentify == Spec => []GenerationIdentifies
<1>1. IInv => GenerationIdentifies
  BY DEF IInv
<1> QED
  BY <1>1, Invariance, PTL

\* No connection goes back to an older configuration, for any number of them.
THEOREM ForwardOnly == Spec => []ConnectionMovesForward
<1>1. IInv => ConnectionMovesForward
  BY DEF IInv, ConnectionMovesForward, Ordered
<1> QED
  BY <1>1, Invariance, PTL
=============================================================================
