---------------------------- MODULE ConfigReload ----------------------------
(***************************************************************************)
(* src/server.rs, src/runtime_config.rs, update_log_file of src/log.rs and *)
(* the tasks of src/worker.rs as far as they take snapshots: the life of   *)
(* the process.  The main thread joins its workers; a reload thread waits  *)
(* for SIGHUP, reads proxy.conf, builds a snapshot and publishes it.  A    *)
(* connection takes the current snapshot when it is accepted, again when   *)
(* it is served, and again for each of its requests.                       *)
(*                                                                         *)
(* What proxy.conf says is abstracted to whether it parses, the two        *)
(* startup-only settings, whether its certificates load and its forward    *)
(* authentication can be set up, its log file, and a name for all that is  *)
(* reloadable (routes, security, cache, ...).                              *)
(***************************************************************************)
EXTENDS Integers, FiniteSets

CONSTANTS
    Contents,           \* what proxy.conf may say
    LogFiles, NoLog,    \* log destinations; no `logfile' directive
    BadLogs,            \* log files that cannot be opened
    Workers,            \* worker threads
    FirstWorker,        \* the one whose handle is joined first
    Conns,              \* connections that may be open at once
    MaxReloads,         \* bound: published reloads
    None

ASSUME ContentsAssumption ==
    /\ \A c \in Contents : DOMAIN c =
           {"parses", "listen_port", "workers", "tls_ok", "roots_ok", "logfile", "body"}
    /\ \A c \in Contents : {c.parses, c.tls_ok, c.roots_ok} \subseteq BOOLEAN
    /\ \A c \in Contents : c.logfile \in LogFiles \cup {NoLog}
ASSUME LogAssumption == NoLog \notin LogFiles /\ BadLogs \subseteq LogFiles
ASSUME WorkersAssumption == FirstWorker \in Workers
ASSUME NoneAssumption == None \notin Contents
ASSUME ReloadBound == MaxReloads \in Nat

VARIABLES
    file,               \* proxy.conf on disk, as far as it is written
    up,                 \* is the process alive?
    sighup,             \* a SIGHUP the reload thread has not received yet
    thread,             \* the reload thread's program counter
    generation,         \* its counter
    candidate,          \* the snapshot it has built
    current,            \* SharedConfig.current
    startup,            \* the configuration the server was started with
    worker,             \* [worker -> "binding", "accepting" or "dead"]
    log_file,           \* LOG_FILE, shared by all threads
    accepted,           \* [connection -> the snapshot of its accept, for TLS and screening]
    limits,             \* [connection -> the snapshot serve_connection sized its buffers by]
    request,            \* [connection -> the snapshot of the request in its handler]
    written             \* history: <<snapshot, destination>> of the last access log entry

process == <<up, worker, startup>>
reload  == <<thread, generation, candidate>>
clients == <<accepted, limits, request, written>>
vars    == <<file, process, sighup, reload, current, log_file, clients>>

-----------------------------------------------------------------------------
\* build_active_config.  A new snapshot gets a cache engine of its own (named
\* here by the generation) and keeps the security manager it is given; a
\* manager built here takes its limits from the configuration.
BuildActiveConfig(c, gen, manager) ==
    [generation |-> gen, body |-> c.body, logfile |-> c.logfile,
     security_manager |-> manager, cache_engine |-> gen]

\* load_active_config_from_path does not return an error ...
Acceptable(c) ==
    /\ c.parses
    /\ c.listen_port = startup.listen_port
    /\ c.workers = startup.workers
    /\ c.tls_ok

\* ... and does not panic for want of the system's root certificates either.
Loads(c) == Acceptable(c) /\ c.roots_ok

\* update_log_file: open (or expect() panics), then replace LOG_FILE.
Opens(l) == l \notin BadLogs

\* What a server can be started with.
Sound == {c \in Contents : c.parses /\ c.tls_ok /\ c.roots_ok /\ Opens(c.logfile)}

\* Server::new with a configuration it can start from, and the threads spawned.
Init ==
    /\ startup \in Sound
    /\ file = startup
    /\ up = TRUE
    /\ worker = [w \in Workers |-> "binding"]
    /\ sighup = FALSE
    /\ thread = "starting"
    /\ generation = 0
    /\ candidate = None
    /\ current = BuildActiveConfig(startup, 0, startup.body)
    /\ log_file = startup.logfile
    /\ accepted = [c \in Conns |-> None]
    /\ limits = [c \in Conns |-> None]
    /\ request = [c \in Conns |-> None]
    /\ written = <<None, None>>

-----------------------------------------------------------------------------
(* The operator.                                                           *)

\* A write or part of one: a file caught half written is one more content, and
\* is read in one step (which texts a cut-off file can be mistaken for is
\* TornFileIsPrefix of ConfigFile).  Edits after the end are of no interest.
Write(c) ==
    /\ up /\ c # file
    /\ file' = c
    /\ UNCHANGED <<process, sighup, reload, current, log_file, clients>>

\* Signals coalesce.  Before the handler is registered SIGHUP has its default
\* effect and ends the process; after a panic of the thread it is still caught.
Signal ==
    /\ up
    /\ IF thread = "starting"
       THEN up' = FALSE /\ UNCHANGED sighup
       ELSE sighup' = TRUE /\ UNCHANGED up
    /\ UNCHANGED <<file, worker, startup, reload, current, log_file, clients>>

-----------------------------------------------------------------------------
(* run_reload_thread                                                       *)

Register ==
    /\ up /\ thread = "starting"
    /\ thread' = "waiting"
    /\ UNCHANGED <<file, process, sighup, generation, candidate, current, log_file, clients>>

Receive ==
    /\ up /\ thread = "waiting" /\ sighup
    /\ generation < MaxReloads
    /\ sighup' = FALSE
    /\ thread' = "loading"
    /\ UNCHANGED <<file, process, generation, candidate, current, log_file, clients>>

\* Mutant: the counter is advanced before the load, whatever comes of it.
LoadFailsCounts ==
    /\ up /\ thread = "loading" /\ ~Acceptable(file)
    /\ generation' = generation + 1
    /\ thread' = "waiting"
    /\ UNCHANGED <<file, process, sighup, candidate, current, log_file, clients>>

\* The counter stays where it is.
LoadFails ==
    /\ up /\ thread = "loading" /\ ~Acceptable(file)
    /\ thread' = "waiting"
    /\ UNCHANGED <<file, process, sighup, generation, candidate, current, log_file, clients>>

\* expect("Failed to load native root certificates") ends the thread.
LoadPanics ==
    /\ up /\ thread = "loading" /\ Acceptable(file) /\ ~Loads(file)
    /\ thread' = "dead"
    /\ UNCHANGED <<file, process, sighup, generation, candidate, current, log_file, clients>>

\* Mutants: the new snapshot gets a manager of its own; it keeps the old log
\* file beside the new settings.
LoadVariant(s) ==
    /\ up /\ thread = "loading" /\ Loads(file)
    /\ candidate' = s
    /\ thread' = "logging"
    /\ UNCHANGED <<file, process, sighup, generation, current, log_file, clients>>
LoadFresh == LoadVariant(BuildActiveConfig(file, generation + 1, file.body))
LoadMixes == LoadVariant([BuildActiveConfig(file, generation + 1, current.security_manager)
                            EXCEPT !.logfile = current.logfile])

\* The running security manager is handed to the new snapshot.
Load ==
    /\ up /\ thread = "loading" /\ Loads(file)
    /\ candidate' = BuildActiveConfig(file, generation + 1, current.security_manager)
    /\ thread' = "logging"
    /\ UNCHANGED <<file, process, sighup, generation, current, log_file, clients>>

UpdateLogFile ==
    /\ up /\ thread = "logging" /\ Opens(candidate.logfile)
    /\ log_file' = candidate.logfile
    /\ thread' = "publishing"
    /\ UNCHANGED <<file, process, sighup, generation, candidate, current, clients>>

\* expect("Failed to open log file") ends the thread; the process goes on.
UpdateLogFilePanics ==
    /\ up /\ thread = "logging" /\ ~Opens(candidate.logfile)
    /\ thread' = "dead"
    /\ UNCHANGED <<file, process, sighup, generation, candidate, current, log_file, clients>>

\* Mutants: the counter is never advanced; signals that came during the reload
\* are drained.
PublishVariant(gen, signal) ==
    /\ up /\ thread = "publishing"
    /\ generation' = gen
    /\ sighup' = signal
    /\ current' = candidate
    /\ candidate' = None
    /\ thread' = "waiting"
    /\ UNCHANGED <<file, process, log_file, clients>>
PublishForgets == PublishVariant(generation, sighup)
PublishDrains == PublishVariant(candidate.generation, FALSE)

Publish ==
    /\ up /\ thread = "publishing"
    /\ generation' = candidate.generation
    /\ current' = candidate
    /\ candidate' = None
    /\ thread' = "waiting"
    /\ UNCHANGED <<file, process, sighup, log_file, clients>>

-----------------------------------------------------------------------------
(* Server::start and run_worker.                                           *)

Bind(w) ==
    /\ up /\ worker[w] = "binding"
    /\ worker' = [worker EXCEPT ![w] = "accepting"]
    /\ UNCHANGED <<file, up, startup, sighup, reload, current, log_file, clients>>

\* expect("Failed to bind listener with SO_REUSEPORT") ends this worker only.
BindFails(w) ==
    /\ up /\ worker[w] = "binding"
    /\ worker' = [worker EXCEPT ![w] = "dead"]
    /\ UNCHANGED <<file, up, startup, sighup, reload, current, log_file, clients>>

\* Mutant: main joins the reload thread before the workers.
JoinReloadFirst ==
    /\ up /\ thread = "dead" /\ worker[FirstWorker] = "dead"
    /\ up' = FALSE
    /\ UNCHANGED <<file, worker, startup, sighup, reload, current, log_file, clients>>

\* The handles are joined in order and a worker never returns: main gets past
\* the first join only when that worker has panicked, and then panics itself.
JoinPanics ==
    /\ up /\ worker[FirstWorker] = "dead"
    /\ up' = FALSE
    /\ UNCHANGED <<file, worker, startup, sighup, reload, current, log_file, clients>>

-----------------------------------------------------------------------------
(* The snapshots a connection takes.                                       *)

served == <<file, process, sighup, reload, current, log_file>>

\* The accept loop of a worker takes the snapshot whose acceptor, security
\* block and manager the new task uses up to the end of the handshake.
Accept(c) ==
    /\ up /\ (\E w \in Workers : worker[w] = "accepting") /\ accepted[c] = None
    /\ accepted' = [accepted EXCEPT ![c] = current]
    /\ UNCHANGED <<served, limits, request, written>>

\* serve_connection, after the handshake if there is one.
Serve(c) ==
    /\ up /\ accepted[c] # None /\ limits[c] = None
    /\ limits' = [limits EXCEPT ![c] = current]
    /\ UNCHANGED <<served, accepted, request, written>>

\* Mutant: the handler works with the snapshot of the accept.
BeginRequestAsAccepted(c) ==
    /\ up /\ limits[c] # None /\ request[c] = None
    /\ request' = [request EXCEPT ![c] = accepted[c]]
    /\ UNCHANGED <<served, accepted, limits, written>>

\* handle_request
BeginRequest(c) ==
    /\ up /\ limits[c] # None /\ request[c] = None
    /\ request' = [request EXCEPT ![c] = current]
    /\ UNCHANGED <<served, accepted, limits, written>>

\* The access log entry goes to LOG_FILE, whatever that is by now.
EndRequest(c) ==
    /\ up /\ request[c] # None
    /\ written' = <<request[c], log_file>>
    /\ request' = [request EXCEPT ![c] = None]
    /\ UNCHANGED <<served, accepted, limits>>

\* The task ends at any await: screened out, no handshake, or gone.
Close(c) ==
    /\ up /\ accepted[c] # None
    /\ accepted' = [accepted EXCEPT ![c] = None]
    /\ limits' = [limits EXCEPT ![c] = None]
    /\ request' = [request EXCEPT ![c] = None]
    /\ UNCHANGED <<served, written>>

ReloadStep ==
    \/ Register \/ Receive \/ LoadFails \/ LoadPanics \/ Load
    \/ UpdateLogFile \/ UpdateLogFilePanics \/ Publish

StartWorker(w) == Bind(w) \/ BindFails(w)

Next ==
    \/ \E c \in Contents : Write(c)
    \/ Signal
    \/ ReloadStep
    \/ \E w \in Workers : StartWorker(w)
    \/ JoinPanics
    \/ \E c \in Conns : Accept(c) \/ Serve(c) \/ BeginRequest(c) \/ EndRequest(c) \/ Close(c)

Spec == Init /\ [][Next]_vars

\* The OS runs the threads; nothing is assumed of operator and clients.
FairSpec ==
    /\ Spec
    /\ WF_vars(ReloadStep) /\ WF_vars(JoinPanics)
    /\ \A w \in Workers : WF_vars(StartWorker(w))

-----------------------------------------------------------------------------
(* Properties.                                                             *)

Snapshot == [generation : Nat, body : {c.body : c \in Contents}, logfile : LogFiles \cup {NoLog},
             security_manager : {c.body : c \in Contents}, cache_engine : Nat]

Threads == {"starting", "waiting", "loading", "logging", "publishing", "dead"}

\* The types of the disk, the threads and the snapshots.  The thread's counter
\* is the number of the snapshot in the store, and what it has built has the
\* next one: a reload that failed, or was cut off by a panic, uses up no number.
TypeOK ==
    /\ file \in Contents /\ startup \in Contents
    /\ up \in BOOLEAN /\ sighup \in BOOLEAN
    /\ thread \in Threads
    /\ worker \in [Workers -> {"binding", "accepting", "dead"}]
    /\ generation \in 0..MaxReloads
    /\ candidate \in Snapshot \cup {None}
    /\ candidate # None => candidate.generation = generation + 1
    /\ current \in Snapshot /\ current.generation = generation
    /\ log_file \in LogFiles \cup {NoLog}
    /\ accepted \in [Conns -> Snapshot \cup {None}]
    /\ limits \in [Conns -> Snapshot \cup {None}]
    /\ request \in [Conns -> Snapshot \cup {None}]
    /\ written \in (Snapshot \X (LogFiles \cup {NoLog})) \cup {<<None, None>>}

\* Every snapshot anyone holds or has used.
Live == ({current, written[1]}
            \cup UNION {{accepted[c], limits[c], request[c]} : c \in Conns}) \ {None}

\* docs/architecture.md: "invalid config never partially applies".  Each
\* snapshot in use is the whole of one content, loadable with the startup-only
\* settings of the running server, whatever proxy.conf held when it was read.
SnapshotsAreWhole ==
    \A s \in Live : \E c \in Contents :
        /\ Loads(c)
        /\ s = BuildActiveConfig(c, s.generation, s.security_manager)

\* docs/security.md: "The SecurityManager state persists across zero-downtime
\* configuration reloads": all snapshots, old and new, share one manager, so a
\* handshake that fails on the acceptor of an old snapshot is charged where the
\* requests of the newest one are screened.
ManagerSurvives == \A s \in Live : s.security_manager = startup.body

\* A generation names one snapshot: no two different ones, and so no two cache
\* engines, ever share a number, and nobody is ahead of the store.
GenerationIdentifies ==
    \A s, u \in Live :
        /\ s.generation = u.generation => s = u
        /\ s.generation <= current.generation

\* The three snapshots of a connection, taken by different tasks at different
\* times, never go back: its buffers are not sized by an older configuration
\* than its handshake's, and no request is handled by an older one than those.
ConnectionMovesForward ==
    \A c \in Conns :
        /\ limits[c] # None => accepted[c].generation <= limits[c].generation
        /\ request[c] # None => limits[c].generation <= request[c].generation

\* A signal sent once the file holds a sound content the server can change to.
Asked(c) == up /\ sighup /\ file = c /\ Loads(c) /\ generation < MaxReloads

\* The content is live, or the question is moot: the file changed again, the
\* process ended, or the bound is reached.
Settled(c) == current.body = c.body \/ file # c \/ ~up \/ generation = MaxReloads

\* README: "the proxy reloads proxy.conf on SIGHUP".  Such a signal is followed
\* by the publication of that content.
ReloadApplies == \A c \in Sound : Asked(c) ~> Settled(c)

\* A panic of the reload thread is the only way to lose a signal: coalesced
\* ones, ones that come during a reload, and failed loads before do not.
SignalsLostOnlyByPanic == \A c \in Sound : Asked(c) ~> (Settled(c) \/ thread = "dead")

\* The process does not outlive its pool: when no worker could bind, main ends
\* it, although it waits for the workers one after the other and never for the
\* reload thread.
DeadPoolEndsProcess == (\A w \in Workers : worker[w] = "dead") ~> ~up

\* docs/architecture.md: "an access log entry is written to the snapshot's
\* configured log destination".
LogsGoToSnapshot == written[1] # None => written[2] = written[1].logfile
=============================================================================
