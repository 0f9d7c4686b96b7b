----------------------------- MODULE MCControlPlane -----------------------------
(* The parts of the control plane, each on a small instance of its own: a       *)
(* behaviour is one of SqliteAdapter, EventStream, Dashboard, Startup or        *)
(* RestApi, its subject.                                                        *)
EXTENDS SqliteAdapter, Integers, TLC

CONSTANTS None, Clients, Runs, Processes, Requests, Tokens, t1, t2, n1, n2, n3, n4, p1

\* Which callback makes which nested call.
MCParent == n1 :> t1 @@ n2 :> n1 @@ n3 :> t1 @@ n4 :> t2

VARIABLES
    subject,
    events, committed, flushing, written, stream, closing,     \* EventStream
    selected, cursor, list, loads, poll, selects, failures,    \* Dashboard (and events)
    disk, lock, port, proc, starts, crashes, faults,             \* Startup
    req, audit, revoked, runs, status, open                    \* RestApi (and faults)

streamVars == <<committed, flushing, written, stream, closing>>
dashboardVars == <<selected, cursor, list, loads, poll, selects, failures>>
startupVars == <<disk, lock, port, proc, starts, crashes>>
apiVars == <<req, audit, revoked, runs, status, open>>
partVars == <<events, streamVars, dashboardVars, startupVars, faults, apiVars>>
allVars == <<subject, vars, partVars>>

Stream == INSTANCE EventStream WITH Batch <- 2, MaxEvents <- 4, EventLimit <- 2,
                                    MaxBuffered <- 2, MaxPings <- 1, FailsWhenRead <- FALSE
Page == INSTANCE Dashboard WITH MaxEvents <- 3, EventLimit <- 2, MaxSelects <- 2,
                                MaxFailures <- 1
Serve == INSTANCE Startup WITH db <- disk, MaxStarts <- 2, MaxCrashes <- 1, MaxFaults <- 1
Api == INSTANCE RestApi WITH Cap <- [t \in Tokens |-> 1], Allowed <- [t \in Tokens |-> {"match"}],
                             Pipelines <- {"match", "other"}, Budgets <- {None, 2},
                             GlobalCap <- 3, Actuals <- {0, 2}, MaxFaults <- 1

NoStream == committed = None /\ flushing = None /\ written = None /\ stream = None /\ closing = None
NoDashboard == selected = None /\ cursor = None /\ list = None /\ loads = None /\ poll = None
               /\ selects = None /\ failures = None
NoStartup == disk = None /\ lock = None /\ port = None /\ proc = None /\ starts = None
             /\ crashes = None
NoApi == req = None /\ audit = None /\ revoked = None /\ runs = None /\ status = None
         /\ open = None

\* The adapter's variables are where it starts when it is not the subject.
MCInit == Init /\
    \/ subject = "sqlite" /\ events = None /\ NoStream /\ NoDashboard /\ NoStartup
       /\ faults = None /\ NoApi
    \/ subject = "stream" /\ Stream!Init /\ NoDashboard /\ NoStartup /\ faults = None /\ NoApi
    \/ subject = "page" /\ Page!Init /\ NoStream /\ NoStartup /\ faults = None /\ NoApi
    \/ subject = "serve" /\ Serve!Init /\ events = None /\ NoStream /\ NoDashboard /\ NoApi
    \/ subject = "api" /\ Api!Init /\ events = None /\ NoStream /\ NoDashboard /\ NoStartup

StreamStep == UNCHANGED <<subject, vars, dashboardVars, startupVars, faults, apiVars>>
PageStep == UNCHANGED <<subject, vars, streamVars, startupVars, faults, apiVars>>
ServeStep == UNCHANGED <<subject, vars, events, streamVars, dashboardVars, apiVars>>
ApiStep == UNCHANGED <<subject, vars, events, streamVars, dashboardVars, startupVars>>

MCNext ==
    \/ subject = "sqlite" /\ Next /\ UNCHANGED <<subject, partVars>>
    \/ subject = "stream" /\ Stream!Next /\ StreamStep
    \/ subject = "page" /\ Page!Next /\ PageStep
    \/ subject = "serve" /\ Serve!Next /\ ServeStep
    \/ subject = "api" /\ Api!Next /\ ApiStep

\* The fairness of each part, for the behaviours it is the subject of.
StreamFairly(A) == subject = "stream" /\ A /\ StreamStep
ServeFairly(A) == subject = "serve" /\ A /\ ServeStep
MCFairness ==
    /\ Fairness
    /\ \A c \in Clients :
         /\ WF_allVars(StreamFairly(Stream!IdleTimeout(c)))
         /\ WF_allVars(StreamFairly(Stream!ForceDestroy(c)))
    /\ \A p \in Processes :
         /\ WF_allVars(ServeFairly(Serve!ComesUp(p)))
         /\ WF_allVars(ServeFairly(Serve!GoesDown(p)))

MCSpec == MCInit /\ [][MCNext]_allVars /\ MCFairness

-----------------------------------------------------------------------------
\* A stream carries every event beyond its cursor once, in order and without
\* a gap; what a peer that does not read makes the server buffer is bounded;
\* no stream is open, or opens, once the server closes, although upgrades were
\* under way (api.ts:40-46, 605-611, 1386-1395); and what the page's cursor has
\* passed is in its list, however loads, polls and selections overtake each
\* other (web/app.js:249-309).
ReadersMissNothing ==
    /\ subject = "stream" =>
         Stream!StreamIsExact /\ Stream!BufferIsBounded /\ Stream!NoStreamOutlivesServer
    /\ subject = "page" => Page!NothingBelowTheCursorIsLost


\* Whatever processes migrate at once, and wherever one crashes, the tables are
\* those the recorded versions name, old statuses survive, and nobody migrates
\* on tables that changed since it looked (migrations.ts:40-56); and "a partial
\* startup never leaks a listener, timer, or open store handle" (serve.ts:239).
StartupIsSafe ==
    subject = "serve" =>
      Serve!VersionsTellTheTruth /\ Serve!OneMigratesAtATime /\ Serve!NothingLeaks

\* A stream that one side ended is released although the peer never reads or
\* closes (api.ts:718-733), and a start comes up or is torn down, whoever else
\* starts at the same time (serve.ts:239).
StreamsAndStartsEnd ==
    /\ \A c \in Clients :
      (subject = "stream" /\ stream[c].socket = "ended")
        ~> (subject = "stream" /\ stream[c].socket = "gone")
    /\ \A p \in Processes :
      (subject = "serve" /\ Serve!At(p, "versions"))
        ~> (subject = "serve" /\ (Serve!At(p, "up") \/ Serve!At(p, "off")))

\* A request changes something only if its token was valid when it came, and
\* creates a run only if no cap was exhausted then (api.ts:8-14, 19-23); every
\* run has the audit rows of its creation and its completion (api.ts:24-27).
EffectsAreAuthorized == subject = "api" => Api!EffectsAreAuthorized /\ Api!RunsAreAudited
===============================================================================
