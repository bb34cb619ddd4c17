------------------------------ MODULE MCProgress ------------------------------
(*****************************************************************************)
(* The parts whose goroutines have to come to an end, one at a time: `part`  *)
(* names the component a behaviour exercises, and the variables of the       *)
(* others keep their initial values.                                         *)
(*****************************************************************************)
EXTENDS TaskStreams, ReviewPipeline, StreamRelay, ServerLifecycle, TLC

VARIABLE part

progressVars == <<migrationVars, poolVars, streamVars, reviewVars, relayVars,
                  lifecycleVars, part>>

\* A part that is not exercised starts in one state.
ProgressInit ==
    /\ part \in { "migrations", "pool", "streams", "review", "relay", "lifecycle" }
    /\ MigrationsInit /\ DBPoolInit /\ TaskStreamsInit
    /\ ReviewInit /\ (part # "review" => mode = "rewrite")
    /\ StreamRelayInit /\ (part # "relay" => adapter = "select")
    /\ LifecycleInit /\ (part # "lifecycle" => env = "staging")

\* The parts other than p stand still.
Others(p) ==
    /\ UNCHANGED part
    /\ IF p = "migrations" THEN TRUE ELSE UNCHANGED migrationVars
    /\ IF p = "pool" THEN TRUE ELSE UNCHANGED poolVars
    /\ IF p = "streams" THEN TRUE ELSE UNCHANGED streamVars
    /\ IF p = "review" THEN TRUE ELSE UNCHANGED reviewVars
    /\ IF p = "relay" THEN TRUE ELSE UNCHANGED relayVars
    /\ IF p = "lifecycle" THEN TRUE ELSE UNCHANGED lifecycleVars

ProgressNext ==
    \/ part = "migrations" /\ MigrationsNext /\ Others("migrations")
    \/ part = "pool" /\ DBPoolNext /\ Others("pool")
    \/ part = "streams" /\ TaskStreamsNext /\ Others("streams")
    \/ part = "review" /\ ReviewStep /\ Others("review")
    \/ part = "relay" /\ StreamRelayNext /\ Others("relay")
    \/ part = "lifecycle" /\ LifecycleNext /\ Others("lifecycle")

ProgressSpec ==
    /\ ProgressInit /\ [][ProgressNext]_progressVars
    /\ \A p \in Pods : /\ WF_migrationVars(part = "migrations" /\ MigrateStep(p))
                      /\ WF_migrationVars(part = "migrations" /\ ConnReaped(p))
    /\ \A r \in Requests : WF_poolVars(part = "pool" /\ RequestStep(r))
    /\ WF_streamVars(part = "streams" /\ AgentGoes)
    /\ WF_streamVars(part = "streams" /\ CreateReturns)
    /\ \A v \in Viewers : /\ WF_streamVars(part = "streams" /\ Poll(v))
                         /\ WF_streamVars(part = "streams" /\ CloseStream(v))
    /\ WF_reviewVars(part = "review" /\ ReviewStep)
    /\ WF_relayVars(part = "relay" /\ OpenStep)
    /\ WF_relayVars(part = "relay" /\ ProducerStep)
    /\ WF_relayVars(part = "relay" /\ RelayStep)
    /\ WF_relayVars(part = "relay" /\ ReadStep)
    /\ WF_lifecycleVars(part = "lifecycle" /\ MainStep)
    /\ WF_lifecycleVars(part = "lifecycle" /\ (StartWatch \/ WatchEnds))
    /\ \A w \in Workers : WF_lifecycleVars(part = "lifecycle" /\ TickReturns(w))

(***************************************************************************)
(* Migrate, main, review.go Run, StreamWithFailover.  What was begun comes *)
(* to an end: every pod comes to serve, although one that serves may hold  *)
(* the migration lock on a connection nobody will unlock; a process starts *)
(* or exits, and a shutdown ends; every review returns a report or an      *)
(* error; and whoever reads a stream gets to its end, although the         *)
(* finishing chunk may be dropped and a cancelled stream's producer may    *)
(* block for good.                                                         *)
(***************************************************************************)
WorkEnds ==
    /\ part = "migrations" => PodsServe
    /\ part = "lifecycle" => LifecycleEnds
    /\ part = "review" => ReviewEnds
    /\ part = "relay" => ListenerEnds /\ ProducerEnds
================================================================================
