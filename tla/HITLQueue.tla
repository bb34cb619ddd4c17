------------------------------- MODULE HITLQueue -------------------------------
(***************************************************************************)
(* The human-in-the-loop queue, internal/middleware/hitl.go, at the grain  *)
(* of its lock: every critical section of q.mu is one action and so is     *)
(* every Redis call made outside it.                                       *)
(*                                                                         *)
(* The actors are one Submit per checkpoint (the agent's goroutine; the id *)
(* cp-<task>-<step> is never submitted twice), any number of DecideHandler *)
(* requests, and the expiry checker.  Time is two thresholds per           *)
(* checkpoint: ExpiresAt, fixed before the entry is stored, and the timer, *)
(* which Submit starts only after its Redis writes and so fires later.     *)
(***************************************************************************)
EXTENDS FiniteSets, Naturals

CONSTANTS
    Checkpoints,    \* checkpoint ids
    Requests,       \* concurrent POST /hitl/decide requests
    Users,          \* who may send one
    Admins,         \* the users whose role is admin or superadmin
    Owner,          \* the UserID of each checkpoint's entry
    RedisFails      \* whether a Redis call may fail (its error is dropped)

ASSUME OwnerAssumption == Owner \in [Checkpoints -> Users]
ASSUME AdminAssumption == Admins \subseteq Users
ASSUME RedisAssumption == RedisFails \in BOOLEAN

Decisions == { "approve", "reject", "modify" }

VARIABLES
    status,         \* entry.Status; "none" before Submit
    pending,        \* the keys of q.pending
    closed,         \* entries whose decisionCh is closed (decisionClosed)
    redisPending,   \* the Redis set hitl:pending
    strayed,        \* history: the checkpoints hitl:pending may be wrong about
    clock,          \* "fresh", "expired" (ExpiresAt passed), "due" (timer fired)
    submit,         \* where each Submit call is
    answer,         \* what Submit returned: the entry's status or "error"
    request,        \* where each DecideHandler call is
    claim,          \* what each request says: checkpoint, user and decision
    checker         \* whether the expiry checker runs

vars == <<status, pending, closed, redisPending, strayed, clock, submit, answer,
          request, claim, checker>>

Claims == [checkpoint : Checkpoints, user : Users, decision : Decisions]

SubmitSteps == { "idle", "persist", "waiting", "marking", "unmarking", "returned" }
RequestSteps ==
    { "idle", "checked", "decided", "signalling", "ok", "forbidden", "notfound" }

TypeOK ==
    /\ status \in [Checkpoints -> { "none", "pending", "timed_out" } \cup Decisions]
    /\ pending \subseteq Checkpoints
    /\ closed \subseteq Checkpoints
    /\ redisPending \subseteq Checkpoints
    /\ strayed \subseteq Checkpoints
    /\ clock \in [Checkpoints -> { "fresh", "expired", "due" }]
    /\ submit \in [Checkpoints -> SubmitSteps]
    /\ answer \in [Checkpoints -> { "none", "error", "timed_out" } \cup Decisions]
    /\ request \in [Requests -> RequestSteps]
    /\ claim \in [Requests -> Claims]
    /\ checker \in { "running", "stopped" }

Init ==
    /\ status = [c \in Checkpoints |-> "none"]
    /\ pending = {}
    /\ closed = {}
    /\ redisPending = {}
    /\ strayed = {}
    /\ clock = [c \in Checkpoints |-> "fresh"]
    /\ submit = [c \in Checkpoints |-> "idle"]
    /\ answer = [c \in Checkpoints |-> "none"]
    /\ request = [r \in Requests |-> "idle"]
    /\ claim \in [Requests -> Claims]
    /\ checker = "running"

\* A Redis command about c that makes the set S: its error is never looked at.  What it
\* says of c may be out of date by now.
RedisWrite(c, S, upToDate) ==
    \/ /\ redisPending' = S
       /\ strayed' = IF upToDate THEN strayed ELSE strayed \cup { c }
    \/ /\ RedisFails
       /\ redisPending' = redisPending
       /\ strayed' = strayed \cup { c }

Permitted(u, c) == u = Owner[c] \/ u \in Admins

--------------------------------------------------------------------------------
(* Mutants: each is one action below with a plausible slip in it, and stands  *)
(* in for that action when the checks ask whether a property notices.         *)

\* The timer branch returns its error without markTimeout.
SubmitTimerNoMark(c) ==
    /\ submit[c] = "waiting"
    /\ clock[c] = "due"
    /\ submit' = [submit EXCEPT ![c] = "returned"]
    /\ answer' = [answer EXCEPT ![c] = "error"]
    /\ UNCHANGED <<status, pending, closed, redisPending, strayed, clock, request, claim, checker>>

\* The select has no timer branch.
SubmitTimerMissing(c) == FALSE /\ UNCHANGED vars

\* markTimeout does not look the entry up first.
MarkTimeoutUnguarded(c) ==
    /\ submit[c] = "marking"
    /\ status' = [status EXCEPT ![c] = "timed_out"]
    /\ pending' = pending \ { c }
    /\ submit' = [submit EXCEPT ![c] = "unmarking"]
    /\ UNCHANGED <<answer, closed, redisPending, strayed, clock, request, claim, checker>>

\* DecideHandler does not compare the entry's user with the caller.
DecideLookupAnyone(r) ==
    /\ request[r] = "idle"
    /\ LET c == claim[r].checkpoint IN
       request' = [request EXCEPT ![r] =
           IF c \in pending /\ status[c] = "pending" THEN "checked" ELSE "notfound"]
    /\ UNCHANGED <<status, pending, closed, redisPending, strayed, clock, submit, answer, claim, checker>>

\* Decide leaves the entry in q.pending.
DecideLockKeepsEntry(r) ==
    /\ request[r] = "checked"
    /\ LET c == claim[r].checkpoint IN
       \/ /\ c \in pending /\ status[c] = "pending"
          /\ status' = [status EXCEPT ![c] = claim[r].decision]
          /\ request' = [request EXCEPT ![r] = "decided"]
       \/ /\ ~(c \in pending /\ status[c] = "pending")
          /\ request' = [request EXCEPT ![r] = "notfound"]
          /\ UNCHANGED status
    /\ UNCHANGED <<pending, closed, redisPending, strayed, clock, submit, answer, claim, checker>>

\* The expiry checker drops entries without closing their channels.
ExpiryTickNoSignal ==
    LET old == { c \in pending : clock[c] # "fresh" } IN
    /\ checker = "running"
    /\ old # {}
    /\ status' = [c \in Checkpoints |-> IF c \in old THEN "timed_out" ELSE status[c]]
    /\ pending' = pending \ old
    /\ UNCHANGED <<closed, redisPending, strayed, clock, submit, answer, request, claim, checker>>

--------------------------------------------------------------------------------
(* Submit *)

SubmitStore(c) ==
    /\ submit[c] = "idle"
    /\ status' = [status EXCEPT ![c] = "pending"]
    /\ pending' = pending \cup { c }
    /\ submit' = [submit EXCEPT ![c] = "persist"]
    /\ UNCHANGED <<closed, redisPending, strayed, clock, answer, request, claim, checker>>

SubmitPersist(c) ==
    /\ submit[c] = "persist"
    /\ RedisWrite(c, redisPending \cup { c }, c \in pending)
    /\ submit' = [submit EXCEPT ![c] = "waiting"]
    /\ UNCHANGED <<status, pending, closed, clock, answer, request, claim, checker>>

\* The select's decisionCh branch: returns the entry, whatever its status is.
SubmitReceive(c) ==
    /\ submit[c] = "waiting"
    /\ c \in closed
    /\ submit' = [submit EXCEPT ![c] = "returned"]
    /\ answer' = [answer EXCEPT ![c] = status[c]]
    /\ UNCHANGED <<status, pending, closed, redisPending, strayed, clock, request, claim, checker>>

\* The select's timer branch; it may win although decisionCh is closed too.
SubmitTimer(c) ==
    /\ submit[c] = "waiting"
    /\ clock[c] = "due"
    /\ submit' = [submit EXCEPT ![c] = "marking"]
    /\ UNCHANGED <<status, pending, closed, redisPending, strayed, clock, answer, request, claim, checker>>

\* The select's ctx.Done() branch.
SubmitCancelled(c) ==
    /\ submit[c] = "waiting"
    /\ submit' = [submit EXCEPT ![c] = "marking"]
    /\ UNCHANGED <<status, pending, closed, redisPending, strayed, clock, answer, request, claim, checker>>

\* markTimeout's critical section.  Nothing is left to do when the entry is gone.
MarkTimeout(c) ==
    /\ submit[c] = "marking"
    /\ \/ /\ c \in pending
          /\ status' = [status EXCEPT ![c] = "timed_out"]
          /\ pending' = pending \ { c }
          /\ submit' = [submit EXCEPT ![c] = "unmarking"]
          /\ UNCHANGED answer
       \/ /\ c \notin pending
          /\ submit' = [submit EXCEPT ![c] = "returned"]
          /\ answer' = [answer EXCEPT ![c] = "error"]
          /\ UNCHANGED <<status, pending>>
    /\ UNCHANGED <<closed, redisPending, strayed, clock, request, claim, checker>>

\* The rest of markTimeout (Redis, signalDecision) and Submit's error return.
MarkFinish(c) ==
    /\ submit[c] = "unmarking"
    /\ RedisWrite(c, redisPending \ { c }, TRUE)
    /\ closed' = closed \cup { c }
    /\ submit' = [submit EXCEPT ![c] = "returned"]
    /\ answer' = [answer EXCEPT ![c] = "error"]
    /\ UNCHANGED <<status, pending, clock, request, claim, checker>>

--------------------------------------------------------------------------------
(* DecideHandler: GetByID and the ownership test, then Decide *)

\* GetByID: the entry is in the map and still pending.
Undecided(c) == c \in pending /\ status[c] = "pending"

DecideLookup(r) ==
    /\ request[r] = "idle"
    /\ LET c == claim[r].checkpoint IN
       request' = [request EXCEPT ![r] =
           IF ~Undecided(c) THEN "notfound"
           ELSE IF Permitted(claim[r].user, c) THEN "checked" ELSE "forbidden"]
    /\ UNCHANGED <<status, pending, closed, redisPending, strayed, clock, submit, answer, claim, checker>>

\* Decide's critical section, entered after GetByID's lock was released.
DecideLock(r) ==
    /\ request[r] = "checked"
    /\ LET c == claim[r].checkpoint IN
       \/ /\ Undecided(c)
          /\ status' = [status EXCEPT ![c] = claim[r].decision]
          /\ pending' = pending \ { c }
          /\ request' = [request EXCEPT ![r] = "decided"]
       \/ /\ ~Undecided(c)
          /\ request' = [request EXCEPT ![r] = "notfound"]
          /\ UNCHANGED <<status, pending>>
    /\ UNCHANGED <<closed, redisPending, strayed, clock, submit, answer, claim, checker>>

DecideRedis(r) ==
    /\ request[r] = "decided"
    /\ RedisWrite(claim[r].checkpoint, redisPending \ { claim[r].checkpoint }, TRUE)
    /\ request' = [request EXCEPT ![r] = "signalling"]
    /\ UNCHANGED <<status, pending, closed, clock, submit, answer, claim, checker>>

\* signalDecision, then the 200 response.
DecideSignal(r) ==
    /\ request[r] = "signalling"
    /\ closed' = closed \cup { claim[r].checkpoint }
    /\ request' = [request EXCEPT ![r] = "ok"]
    /\ UNCHANGED <<status, pending, redisPending, strayed, clock, submit, answer, claim, checker>>

--------------------------------------------------------------------------------
(* The expiry checker and time *)

Expired == { c \in pending : clock[c] # "fresh" }

\* One tick of the checker: all expired entries in one critical section, no Redis.
ExpiryTick ==
    /\ checker = "running"
    /\ Expired # {}
    /\ status' = [c \in Checkpoints |-> IF c \in Expired THEN "timed_out" ELSE status[c]]
    /\ pending' = pending \ Expired
    /\ closed' = closed \cup Expired
    /\ strayed' = strayed \cup Expired
    /\ UNCHANGED <<redisPending, clock, submit, answer, request, claim, checker>>

\* Close, on shutdown.
CloseQueue ==
    /\ checker = "running"
    /\ checker' = "stopped"
    /\ UNCHANGED <<status, pending, closed, redisPending, strayed, clock, submit, answer, request, claim>>

\* ExpiresAt passes.
PassExpiry(c) ==
    /\ submit[c] # "idle" /\ clock[c] = "fresh"
    /\ clock' = [clock EXCEPT ![c] = "expired"]
    /\ UNCHANGED <<status, pending, closed, redisPending, strayed, submit, answer, request, claim, checker>>

\* The timer Submit started after its Redis writes elapses.
PassTimer(c) ==
    /\ submit[c] = "waiting" /\ clock[c] = "expired"
    /\ clock' = [clock EXCEPT ![c] = "due"]
    /\ UNCHANGED <<status, pending, closed, redisPending, strayed, submit, answer, request, claim, checker>>

--------------------------------------------------------------------------------

SubmitStep(c) ==
    \/ SubmitPersist(c) \/ SubmitReceive(c) \/ SubmitTimer(c)
    \/ MarkTimeout(c) \/ MarkFinish(c)

DecideStep(r) == DecideLock(r) \/ DecideRedis(r) \/ DecideSignal(r)

Next ==
    \/ \E c \in Checkpoints :
          \/ SubmitStore(c) \/ SubmitStep(c) \/ SubmitCancelled(c)
          \/ PassExpiry(c) \/ PassTimer(c)
    \/ \E r \in Requests : DecideLookup(r) \/ DecideStep(r)
    \/ ExpiryTick
    \/ CloseQueue

Spec == Init /\ [][Next]_vars

(***************************************************************************)
(* Time passes and a running goroutine is scheduled; nobody is obliged to  *)
(* decide, to cancel or to shut down, and the checker may be stopped.      *)
(***************************************************************************)
Fairness ==
    /\ \A c \in Checkpoints :
          WF_vars(SubmitStep(c)) /\ WF_vars(PassExpiry(c)) /\ WF_vars(PassTimer(c))
    /\ \A r \in Requests : WF_vars(DecideStep(r))

LiveSpec == Spec /\ Fairness

--------------------------------------------------------------------------------
(* Properties *)

Resolved(c) == status[c] \notin { "none", "pending" }

\* The request's Decide took effect on checkpoint c.
Took(r, c) ==
    request[r] \in { "decided", "signalling", "ok" } /\ claim[r].checkpoint = c

(***************************************************************************)
(* hitl.go:146-164.  Of the requests racing on a checkpoint, with each     *)
(* other and with both expiry paths, at most one Decide takes effect, the  *)
(* entry keeps that request's decision for good, and the request was the   *)
(* owner's or an admin's although the ownership test ran under an earlier  *)
(* lock.                                                                   *)
(***************************************************************************)
DecisionIntegrity ==
    \A r \in Requests, c \in Checkpoints : Took(r, c) =>
        /\ status[c] = claim[r].decision
        /\ Permitted(claim[r].user, c)
        /\ \A s \in Requests : Took(s, c) => s = r

(***************************************************************************)
(* hitl.go:127-140.  A Submit that returns a decision returns one some     *)
(* request took, and it is final; a Submit that returns an error although  *)
(* a human decided had its deadline passed or its context cancelled, and   *)
(* never leaves its entry behind in q.pending.                             *)
(***************************************************************************)
AnswerFaithful ==
    \A c \in Checkpoints : answer[c] # "none" =>
        /\ Resolved(c)
        /\ c \notin pending
        /\ answer[c] \in { status[c], "error" }
        /\ answer[c] \in Decisions => \E r \in Requests : Took(r, c)

\* The requests that will close the channel of c.
Closers(c) ==
    { r \in Requests : request[r] \in { "decided", "signalling" } /\ claim[r].checkpoint = c }

(***************************************************************************)
(* hitl.go:190-191, 270-273, 295-300.  No wake-up is lost: whenever an     *)
(* entry has left q.pending, either its channel is closed already or       *)
(* exactly one goroutine is on its way to close it.                        *)
(***************************************************************************)
NoLostWakeup ==
    \A c \in Checkpoints :
        /\ c \in pending <=> status[c] = "pending"
        /\ c \in closed => Resolved(c) /\ Closers(c) = {} /\ submit[c] # "unmarking"
        /\ Resolved(c) /\ c \notin closed =>
              IF submit[c] = "unmarking" THEN Closers(c) = {}
              ELSE \E r \in Requests : Closers(c) = { r }

(***************************************************************************)
(* hitl.go:111-117, 166-172, 261-273, 285-303.  hitl:pending goes wrong    *)
(* about a checkpoint only where one of its writes failed, where it was    *)
(* resolved before Submit listed it, or where the expiry checker, which    *)
(* writes nothing, removed it.  Of the others, each that a Submit waits on *)
(* is listed, and one that is resolved is listed only until the goroutine  *)
(* that resolved it gets to its SREM.                                      *)
(***************************************************************************)
RedisMatchesPending ==
    \A c \in Checkpoints \ strayed :
        /\ c \in pending /\ submit[c] = "waiting" => c \in redisPending
        /\ c \in redisPending /\ Resolved(c) =>
              \/ submit[c] = "unmarking"
              \/ \E r \in Requests : request[r] = "decided" /\ claim[r].checkpoint = c

(***************************************************************************)
(* hitl.go:97-99.  Submit blocks "until a decision is made, the context is *)
(* cancelled, or the timeout expires": every Submit returns, even when the *)
(* expiry checker was stopped and nobody ever decides.                     *)
(***************************************************************************)
SubmitReturns ==
    \A c \in Checkpoints : submit[c] = "persist" ~> submit[c] = "returned"

\* What the queue promises: each checkpoint is resolved once, answered once.
Promise ==
    INSTANCE HITLCheckpoint WITH
        outcome <- status,
        answer <- answer,
        acknowledged <- { c \in Checkpoints :
                            \E r \in Requests : request[r] = "ok" /\ claim[r].checkpoint = c }

\* hitl.go:97-306 implements the lock-free promise of module HITLCheckpoint.
ImplementsPromise == Promise!Spec
================================================================================
