---------------------------- MODULE HITLQueue_proofs ----------------------------
(***************************************************************************)
(* The human-in-the-loop queue's safety for any number of checkpoints,     *)
(* requests and users.  None of its safety properties is inductive; Inv    *)
(* relates, for each checkpoint, the entry, its channel and its Submit     *)
(* call (EntryInv), and, for each request, what it claims and what it did  *)
(* to the entry (RequestInv).                                              *)
(***************************************************************************)
EXTENDS HITLQueue, TLAPS

Taken(r) == request[r] \in { "decided", "signalling", "ok" }
Closing(r, c) == request[r] \in { "decided", "signalling" } /\ claim[r].checkpoint = c

EntryInv(c) ==
    /\ c \in pending <=> status[c] = "pending"
    /\ submit[c] = "idle" <=> status[c] = "none"
    /\ submit[c] = "unmarking" => status[c] = "timed_out" /\ c \notin closed
    /\ c \in closed => Resolved(c)
    /\ Resolved(c) /\ c \notin closed =>
          submit[c] = "unmarking" \/ \E r \in Requests : Closing(r, c)
    /\ status[c] \in Decisions => \E r \in Requests : Took(r, c)
    /\ answer[c] # "none" <=> submit[c] = "returned"
    /\ answer[c] # "none" => Resolved(c) /\ answer[c] \in { status[c], "error" }

RequestInv(r) ==
    LET c == claim[r].checkpoint IN
    /\ request[r] \in { "checked", "decided", "signalling", "ok" } =>
          Permitted(claim[r].user, c)
    /\ Taken(r) => status[c] = claim[r].decision
    /\ request[r] \in { "decided", "signalling" } => c \notin closed
    /\ \A s \in Requests : Taken(r) /\ Taken(s) /\ claim[s].checkpoint = c => s = r

Inv ==
    /\ TypeOK
    /\ \A c \in Checkpoints : EntryInv(c)
    /\ \A r \in Requests : RequestInv(r)

--------------------------------------------------------------------------------

\* A claim names a checkpoint and carries a decision (hitl.go:339-353).
LEMMA ClaimTyping ==
    ASSUME TypeOK, NEW r \in Requests
    PROVE  claim[r].checkpoint \in Checkpoints /\ claim[r].decision \in Decisions
  BY DEF TypeOK, Claims

\* A request whose Decide took effect has decided the entry: the entry is no
\* longer pending and did not time out (hitl.go:146-164).
LEMMA TakenResolved ==
    ASSUME Inv, NEW r \in Requests, Taken(r)
    PROVE  /\ status[claim[r].checkpoint] \in Decisions
           /\ claim[r].checkpoint \notin pending
           /\ submit[claim[r].checkpoint] # "unmarking"
  <1>1. claim[r].checkpoint \in Checkpoints /\ claim[r].decision \in Decisions
    BY ClaimTyping DEF Inv
  <1>2. RequestInv(r) /\ EntryInv(claim[r].checkpoint)
    BY <1>1 DEF Inv
  <1> QED
    BY <1>1, <1>2 DEF RequestInv, EntryInv, Decisions

\* The empty queue satisfies the invariant (hitl.go:68-81).
LEMMA InitInv == Init => Inv
  <1> SUFFICES ASSUME Init PROVE Inv
    OBVIOUS
  <1>1. TypeOK
    BY DEF Init, TypeOK, SubmitSteps, RequestSteps
  <1>2. ASSUME NEW c \in Checkpoints PROVE EntryInv(c)
    BY DEF Init, EntryInv, Resolved, Decisions
  <1>3. ASSUME NEW r \in Requests PROVE RequestInv(r)
    BY DEF Init, RequestInv, Taken
  <1> QED
    BY <1>1, <1>2, <1>3 DEF Inv

\* Every critical section, every Redis call and the passing of time keep it.
LEMMA NextInv == Inv /\ [Next]_vars => Inv'
  <1> SUFFICES ASSUME Inv, [Next]_vars PROVE Inv'
    OBVIOUS
  <1>t. TypeOK
    BY DEF Inv
  <1>e. ASSUME NEW c \in Checkpoints PROVE EntryInv(c)
    BY DEF Inv
  <1>r. ASSUME NEW r \in Requests PROVE RequestInv(r)
    BY DEF Inv
  <1>k. ASSUME NEW r \in Requests
        PROVE  claim[r].checkpoint \in Checkpoints /\ claim[r].decision \in Decisions
    BY <1>t, ClaimTyping
  <1>1. ASSUME NEW c \in Checkpoints, SubmitStore(c) PROVE Inv'
    <2>1. TypeOK'
      BY <1>t, <1>1
      DEF SubmitStore, TypeOK, SubmitSteps, RequestSteps, Decisions
    <2>2. ASSUME NEW d \in Checkpoints PROVE EntryInv(d)'
      BY <1>t, <1>e, <1>1
      DEF SubmitStore, TypeOK, EntryInv, Resolved, Took, Closing, Decisions
    <2>3. ASSUME NEW s \in Requests PROVE RequestInv(s)'
      BY <1>t, <1>r, <1>k, <1>e, TakenResolved, <1>1
      DEF SubmitStore, TypeOK, RequestInv, Taken, Permitted, EntryInv, Decisions
    <2> QED
      BY <2>1, <2>2, <2>3 DEF Inv
  <1>2. ASSUME NEW c \in Checkpoints, SubmitPersist(c) PROVE Inv'
    <2>1. TypeOK'
      BY <1>t, <1>2
      DEF SubmitPersist, TypeOK, SubmitSteps, RequestSteps, Decisions, RedisWrite
    <2>2. ASSUME NEW d \in Checkpoints PROVE EntryInv(d)'
      BY <1>t, <1>e, <1>2
      DEF SubmitPersist, TypeOK, EntryInv, Resolved, Took, Closing, Decisions
    <2>3. ASSUME NEW s \in Requests PROVE RequestInv(s)'
      BY <1>t, <1>r, <1>k, <1>2
      DEF SubmitPersist, TypeOK, RequestInv, Taken, Permitted
    <2> QED
      BY <2>1, <2>2, <2>3 DEF Inv
  <1>3. ASSUME NEW c \in Checkpoints, SubmitReceive(c) PROVE Inv'
    <2>1. TypeOK'
      BY <1>t, <1>e, <1>3
      DEF SubmitReceive, TypeOK, SubmitSteps, RequestSteps, Decisions, EntryInv, Resolved
    <2>2. ASSUME NEW d \in Checkpoints PROVE EntryInv(d)'
      BY <1>t, <1>e, <1>3
      DEF SubmitReceive, TypeOK, EntryInv, Resolved, Took, Closing, Decisions
    <2>3. ASSUME NEW s \in Requests PROVE RequestInv(s)'
      BY <1>t, <1>r, <1>k, <1>3
      DEF SubmitReceive, TypeOK, RequestInv, Taken, Permitted
    <2> QED
      BY <2>1, <2>2, <2>3 DEF Inv
  <1>4. ASSUME NEW c \in Checkpoints, SubmitTimer(c) PROVE Inv'
    <2>1. TypeOK'
      BY <1>t, <1>4
      DEF SubmitTimer, TypeOK, SubmitSteps, RequestSteps, Decisions
    <2>2. ASSUME NEW d \in Checkpoints PROVE EntryInv(d)'
      BY <1>t, <1>e, <1>4
      DEF SubmitTimer, TypeOK, EntryInv, Resolved, Took, Closing, Decisions
    <2>3. ASSUME NEW s \in Requests PROVE RequestInv(s)'
      BY <1>t, <1>r, <1>k, <1>4
      DEF SubmitTimer, TypeOK, RequestInv, Taken, Permitted
    <2> QED
      BY <2>1, <2>2, <2>3 DEF Inv
  <1>5. ASSUME NEW c \in Checkpoints, SubmitCancelled(c) PROVE Inv'
    <2>1. TypeOK'
      BY <1>t, <1>5
      DEF SubmitCancelled, TypeOK, SubmitSteps, RequestSteps, Decisions
    <2>2. ASSUME NEW d \in Checkpoints PROVE EntryInv(d)'
      BY <1>t, <1>e, <1>5
      DEF SubmitCancelled, TypeOK, EntryInv, Resolved, Took, Closing, Decisions
    <2>3. ASSUME NEW s \in Requests PROVE RequestInv(s)'
      BY <1>t, <1>r, <1>k, <1>5
      DEF SubmitCancelled, TypeOK, RequestInv, Taken, Permitted
    <2> QED
      BY <2>1, <2>2, <2>3 DEF Inv
  <1>6. ASSUME NEW c \in Checkpoints, MarkTimeout(c) PROVE Inv'
    <2>1. TypeOK'
      BY <1>t, <1>6
      DEF MarkTimeout, TypeOK, SubmitSteps, RequestSteps, Decisions
    <2>2. ASSUME NEW d \in Checkpoints PROVE EntryInv(d)'
      BY <1>t, <1>e, <1>r, <1>k, <1>6
      DEF MarkTimeout, TypeOK, EntryInv, Resolved, Took, Closing, Decisions, RequestInv, Taken
    <2>3. ASSUME NEW s \in Requests PROVE RequestInv(s)'
      BY <1>t, <1>r, <1>k, TakenResolved, <1>e, <1>6
      DEF MarkTimeout, TypeOK, RequestInv, Taken, Permitted
    <2> QED
      BY <2>1, <2>2, <2>3 DEF Inv
  <1>7. ASSUME NEW c \in Checkpoints, MarkFinish(c) PROVE Inv'
    <2>1. TypeOK'
      BY <1>t, <1>7
      DEF MarkFinish, TypeOK, SubmitSteps, RequestSteps, Decisions, RedisWrite
    <2>2. ASSUME NEW d \in Checkpoints PROVE EntryInv(d)'
      BY <1>t, <1>e, <1>7
      DEF MarkFinish, TypeOK, EntryInv, Resolved, Took, Closing, Decisions
    <2>3. ASSUME NEW s \in Requests PROVE RequestInv(s)'
      BY <1>t, <1>r, <1>k, TakenResolved, <1>7
      DEF MarkFinish, TypeOK, RequestInv, Taken, Permitted
    <2> QED
      BY <2>1, <2>2, <2>3 DEF Inv
  <1>8. ASSUME NEW c \in Checkpoints, PassExpiry(c) PROVE Inv'
    <2>1. TypeOK'
      BY <1>t, <1>8
      DEF PassExpiry, TypeOK, SubmitSteps, RequestSteps, Decisions
    <2>2. ASSUME NEW d \in Checkpoints PROVE EntryInv(d)'
      BY <1>t, <1>e, <1>8
      DEF PassExpiry, TypeOK, EntryInv, Resolved, Took, Closing, Decisions
    <2>3. ASSUME NEW s \in Requests PROVE RequestInv(s)'
      BY <1>t, <1>r, <1>k, <1>8
      DEF PassExpiry, TypeOK, RequestInv, Taken, Permitted
    <2> QED
      BY <2>1, <2>2, <2>3 DEF Inv
  <1>9. ASSUME NEW c \in Checkpoints, PassTimer(c) PROVE Inv'
    <2>1. TypeOK'
      BY <1>t, <1>9
      DEF PassTimer, TypeOK, SubmitSteps, RequestSteps, Decisions
    <2>2. ASSUME NEW d \in Checkpoints PROVE EntryInv(d)'
      BY <1>t, <1>e, <1>9
      DEF PassTimer, TypeOK, EntryInv, Resolved, Took, Closing, Decisions
    <2>3. ASSUME NEW s \in Requests PROVE RequestInv(s)'
      BY <1>t, <1>r, <1>k, <1>9
      DEF PassTimer, TypeOK, RequestInv, Taken, Permitted
    <2> QED
      BY <2>1, <2>2, <2>3 DEF Inv
  <1>10. ASSUME NEW r \in Requests, DecideLookup(r) PROVE Inv'
    <2>1. TypeOK'
      BY <1>t, <1>10
      DEF DecideLookup, TypeOK, SubmitSteps, RequestSteps, Decisions
    <2>2. ASSUME NEW d \in Checkpoints PROVE EntryInv(d)'
      BY <1>t, <1>e, <1>10
      DEF DecideLookup, TypeOK, EntryInv, Resolved, Took, Closing, Decisions
    <2>3. ASSUME NEW s \in Requests PROVE RequestInv(s)'
      BY <1>t, <1>r, <1>k, <1>10
      DEF DecideLookup, TypeOK, RequestInv, Taken, Permitted
    <2> QED
      BY <2>1, <2>2, <2>3 DEF Inv
  <1>11. ASSUME NEW r \in Requests, DecideLock(r) PROVE Inv'
    <2>1. TypeOK'
      BY <1>t, <1>k, <1>11
      DEF DecideLock, TypeOK, SubmitSteps, RequestSteps, Decisions
    <2>2. ASSUME NEW d \in Checkpoints PROVE EntryInv(d)'
      BY <1>t, <1>e, <1>k, <1>11
      DEF DecideLock, TypeOK, EntryInv, Resolved, Took, Closing, Decisions, Undecided, RequestInv
    <2>3. ASSUME NEW s \in Requests PROVE RequestInv(s)'
      BY <1>t, <1>r, <1>k, TakenResolved, <1>e, <1>11
      DEF DecideLock, TypeOK, RequestInv, Taken, Permitted, Undecided, EntryInv, Resolved, Decisions
    <2> QED
      BY <2>1, <2>2, <2>3 DEF Inv
  <1>12. ASSUME NEW r \in Requests, DecideRedis(r) PROVE Inv'
    <2>1. TypeOK'
      BY <1>t, <1>k, <1>12
      DEF DecideRedis, TypeOK, SubmitSteps, RequestSteps, Decisions, RedisWrite
    <2>2. ASSUME NEW d \in Checkpoints PROVE EntryInv(d)'
      BY <1>t, <1>e, <1>12
      DEF DecideRedis, TypeOK, EntryInv, Resolved, Took, Closing, Decisions
    <2>3. ASSUME NEW s \in Requests PROVE RequestInv(s)'
      BY <1>t, <1>r, <1>k, <1>12
      DEF DecideRedis, TypeOK, RequestInv, Taken, Permitted
    <2> QED
      BY <2>1, <2>2, <2>3 DEF Inv
  <1>13. ASSUME NEW r \in Requests, DecideSignal(r) PROVE Inv'
    <2>1. TypeOK'
      BY <1>t, <1>k, <1>13
      DEF DecideSignal, TypeOK, SubmitSteps, RequestSteps, Decisions
    <2>2. ASSUME NEW d \in Checkpoints PROVE EntryInv(d)'
      BY <1>t, <1>e, <1>r, <1>k, TakenResolved, <1>13
      DEF DecideSignal, TypeOK, EntryInv, Resolved, Took, Closing, Decisions, RequestInv, Taken
    <2>3. ASSUME NEW s \in Requests PROVE RequestInv(s)'
      BY <1>t, <1>r, <1>k, <1>13
      DEF DecideSignal, TypeOK, RequestInv, Taken, Permitted
    <2> QED
      BY <2>1, <2>2, <2>3 DEF Inv
  <1>14. ASSUME ExpiryTick PROVE Inv'
    <2>1. TypeOK'
      BY <1>t, <1>14
      DEF ExpiryTick, TypeOK, SubmitSteps, RequestSteps, Decisions, Expired
    <2>2. ASSUME NEW d \in Checkpoints PROVE EntryInv(d)'
      BY <1>t, <1>e, <1>14
      DEF ExpiryTick, TypeOK, EntryInv, Resolved, Took, Closing, Decisions, Expired
    <2>3. ASSUME NEW s \in Requests PROVE RequestInv(s)'
      BY <1>t, <1>r, <1>k, TakenResolved, <1>e, <1>14
      DEF ExpiryTick, TypeOK, RequestInv, Taken, Permitted, Expired
    <2> QED
      BY <2>1, <2>2, <2>3 DEF Inv
  <1>15. ASSUME CloseQueue PROVE Inv'
    <2>1. TypeOK'
      BY <1>t, <1>15
      DEF CloseQueue, TypeOK, SubmitSteps, RequestSteps, Decisions
    <2>2. ASSUME NEW d \in Checkpoints PROVE EntryInv(d)'
      BY <1>t, <1>e, <1>15
      DEF CloseQueue, TypeOK, EntryInv, Resolved, Took, Closing, Decisions
    <2>3. ASSUME NEW s \in Requests PROVE RequestInv(s)'
      BY <1>t, <1>r, <1>k, <1>15
      DEF CloseQueue, TypeOK, RequestInv, Taken, Permitted
    <2> QED
      BY <2>1, <2>2, <2>3 DEF Inv
  <1>16. ASSUME UNCHANGED vars PROVE Inv'
    <2>1. TypeOK'
      BY <1>t, <1>16 DEF vars, TypeOK
    <2>2. ASSUME NEW d \in Checkpoints PROVE EntryInv(d)'
      BY <1>e, <1>16 DEF vars, EntryInv, Resolved, Took, Closing
    <2>3. ASSUME NEW s \in Requests PROVE RequestInv(s)'
      BY <1>r, <1>16 DEF vars, RequestInv, Taken, Permitted
    <2> QED
      BY <2>1, <2>2, <2>3 DEF Inv
  <1> QED
    BY <1>1, <1>2, <1>3, <1>4, <1>5, <1>6, <1>7, <1>8, <1>9, <1>10, <1>11, <1>12, <1>13, <1>14, <1>15, <1>16
    DEF Next, SubmitStep, DecideStep

--------------------------------------------------------------------------------

\* The invariant holds throughout (hitl.go:97-306).
THEOREM InductiveInvariant == Spec => []Inv
  BY InitInv, NextInv, PTL DEF Spec

\* The entries, the channels and the requests keep their types (hitl.go:35-66).
THEOREM TypeCorrect == Spec => []TypeOK
  <1>1. Inv => TypeOK
    BY DEF Inv
  <1> QED
    BY InductiveInvariant, <1>1, PTL

(***************************************************************************)
(* hitl.go:146-164.  However many requests race on a checkpoint, with each *)
(* other and with the two expiry paths, one decision takes effect, a       *)
(* permitted user's, and the entry keeps it.                               *)
(***************************************************************************)
THEOREM OneDecision == Spec => []DecisionIntegrity
  <1>1. Inv => DecisionIntegrity
    <2> SUFFICES ASSUME Inv, NEW r \in Requests, NEW c \in Checkpoints, Took(r, c)
                 PROVE  /\ status[c] = claim[r].decision
                        /\ Permitted(claim[r].user, c)
                        /\ \A s \in Requests : Took(s, c) => s = r
      BY DEF DecisionIntegrity
    <2>1. RequestInv(r)
      BY DEF Inv
    <2> QED
      BY <2>1 DEF RequestInv, Took, Taken
  <1> QED
    BY InductiveInvariant, <1>1, PTL

(***************************************************************************)
(* hitl.go:127-140.  Submit's answer is the resolution of its entry or an  *)
(* error, and a decision it returns is one some request took.              *)
(***************************************************************************)
THEOREM FaithfulAnswers == Spec => []AnswerFaithful
  <1>1. Inv => AnswerFaithful
    <2> SUFFICES ASSUME Inv, NEW c \in Checkpoints, answer[c] # "none"
                 PROVE  /\ Resolved(c)
                        /\ c \notin pending
                        /\ answer[c] \in { status[c], "error" }
                        /\ answer[c] \in Decisions => \E r \in Requests : Took(r, c)
      BY DEF AnswerFaithful
    <2>1. EntryInv(c)
      BY DEF Inv
    <2> QED
      BY <2>1 DEF EntryInv, Resolved, Decisions
  <1> QED
    BY InductiveInvariant, <1>1, PTL

(***************************************************************************)
(* hitl.go:190-191, 270-273, 295-300.  Every entry that left q.pending has *)
(* its channel closed, or exactly one goroutine about to close it: Submit  *)
(* cannot sleep through a resolution and no channel is closed twice.       *)
(***************************************************************************)
THEOREM WakeupsKept == Spec => []NoLostWakeup
  <1>1. Inv => NoLostWakeup
    <2> SUFFICES ASSUME Inv, NEW c \in Checkpoints
                 PROVE  /\ c \in pending <=> status[c] = "pending"
                        /\ c \in closed =>
                              Resolved(c) /\ Closers(c) = {} /\ submit[c] # "unmarking"
                        /\ Resolved(c) /\ c \notin closed =>
                              IF submit[c] = "unmarking" THEN Closers(c) = {}
                              ELSE \E r \in Requests : Closers(c) = { r }
      BY DEF NoLostWakeup
    <2>1. EntryInv(c)
      BY DEF Inv
    <2>2. ASSUME NEW r \in Closers(c)
          PROVE  r \in Requests /\ Closing(r, c) /\ Taken(r) /\ claim[r].checkpoint = c
      BY DEF Closers, Closing, Taken
    <2>3. \A r \in Closers(c) : RequestInv(r) /\ c \notin closed /\ submit[c] # "unmarking"
      BY <2>2, TakenResolved DEF Inv, RequestInv, Closing
    <2>4. \A r, s \in Closers(c) : r = s
      BY <2>2, <2>3 DEF RequestInv
    <2>5. ASSUME Resolved(c), c \notin closed, submit[c] # "unmarking"
          PROVE  \E r \in Requests : Closers(c) = { r }
      <3>1. PICK r \in Requests : Closing(r, c)
        BY <2>1, <2>5 DEF EntryInv
      <3>2. r \in Closers(c)
        BY <3>1 DEF Closers, Closing
      <3> QED
        BY <2>4, <3>2
    <2> QED
      BY <2>1, <2>3, <2>5 DEF EntryInv
  <1> QED
    BY InductiveInvariant, <1>1, PTL

(***************************************************************************)
(* hitl.go:111-117, 166-172, 261-273.  Whatever requests, timers and       *)
(* failing writes do, hitl:pending lists each checkpoint a Submit waits on *)
(* and, past the resolving goroutine's SREM, none that is resolved, except *)
(* where a write failed, came late or, in the expiry checker, is missing.  *)
(***************************************************************************)
THEOREM RedisAlwaysMatches == Spec => []RedisMatchesPending
  <1> DEFINE Unlisting(c) == \E r \in Requests : request[r] = "decided" /\ claim[r].checkpoint = c
             Matches(c) ==
                /\ c \in pending /\ submit[c] = "waiting" => c \in redisPending
                /\ c \in redisPending /\ Resolved(c) => submit[c] = "unmarking" \/ Unlisting(c)
  <1>1. Init => RedisMatchesPending
    BY DEF Init, RedisMatchesPending
  <1>2. Inv /\ RedisMatchesPending /\ [Next]_vars => RedisMatchesPending'
    <2> SUFFICES ASSUME Inv, RedisMatchesPending, [Next]_vars,
                        NEW c \in Checkpoints, c \notin strayed'
                 PROVE  Matches(c)'
      BY DEF RedisMatchesPending
    <2>t. TypeOK /\ EntryInv(c)
      BY DEF Inv
    <2>m. ASSUME c \notin strayed PROVE Matches(c)
      BY <2>m DEF RedisMatchesPending
    <2>u. ASSUME UNCHANGED <<request, claim>> PROVE Unlisting(c)' = Unlisting(c)
      BY <2>u
    <2>w. ASSUME NEW b \in Checkpoints, NEW S, RedisWrite(b, S, TRUE)
          PROVE  c \notin strayed /\ (c = b => redisPending' = S)
      BY <2>w DEF RedisWrite
    <2> HIDE DEF Unlisting
    <2>1. ASSUME NEW b \in Checkpoints, SubmitStore(b) PROVE Matches(c)'
      BY <2>t, <2>m, <2>u, <2>1 DEF SubmitStore, TypeOK, Resolved, EntryInv
    <2>2. ASSUME NEW b \in Checkpoints, SubmitPersist(b) PROVE Matches(c)'
      <3>1. RedisWrite(b, redisPending \cup { b }, b \in pending)
        BY <2>2 DEF SubmitPersist
      <3>2. c \notin strayed /\ (c = b => c \in pending /\ redisPending' = redisPending \cup { b })
        BY <3>1 DEF RedisWrite
      <3>3. c # b => (c \in redisPending' <=> c \in redisPending)
        BY <3>1 DEF RedisWrite
      <3> QED
        BY <2>t, <2>m, <2>u, <2>2, <3>2, <3>3 DEF SubmitPersist, TypeOK, Resolved, EntryInv
    <2>3. ASSUME NEW b \in Checkpoints, SubmitReceive(b) \/ SubmitTimer(b) \/ SubmitCancelled(b)
          PROVE  Matches(c)'
      BY <2>t, <2>m, <2>u, <2>3 DEF SubmitReceive, SubmitTimer, SubmitCancelled, TypeOK, Resolved
    <2>4. ASSUME NEW b \in Checkpoints, MarkTimeout(b) PROVE Matches(c)'
      BY <2>t, <2>m, <2>u, <2>4 DEF MarkTimeout, TypeOK, Resolved
    <2>5. ASSUME NEW b \in Checkpoints, MarkFinish(b) PROVE Matches(c)'
      <3>1. RedisWrite(b, redisPending \ { b }, TRUE)
        BY <2>5 DEF MarkFinish
      <3>2. c \notin strayed /\ (c = b => redisPending' = redisPending \ { b })
        BY <2>w, <3>1
      <3>3. c # b => (c \in redisPending' <=> c \in redisPending)
        BY <3>1 DEF RedisWrite
      <3> QED
        BY <2>t, <2>m, <2>u, <2>5, <3>2, <3>3 DEF MarkFinish, TypeOK, Resolved, EntryInv
    <2>6. ASSUME NEW b \in Checkpoints, PassExpiry(b) \/ PassTimer(b) PROVE Matches(c)'
      BY <2>m, <2>u, <2>6 DEF PassExpiry, PassTimer, Resolved
    <2>7. ASSUME NEW r \in Requests, DecideLookup(r) \/ DecideSignal(r) PROVE Matches(c)'
      <3>1. Unlisting(c)' = Unlisting(c)
        BY <2>t, <2>7 DEF DecideLookup, DecideSignal, TypeOK, Unlisting
      <3> QED
        BY <2>m, <2>7, <3>1 DEF DecideLookup, DecideSignal, Resolved
    <2>8. ASSUME NEW r \in Requests, DecideLock(r) PROVE Matches(c)'
      <3>1. Unlisting(c) => Unlisting(c)'
        BY <2>t, <2>8 DEF DecideLock, TypeOK, Unlisting
      <3>2. CASE ~Undecided(claim[r].checkpoint) \/ c # claim[r].checkpoint
        BY <2>t, <2>m, <2>8, <3>1, <3>2 DEF DecideLock, TypeOK, Resolved
      <3>3. CASE Undecided(c) /\ c = claim[r].checkpoint
        <4>1. Unlisting(c)' /\ c \notin pending'
          BY <2>t, <2>8, <3>3 DEF DecideLock, TypeOK, Unlisting
        <4> QED
          BY <4>1
      <3> QED
        BY <3>2, <3>3
    <2>9. ASSUME NEW r \in Requests, DecideRedis(r) PROVE Matches(c)'
      <3> DEFINE b == claim[r].checkpoint
      <3>1. /\ RedisWrite(b, redisPending \ { b }, TRUE) /\ b \notin pending
            /\ b \in Checkpoints
        BY <2>t, <2>9, TakenResolved, ClaimTyping DEF DecideRedis, Taken
      <3>2. c \notin strayed /\ (c = b => redisPending' = redisPending \ { b })
        BY <2>w, <3>1
      <3>3. c # b => /\ c \in redisPending' <=> c \in redisPending
                     /\ Unlisting(c) => Unlisting(c)'
        BY <2>t, <2>9, <3>1 DEF RedisWrite, DecideRedis, TypeOK, Unlisting
      <3> QED
        BY <2>m, <2>9, <3>1, <3>2, <3>3 DEF DecideRedis, Resolved
    <2>10. CASE ExpiryTick
      <3>1. c \notin strayed /\ c \notin Expired /\ UNCHANGED <<request, claim, submit, redisPending>>
        BY <2>10 DEF ExpiryTick
      <3> QED
        BY <2>t, <2>m, <2>u, <2>10, <3>1 DEF ExpiryTick, Resolved
    <2>11. CASE CloseQueue \/ UNCHANGED vars
      BY <2>m, <2>u, <2>11 DEF CloseQueue, vars, Resolved
    <2> QED
      BY <2>1, <2>2, <2>3, <2>4, <2>5, <2>6, <2>7, <2>8, <2>9, <2>10, <2>11
      DEF Next, SubmitStep, DecideStep
  <1> QED
    BY InductiveInvariant, <1>1, <1>2, PTL DEF Spec

--------------------------------------------------------------------------------
(* The queue implements HITLCheckpoint *)

Acknowledged ==
    { c \in Checkpoints : \E r \in Requests : request[r] = "ok" /\ claim[r].checkpoint = c }

\* A step that leaves entries, answers and finished requests alone is a stutter.
LEMMA Stutters ==
    ASSUME TypeOK, UNCHANGED <<status, answer, claim>>,
           \A r \in Requests : request'[r] = "ok" <=> request[r] = "ok"
    PROVE  UNCHANGED Promise!vars
  <1>1. Acknowledged' = Acknowledged
    BY DEF Acknowledged
  <1> QED
    BY <1>1 DEF Promise!vars, Acknowledged

(***************************************************************************)
(* hitl.go:97-306.  Every step of the queue is a step of the promise or    *)
(* leaves it alone: a checkpoint is resolved once, answered once after     *)
(* that, and exactly the request whose decision stands is acknowledged.    *)
(***************************************************************************)
THEOREM QueueImplementsPromise == Spec => ImplementsPromise
  <1>1. Init => Promise!Init
    BY DEF Init, Promise!Init
  <1>2. Inv /\ [Next]_vars => [Promise!Next]_(Promise!vars)
    <2> SUFFICES ASSUME Inv, [Next]_vars PROVE [Promise!Next]_(Promise!vars)
      OBVIOUS
    <2>t. TypeOK
      BY DEF Inv
    <2>e. ASSUME NEW c \in Checkpoints PROVE EntryInv(c)
      BY DEF Inv
    <2>1. ASSUME NEW c \in Checkpoints, SubmitStore(c) PROVE Promise!Open(c)
      BY <2>t, <2>e, <2>1 DEF SubmitStore, Promise!Open, EntryInv
    <2>2. ASSUME NEW c \in Checkpoints, SubmitReceive(c) PROVE Promise!Answer(c)
      BY <2>t, <2>e, <2>2
      DEF SubmitReceive, Promise!Answer, Promise!Resolutions, EntryInv, Resolved,
          TypeOK, Decisions
    <2>3. ASSUME NEW c \in Checkpoints, MarkTimeout(c)
          PROVE  Promise!Expire({ c }) \/ Promise!Answer(c)
      <3>1. CASE c \in pending
        BY <2>t, <2>e, <2>3, <3>1 DEF MarkTimeout, Promise!Expire, EntryInv, TypeOK
      <3>2. CASE c \notin pending
        BY <2>t, <2>e, <2>3, <3>2
        DEF MarkTimeout, Promise!Answer, Promise!Resolutions, EntryInv, TypeOK, Decisions
      <3> QED
        BY <3>1, <3>2
    <2>4. ASSUME NEW c \in Checkpoints, MarkFinish(c) PROVE Promise!Answer(c)
      BY <2>t, <2>e, <2>4
      DEF MarkFinish, Promise!Answer, Promise!Resolutions, EntryInv, TypeOK
    <2>5. ASSUME NEW r \in Requests, DecideLock(r)
          PROVE  \/ Promise!Decide(claim[r].checkpoint, claim[r].decision)
                 \/ UNCHANGED Promise!vars
      <3>0. \A s \in Requests : request'[s] = "ok" <=> request[s] = "ok"
        BY <2>t, <2>5 DEF DecideLock, TypeOK
      <3>1. CASE Undecided(claim[r].checkpoint)
        <4>1. Acknowledged' = Acknowledged
          BY <2>5, <3>0 DEF Acknowledged, DecideLock
        <4> QED
          BY <2>5, <3>1, <4>1 DEF DecideLock, Undecided, Promise!Decide, Acknowledged
      <3>2. CASE ~Undecided(claim[r].checkpoint)
        <4>1. UNCHANGED <<status, answer, claim>>
          BY <2>5, <3>2 DEF DecideLock
        <4> QED
          BY <2>t, <3>0, <4>1, Stutters
      <3> QED
        BY <3>1, <3>2
    <2>6. ASSUME NEW r \in Requests, DecideSignal(r)
          PROVE  Promise!Acknowledge(claim[r].checkpoint)
      <3>1. status[claim[r].checkpoint] \in Decisions
        BY <2>6, TakenResolved DEF DecideSignal, Taken
      <3>2. claim[r].checkpoint \notin Acknowledged
        BY <2>6 DEF Inv, RequestInv, Taken, DecideSignal, Acknowledged
      <3>3. Acknowledged' = Acknowledged \cup { claim[r].checkpoint }
        BY <2>t, <2>6, ClaimTyping DEF DecideSignal, Acknowledged, TypeOK
      <3> QED
        BY <2>6, <3>1, <3>2, <3>3 DEF DecideSignal, Promise!Acknowledge, Acknowledged
    <2>7. ASSUME ExpiryTick PROVE Promise!Expire(Expired)
      BY <2>t, <2>e, <2>7 DEF ExpiryTick, Expired, Promise!Expire, EntryInv, TypeOK
    <2>8. ASSUME \/ \E c \in Checkpoints :
                        \/ SubmitPersist(c) \/ SubmitTimer(c) \/ SubmitCancelled(c)
                        \/ PassExpiry(c) \/ PassTimer(c)
                 \/ \E r \in Requests : DecideLookup(r) \/ DecideRedis(r)
                 \/ CloseQueue
                 \/ UNCHANGED vars
          PROVE  UNCHANGED Promise!vars
      <3>1. UNCHANGED <<status, answer, claim>>
        BY <2>8
        DEF SubmitPersist, SubmitTimer, SubmitCancelled, PassExpiry, PassTimer,
            DecideLookup, DecideRedis, CloseQueue, vars
      <3>2. \A r \in Requests : request'[r] = "ok" <=> request[r] = "ok"
        BY <2>t, <2>8
        DEF SubmitPersist, SubmitTimer, SubmitCancelled, PassExpiry, PassTimer,
            DecideLookup, DecideRedis, CloseQueue, vars, TypeOK
      <3> QED
        BY <2>t, <3>1, <3>2, Stutters
    <2>9. /\ \A r \in Requests : claim[r].checkpoint \in Checkpoints
                                 /\ claim[r].decision \in Decisions
          /\ Expired \in SUBSET Checkpoints
          /\ \A c \in Checkpoints : { c } \in SUBSET Checkpoints
      BY <2>t, ClaimTyping DEF Expired, TypeOK
    <2>10. ASSUME NEW c \in Checkpoints,
                  SubmitStore(c) \/ SubmitReceive(c) \/ MarkTimeout(c) \/ MarkFinish(c)
           PROVE  Promise!Next
      BY <2>1, <2>2, <2>3, <2>4, <2>9, <2>10 DEF Promise!Next
    <2>11. ASSUME NEW r \in Requests, DecideLock(r) \/ DecideSignal(r)
           PROVE  Promise!Next \/ UNCHANGED Promise!vars
      <3>1. CASE DecideLock(r)
        <4>1. Promise!Decide(claim[r].checkpoint, claim[r].decision) => Promise!Next
          BY <2>9 DEF Promise!Next
        <4> QED
          BY <2>5, <3>1, <4>1
      <3>2. CASE DecideSignal(r)
        <4>1. Promise!Acknowledge(claim[r].checkpoint) => Promise!Next
          BY <2>9 DEF Promise!Next, Promise!Acknowledge
        <4> QED
          BY <2>6, <3>2, <4>1
      <3> QED
        BY <2>11, <3>1, <3>2
    <2>12. ASSUME ExpiryTick PROVE Promise!Next
      BY <2>7, <2>9, <2>12 DEF Promise!Next
    <2> QED
      BY <2>8, <2>10, <2>11, <2>12 DEF Next, SubmitStep, DecideStep
  <1> QED
    BY InductiveInvariant, <1>1, <1>2, PTL DEF Spec, ImplementsPromise, Promise!Spec
================================================================================
