------------------------ MODULE EventDispatch_proofs ------------------------
(***************************************************************************)
(* The dispatcher keeps its invariants and implements the Outbox for every *)
(* set of events, webhooks and mentions, every attempt limit and every      *)
(* number of faults.                                                        *)
(***************************************************************************)
EXTENDS EventDispatch, TLAPS

\* A job that waits still has an attempt left.
AttemptLeft == \A e \in Events : job[e] \in {"none", "queued"} => attempt[e] < MaxAttempts

\* The fan-out of e may still commit (again).
MayFanOut(e) ==
  \/ job[e] \in {"none", "queued", "orphaned"}
  \/ job[e] = "running" /\ step[e] \in {"hooks", "payload"}

\* Why duplicates need faults: a job that may fan out again has paid for every fan-out
\* it has made.
PaidFor ==
  \A e \in Events :
    /\ notified[e] <= 1 + faults
    /\ MayFanOut(e) => notified[e] <= faults

IInv == TypeOK /\ AttemptLeft /\ FanOutWhole /\ MentionToldOnce /\ PaidFor

-----------------------------------------------------------------------------
\* A failed run gives its job back or gives it up, and touches nothing else of the queue.
LEMMA FailedType ==
  ASSUME TypeOK, NEW e \in Events, Failed(e)
  PROVE  /\ job' \in [Events -> JobState]
         /\ step' \in [Events -> Step]
         /\ hookIDs' \in [Events -> SUBSET Hooks]
         /\ attempt' = attempt
         /\ \A f \in Events : f # e => job'[f] = job[f] /\ step'[f] = step[f]
         /\ job'[e] \in {"queued", "discarded"}
         /\ job'[e] = "queued" => attempt[e] < MaxAttempts
         /\ UNCHANGED <<world, mention, told, fanout>>
BY DEF TypeOK, Failed, JobState, Step

\* The three ways a run fails, and what each does to the faults.
Fails(e) ==
  /\ job[e] \in {"running", "orphaned"}
  /\ Failed(e)
  /\ \/ faults' = faults + 1 /\ faults < MaxFaults
     \/ UNCHANGED faults /\ MayFanOut(e)

LEMMA EveryFailure ==
  ASSUME NEW e \in Events, PayloadMissing(e) \/ TransientError(e) \/ Rescue(e)
  PROVE  Fails(e)
BY DEF PayloadMissing, TransientError, Rescue, Fails, At, MayFanOut

\* Every step is a failure or one of the other actions.
LEMMA Cases ==
  ASSUME [Next]_vars
  PROVE  \/ \E e \in Events : PublishTx(e) \/ Fetch(e) \/ ReadHooks(e) \/ CommitFanOut(e)
                                \/ ClaimMentions(e) \/ Complete(e) \/ Fails(e)
         \/ SoftDeleteComment
         \/ Crash
         \/ \E h \in Hooks : ToggleHook(h)
         \/ \E m \in Mentions : SetUserActive(m)
         \/ UNCHANGED vars
BY EveryFailure DEF Next, Work

-----------------------------------------------------------------------------
\* Every step keeps the types, and no job is started more often than River allows.
LEMMA TypeStep ==
  ASSUME TypeOK, AttemptLeft, [Next]_vars
  PROVE  TypeOK' /\ AttemptLeft'
<1> USE DispatchAssumption DEF TypeOK, AttemptLeft
<1>1. ASSUME NEW e \in Events, PublishTx(e) PROVE TypeOK' /\ AttemptLeft'
  <2>1. mention' \in [Mentions -> MentionState]
    BY <1>1 DEF PublishTx, syncMentions, MentionState
  <2>2. job' \in [Events -> JobState]
    BY <1>1 DEF PublishTx, JobState
  <2> QED
    BY <1>1, <2>1, <2>2 DEF PublishTx, fanout
<1>2. ASSUME NEW e \in Events, Fetch(e) PROVE TypeOK' /\ AttemptLeft'
  BY <1>2 DEF Fetch, JobState, Step, world, fanout
<1>3. ASSUME NEW e \in Events, ReadHooks(e) PROVE TypeOK' /\ AttemptLeft'
  BY <1>3 DEF ReadHooks, Step, world, fanout
<1>4. ASSUME NEW e \in Events, CommitFanOut(e) PROVE TypeOK' /\ AttemptLeft'
  BY <1>4 DEF CommitFanOut, Step, world
<1>5. ASSUME NEW e \in Events, ClaimMentions(e) PROVE TypeOK' /\ AttemptLeft'
  BY <1>5 DEF ClaimMentions, Step, MentionState, world, fanout
<1>6. ASSUME NEW e \in Events, Complete(e) PROVE TypeOK' /\ AttemptLeft'
  BY <1>6 DEF Complete, JobState, Step, world, fanout
<1>7. ASSUME NEW e \in Events, Fails(e) PROVE TypeOK' /\ AttemptLeft'
  <2>1. faults' \in 0..MaxFaults
    BY <1>7 DEF Fails
  <2> QED
    BY <1>7, <2>1, FailedType DEF Fails, world, fanout
<1>8. CASE Crash
  BY <1>8 DEF Crash, JobState, world, fanout
<1>9. ASSUME NEW h \in Hooks, ToggleHook(h) PROVE TypeOK' /\ AttemptLeft'
  BY <1>9 DEF ToggleHook, queue, fanout
<1>10. ASSUME NEW m \in Mentions, SetUserActive(m) PROVE TypeOK' /\ AttemptLeft'
  BY <1>10 DEF SetUserActive, queue, fanout
<1>11. CASE SoftDeleteComment
  <2>1. mention' \in [Mentions -> MentionState]
    BY <1>11 DEF SoftDeleteComment, syncMentions, MentionState
  <2> QED
    BY <1>11, <2>1 DEF SoftDeleteComment, world, queue, fanout
<1>12. CASE UNCHANGED vars
  BY <1>12 DEF vars
<1> QED
  BY <1>1, <1>2, <1>3, <1>4, <1>5, <1>6, <1>7, <1>8, <1>9, <1>10, <1>11, <1>12, Cases

\* Only the commit of the fan-out writes its three counts, together.
LEMMA WholeStep ==
  ASSUME TypeOK, FanOutWhole, [Next]_vars
  PROVE  FanOutWhole'
<1>1. ASSUME NEW e \in Events, CommitFanOut(e) PROVE FanOutWhole'
  BY <1>1 DEF CommitFanOut, FanOutWhole, TypeOK
<1>2. CASE UNCHANGED fanout
  BY <1>2 DEF FanOutWhole, fanout
<1>3. ASSUME NEW e \in Events, Fails(e) PROVE UNCHANGED fanout
  BY <1>3 DEF Fails, Failed
<1> QED
  BY <1>1, <1>2, <1>3, Cases
     DEF vars, fanout, PublishTx, SoftDeleteComment, Fetch, ReadHooks, ClaimMentions,
         Complete, Crash, ToggleHook, SetUserActive

\* A claim takes only rows nobody has claimed, and rows are never unclaimed.
LEMMA ToldStep ==
  ASSUME TypeOK, MentionToldOnce, [Next]_vars
  PROVE  MentionToldOnce'
<1> USE DEF TypeOK, MentionToldOnce
<1>1. ASSUME NEW e \in Events, PublishTx(e) PROVE MentionToldOnce'
  BY <1>1 DEF PublishTx, syncMentions
<1>2. ASSUME NEW e \in Events, ClaimMentions(e) PROVE MentionToldOnce'
  BY <1>2 DEF ClaimMentions, Pending
<1>3. CASE UNCHANGED <<mention, told>>
  BY <1>3
<1>4. ASSUME NEW e \in Events, Fails(e) PROVE UNCHANGED <<mention, told>>
  BY <1>4 DEF Fails, Failed
<1>5. CASE SoftDeleteComment
  BY <1>5 DEF SoftDeleteComment, syncMentions
<1> QED
  BY <1>1, <1>2, <1>3, <1>4, <1>5, Cases
     DEF vars, Fetch, ReadHooks, CommitFanOut, Complete, Crash, ToggleHook, SetUserActive

\* A run gets past its fan-out once, and only a fault brings it back before it.
LEMMA PaidStep ==
  ASSUME TypeOK, PaidFor, [Next]_vars
  PROVE  PaidFor'
<1> USE DispatchAssumption DEF TypeOK, PaidFor, MayFanOut
<1>1. ASSUME NEW e \in Events, PublishTx(e) PROVE PaidFor'
  BY <1>1 DEF PublishTx, fanout
<1>2. ASSUME NEW e \in Events, Fetch(e) PROVE PaidFor'
  BY <1>2 DEF Fetch, fanout
<1>3. ASSUME NEW e \in Events, ReadHooks(e) PROVE PaidFor'
  BY <1>3 DEF ReadHooks, At, fanout
<1>4. ASSUME NEW e \in Events, CommitFanOut(e) PROVE PaidFor'
  BY <1>4 DEF CommitFanOut, At
<1>5. ASSUME NEW e \in Events, ClaimMentions(e) PROVE PaidFor'
  BY <1>5 DEF ClaimMentions, At, fanout
<1>6. ASSUME NEW e \in Events, Complete(e) PROVE PaidFor'
  BY <1>6 DEF Complete, At, fanout
<1>7. ASSUME NEW e \in Events, Fails(e) PROVE PaidFor'
  <2>1. notified' = notified
    BY <1>7 DEF Fails, Failed, fanout
  <2>2. \A f \in Events : f # e => job'[f] = job[f] /\ step'[f] = step[f]
    BY <1>7, FailedType DEF Fails
  <2>3. CASE faults' = faults + 1
    BY <2>1, <2>3
  <2>4. CASE faults' = faults /\ MayFanOut(e)
    BY <2>1, <2>2, <2>4
  <2> QED
    BY <1>7, <2>3, <2>4 DEF Fails
<1>8. CASE Crash
  BY <1>8 DEF Crash, fanout
<1>9. CASE UNCHANGED <<queue, fanout, faults>>
  BY <1>9 DEF queue, fanout
<1> QED
  BY <1>1, <1>2, <1>3, <1>4, <1>5, <1>6, <1>7, <1>8, <1>9, Cases
     DEF vars, queue, fanout, SoftDeleteComment, ToggleHook, SetUserActive

\* The inductive invariant holds in every reachable state.
THEOREM Inductive == Spec => []IInv
<1>1. Init => IInv
  BY DispatchAssumption
     DEF Init, IInv, TypeOK, AttemptLeft, FanOutWhole, MentionToldOnce, PaidFor, MayFanOut,
         JobState, Step, MentionState
<1>2. IInv /\ [Next]_vars => IInv'
  BY TypeStep, WholeStep, ToldStep, PaidStep DEF IInv
<1> QED
  BY <1>1, <1>2, PTL DEF Spec

\* Every job, mention row and count keeps its type, and River's attempt limit is kept.
THEOREM TypeInvariant == Spec => []TypeOK
<1>1. IInv => TypeOK
  BY DEF IInv
<1> QED
  BY <1>1, Inductive, PTL

\* Through every failed attempt the fan-out of an event is all or nothing.
THEOREM WholeFanOut == Spec => []FanOutWhole
<1>1. IInv => FanOutWhole
  BY DEF IInv
<1> QED
  BY <1>1, Inductive, PTL

\* A mention is told once and only if it was claimed for an active person, whichever of
\* any number of events, retries and rescues claims it.
THEOREM ToldOnce == Spec => []MentionToldOnce
<1>1. IInv => MentionToldOnce
  BY DEF IInv
<1> QED
  BY <1>1, Inductive, PTL

\* Each extra fan-out of an event was paid for by a transient error or a crash: without
\* them, exactly one of everything is all a subscriber gets.
THEOREM DuplicatesArePaidFor == Spec => []DuplicatesNeedFaults
<1>1. IInv => DuplicatesNeedFaults
  BY DEF IInv, PaidFor, DuplicatesNeedFaults
<1> QED
  BY <1>1, Inductive, PTL

-----------------------------------------------------------------------------
(* Refinement.  A step that leaves jobs written, counts and mentions alone is a       *)
(* stutter of the Outbox; publishing is its Write, deleting a comment its Retract,     *)
(* committing a fan-out its Announce, and a claim that finds something its Tell.       *)

\* Failing, crashing and the rest of the queue's bookkeeping are invisible.
LEMMA Stutters ==
  ASSUME TypeOK, UNCHANGED <<mention, told, notified>>,
         \A e \in Events : job[e] = "none" <=> job'[e] = "none"
  PROVE  UNCHANGED outbox!vars
BY DEF outbox!vars, Pending

\* Every step of the dispatcher is a step of the Outbox or a stutter.
LEMMA OutboxStep ==
  ASSUME TypeOK, MentionToldOnce, [Next]_vars
  PROVE  [outbox!Next]_outbox!vars
<1> USE DEF TypeOK
<1>1. ASSUME NEW e \in Events, PublishTx(e) PROVE outbox!Next
  <2>1. PICK named, dropped \in SUBSET Mentions :
          /\ \A m \in named : mention[m] = "absent"
          /\ \A m \in dropped : mention[m] = "pending"
          /\ mention' = [m \in Mentions |->
               CASE m \in named /\ m \in Selves -> "silent"
                 [] m \in named /\ m \notin Selves -> "pending"
                 [] m \in dropped -> "dropped"
                 [] OTHER -> mention[m]]
    BY <1>1 DEF PublishTx, syncMentions
  <2>2. \A m \in Mentions :
          mention'[m] = "pending" <=>
            (mention[m] = "pending" /\ m \notin dropped) \/ m \in named \ Selves
    BY <2>1
  <2>3. Pending' = (Pending \ dropped) \cup (named \ Selves)
    BY <2>2 DEF Pending
  <2>4. (named \ Selves) \cap (Pending \cup {m \in Mentions : told[m] > 0}) = {}
    BY <2>1 DEF Pending, MentionToldOnce
  <2>5. {f \in Events : job'[f] # "none"} = {f \in Events : job[f] # "none"} \cup {e}
    BY <1>1 DEF PublishTx
  <2>6. UNCHANGED <<told, notified>>
    BY <1>1 DEF PublishTx, fanout
  <2>7. outbox!Write(e, named \ Selves, dropped)
    BY <1>1, <2>3, <2>4, <2>5, <2>6 DEF outbox!Write, PublishTx
  <2> QED
    BY <2>7 DEF outbox!Next
<1>2. ASSUME NEW e \in Events, CommitFanOut(e) PROVE outbox!Next
  <2>1. {f \in Events : notified'[f] > 0} = {f \in Events : notified[f] > 0} \cup {e}
    BY <1>2 DEF CommitFanOut
  <2>2. UNCHANGED <<job, mention, told>> /\ job[e] # "none"
    BY <1>2 DEF CommitFanOut, At
  <2>3. outbox!Announce(e)
    BY <2>1, <2>2 DEF outbox!Announce, Pending
  <2> QED
    BY <2>3 DEF outbox!Next
<1>3. ASSUME NEW e \in Events, ClaimMentions(e) PROVE [outbox!Next]_outbox!vars
  <2>1. UNCHANGED <<job, notified>>
    BY <1>3 DEF ClaimMentions, fanout
  <2>2. /\ mention' = [m \in Mentions |->
             CASE m \in Pending \cap active -> "told"
               [] m \in Pending \ active -> "silent"
               [] OTHER -> mention[m]]
        /\ told' = [m \in Mentions |->
             IF m \in Pending \cap active THEN told[m] + 1 ELSE told[m]]
    BY <1>3 DEF ClaimMentions
  <2>3. \A m \in Mentions : mention'[m] # "pending"
    BY <2>2 DEF Pending
  <2>4. Pending' = {}
    BY <2>3 DEF Pending
  <2>5. {m \in Mentions : told'[m] > 0} = {m \in Mentions : told[m] > 0} \cup (Pending \cap active)
    BY <2>2
  <2>6. CASE Pending = {}
    BY <2>1, <2>4, <2>5, <2>6 DEF outbox!vars
  <2>7. CASE Pending # {}
    <3>1. PICK claimed \in SUBSET Mentions : claimed = Pending \cap active
      BY DEF Pending
    <3>2. outbox!Tell(claimed)
      BY <2>1, <2>4, <2>5, <2>7, <3>1 DEF outbox!Tell
    <3> QED
      BY <3>2 DEF outbox!Next
  <2> QED
    BY <2>6, <2>7
<1>4. ASSUME NEW e \in Events, Fetch(e) \/ ReadHooks(e) \/ Complete(e)
      PROVE UNCHANGED outbox!vars
  BY <1>4, Stutters DEF Fetch, ReadHooks, Complete, At, fanout
<1>5. ASSUME NEW e \in Events, Fails(e) PROVE UNCHANGED outbox!vars
  BY <1>5, Stutters, FailedType DEF Fails, fanout
<1>6. CASE Crash
  BY <1>6, Stutters DEF Crash, fanout
<1>7. ASSUME UNCHANGED <<mention, told, queue, fanout>> PROVE UNCHANGED outbox!vars
  BY <1>7, Stutters DEF queue, fanout
<1>8. CASE SoftDeleteComment
  <2>1. PICK dropped \in SUBSET Pending : syncMentions({}, dropped)
    BY <1>8 DEF SoftDeleteComment
  <2>2. \A m \in Mentions : mention'[m] = "pending" <=> mention[m] = "pending" /\ m \notin dropped
    BY <2>1 DEF syncMentions, Pending
  <2>3. dropped \in SUBSET Mentions /\ Pending' = Pending \ dropped
    BY <2>1, <2>2 DEF Pending
  <2>4. UNCHANGED <<job, notified, told>>
    BY <1>8 DEF SoftDeleteComment, queue, fanout
  <2>5. outbox!Retract(dropped)
    BY <2>3, <2>4 DEF outbox!Retract
  <2> QED
    BY <2>3, <2>5 DEF outbox!Next
<1> QED
  BY <1>1, <1>2, <1>3, <1>4, <1>5, <1>6, <1>7, <1>8, Cases
     DEF vars, queue, fanout, ToggleHook, SetUserActive

\* The pipeline of jobs, retries, crashes and claims implements the Outbox: only what a
\* write committed is announced, no announcement is lost again, and mentions are told
\* while they are owed and never again.
THEOREM Refinement == Spec => ImplementsOutbox
<1>1. Init => outbox!Init
  BY DEF Init, outbox!Init, Pending
<1>2. IInv /\ [Next]_vars => [outbox!Next]_outbox!vars
  BY OutboxStep DEF IInv
<1> QED
  BY <1>1, <1>2, Inductive, PTL DEF Spec, outbox!Spec, ImplementsOutbox
=============================================================================
