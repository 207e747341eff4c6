---------------------------- MODULE OutboxDrain ----------------------------
(***************************************************************************)
(* What makes the drains of the outbox run: the ticks of the internal      *)
(* scheduler (lib/outbox-drain-scheduler.ts) and the requests to the drain *)
(* route (routes/emails/v2/outbox/drain/route.ts), on top of the batch     *)
(* lane of EmailOutbox.                                                    *)
(*                                                                         *)
(* A tick makes rounds: one batch, then up to Limit messages of the        *)
(* attachment lane, until a round claims nothing, MaxBatches times at the  *)
(* most.  An error in either lane ends the tick, not the scheduler.  A     *)
(* request makes one round and forgets what it claimed, so only what it    *)
(* does to the lanes is kept of it.  The attachment lane is here only what *)
(* its own module says of it: a claimed message is settled, or left for    *)
(* later.                                                                  *)
(***************************************************************************)
EXTENDS EmailOutbox

CONSTANTS
    Scheduled,  \* workers that are schedulers' ticks; the others are requests
    MaxBatches, \* OUTBOX_DRAIN_SCHEDULE_MAX_BATCHES
    Parcels     \* queued messages with attachments

ASSUME ScheduleAssumption ==
    /\ Scheduled \subseteq Workers
    /\ MaxBatches \in Nat \ {0}
    /\ Parcels \intersect Msgs = {}

VARIABLES
    round,  \* each scheduler's place in its tick
    parcel  \* messages of the attachment lane

drainVars == <<vars, round, parcel>>

\* Phases: the process is down; no tick runs; the batch lane's drain; the
\* attachment lane's.  left: rounds to go, this one included.  claimed: what
\* this round claimed: nothing yet, a batch that had lost all its messages before
\* it was claimed, or some message.  processed: messages of the attachment lane in this round.
Rounds ==
    [phase : {"down", "idle", "batch", "attachments"}, left : 0 .. MaxBatches,
     claimed : {"nothing", "hollow", "some"}, processed : 0 .. Limit]

NoTick == [phase |-> "idle", left |-> 0, claimed |-> "nothing", processed |-> 0]
Down == [NoTick EXCEPT !.phase = "down"]

\* The start of a round, with n rounds to go.
StartOf(n) == [NoTick EXCEPT !.phase = "batch", !.left = n]

\* A scheduler has a batch only in the batch lane's phase, and a tick always
\* has rounds to go.
DrainTypeOK ==
    /\ TypeOK
    /\ round \in [Scheduled -> Rounds]
    /\ parcel \in [Parcels -> {"absent", "due", "later", "settled"}]
    /\ \A w \in Scheduled :
          /\ job[w].pc # "idle" => round[w].phase = "batch"
          /\ round[w].phase \in {"batch", "attachments"} <=> round[w].left > 0

DrainInit ==
    /\ Init
    /\ round = [w \in Scheduled |-> NoTick]
    /\ parcel = [a \in Parcels |-> "absent"]

-----------------------------------------------------------------------------
(* The loop of runScheduledDrain.                                          *)

Due == {a \in Parcels : parcel[a] = "due"}

\* The cron fires while no tick of the process runs (protect, running).
Tick(w) ==
    /\ round[w] = NoTick
    /\ round' = [round EXCEPT ![w] = StartOf(MaxBatches)]
    /\ UNCHANGED <<vars, parcel>>

\* Mutant: running is not reset when the tick ends with an error.
EndsStillRunning(w) ==
    round' = [round EXCEPT ![w] = [NoTick EXCEPT !.processed = Limit]]

\* An error ends the tick: the catch only logs it, the finally resets running.
EndWithError(w) == round' = [round EXCEPT ![w] = NoTick]

ToAttachments(w, claimed) ==
    round' = [round EXCEPT ![w] = [@ EXCEPT !.phase = "attachments", !.claimed = claimed]]

\* Nothing to claim, or SKIP LOCKED passed over all of it.
ClaimNothing(w) ==
    /\ job[w].pc = "idle"
    /\ Retryable \union Unbatched = {} \/ Workers # {w}
    /\ entries' = entries \ Leftover
    /\ UNCHANGED <<state, resendId, batchOf, position, batchVars, expired, job,
                   wire, providerVars, crashes>>
    /\ ToAttachments(w, "nothing")

Claim(w) ==
    /\ ClaimNewBatch(w) \/ \E b \in Batches : ClaimRetry(w, b)
    /\ IF job'[w].pc = "idle" THEN EndWithError(w) ELSE UNCHANGED round

\* The finalizer reports as claimed the messages that were in the batch when it
\* was claimed: none, if a retry claims a batch that has lost all of them.
Record(w) ==
    /\ Finalize(w)
    /\ IF FinalizerThrows(w)
         THEN EndWithError(w)
         ELSE ToAttachments(w, IF Sent(w) = {} THEN "hollow" ELSE "some")

BatchLane(w) ==
    /\ round[w].phase = "batch"
    /\ \/ ClaimNothing(w)
       \/ Claim(w)
       \/ (Send(w) \/ StopWaiting(w)) /\ UNCHANGED round
       \/ Record(w)
    /\ UNCHANGED parcel

\* drainAttachmentOutbox claims a message and settles it or leaves it for later,
\* or throws, with the message leased.
AttachmentLane(w) ==
    /\ round[w].phase = "attachments"
    /\ round[w].processed < Limit
    /\ \E a \in Due, outcome \in {"settled", "later"} :
          parcel' = [parcel EXCEPT ![a] = outcome]
    /\ \/ round' = [round EXCEPT ![w] = [@ EXCEPT !.claimed = "some",
                                                   !.processed = round[w].processed + 1]]
       \/ EndWithError(w)
    /\ UNCHANGED vars

LanesDone(w) ==
    /\ round[w].phase = "attachments"
    /\ Due = {} \/ round[w].processed = Limit \/ Workers # {w}

ClaimedNothing(w) == round[w].claimed # "some"

\* Mutant: the loop counts one round too many.
NoRoundLeft(w) == round[w].left = 0

LastRound(w) == round[w].left = 1

EndRound(w) ==
    /\ LanesDone(w)
    /\ round' = [round EXCEPT ![w] =
                    IF ClaimedNothing(w) \/ LastRound(w)
                      THEN NoTick
                      ELSE StartOf(round[w].left - 1)]
    /\ UNCHANGED <<vars, parcel>>

Work(w) == BatchLane(w) \/ AttachmentLane(w) \/ EndRound(w)

-----------------------------------------------------------------------------
(* Start and stop of the process (server.ts), and the rest of the system.  *)

\* A shutdown that lasts ten seconds, or a crash: what runs is lost.
Killed(w) ==
    /\ round[w].phase \in {"batch", "attachments"}
    /\ IF job[w].pc = "idle"
         THEN /\ crashes < MaxCrashes
              /\ crashes' = crashes + 1
              /\ UNCHANGED <<tableVars, batchVars, expired, job, wire, providerVars>>
         ELSE Crash(w)
    /\ round' = [round EXCEPT ![w] = Down]
    /\ UNCHANGED parcel

\* A shutdown stops the cron and waits for the tick that runs
\* (stopOutboxDrainScheduler), so that none is running when the process exits.
Shutdown(w) ==
    /\ round[w].phase = "idle"
    /\ crashes < MaxCrashes
    /\ crashes' = crashes + 1
    /\ round' = [round EXCEPT ![w].phase = "down"]
    /\ UNCHANGED <<tableVars, batchVars, expired, job, wire, providerVars, parcel>>

Restart(w) ==
    /\ round[w].phase = "down"
    /\ round' = [round EXCEPT ![w] = NoTick]
    /\ UNCHANGED <<vars, parcel>>

\* The drain route, in any process: one batch, then the attachment lane.
Request(w) ==
    \/ (Drain(w) \/ Crash(w)) /\ UNCHANGED <<round, parcel>>
    \/ /\ \E a \in Due, outcome \in {"settled", "later"} :
             parcel' = [parcel EXCEPT ![a] = outcome]
       /\ UNCHANGED <<vars, round>>

QueueParcel(a) ==
    /\ parcel[a] = "absent"
    /\ parcel' = [parcel EXCEPT ![a] = "due"]
    /\ UNCHANGED <<vars, round>>

\* Its retry delay is over, or the lease of a drain that threw.
ParcelComesDue(a) ==
    /\ parcel[a] = "later"
    /\ parcel' = [parcel EXCEPT ![a] = "due"]
    /\ UNCHANGED <<vars, round>>

Others ==
    /\ \/ \E m \in Msgs : Enqueue(m)
       \/ \E c \in Convs : DeleteConversation(c)
       \/ \E b \in Batches : Clock(b)
       \/ Provider
    /\ UNCHANGED <<round, parcel>>

DrainNext ==
    \/ \E w \in Scheduled : Tick(w) \/ Work(w) \/ Killed(w) \/ Shutdown(w) \/ Restart(w)
    \/ \E w \in Workers \ Scheduled : Request(w)
    \/ \E a \in Parcels : QueueParcel(a) \/ ParcelComesDue(a)
    \/ Others

DrainSpec == DrainInit /\ [][DrainNext]_drainVars

\* The cron keeps firing in the schedulers' processes, which are restarted; a
\* tick or a request that runs goes on, and the clock advances.  Nobody has to
\* call the route.  Rows a claim skips are locked by transactions that end, and
\* a drain is not outrun by the lease every time (see EmailOutbox!Fairness).
\* The attachment lane does not leave a message for later for ever: its window
\* ends the retries there too (AttachmentOutbox!QueuedSettles).
DrainFairness ==
    /\ \A w \in Scheduled :
          /\ WF_drainVars(Tick(w)) /\ WF_drainVars(Restart(w)) /\ WF_drainVars(Work(w))
          /\ SF_drainVars(BatchLane(w) /\ Claim(w)) /\ SF_drainVars(AttachmentLane(w))
          /\ SF_drainVars(BatchLane(w) /\ Owns(w) /\ Record(w))
    /\ \A w \in Workers \ Scheduled :
          WF_drainVars(job[w].pc # "idle" /\ Drain(w) /\ UNCHANGED <<round, parcel>>)
    /\ \A b \in Batches : /\ WF_drainVars(LeaseLapses(b) /\ UNCHANGED <<round, parcel>>)
                         /\ WF_drainVars(RetryComesDue(b) /\ UNCHANGED <<round, parcel>>)
                         /\ WF_drainVars(WindowExpires(b) /\ UNCHANGED <<round, parcel>>)
    /\ \A a \in Parcels : /\ WF_drainVars(ParcelComesDue(a))
                         /\ <>[](parcel[a] # "later")

FairDrainSpec == DrainSpec /\ DrainFairness

-----------------------------------------------------------------------------
(* Properties; QueuedSettles of EmailOutbox is checked under FairDrainSpec. *)

\* A queued message with attachments is attempted until it has an outcome: the
\* batch lane, which runs first, fails only so often.
ParcelsSettle == \A a \in Parcels : parcel[a] = "due" ~> parcel[a] = "settled"
=============================================================================
