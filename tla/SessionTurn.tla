---------------------------- MODULE SessionTurn ----------------------------
(***************************************************************************)
(* The way of an input through the gateway processes that share a session: *)
(* its admission, the ingress task of each claim, the turn a process runs  *)
(* for it, the committed terminal in the Runtime's outbox, and the worker  *)
(* that delivers it to the transcript.  Every write to the session is a    *)
(* transaction of SessionInbox.                                            *)
(*                                                                         *)
(* A process dies and comes back empty, a claim lapses while its task is   *)
(* still at work, a turn outlives the task that started it, a wait times   *)
(* out while what it waits for happens, and the stream of a process learns *)
(* late what a client has made of an input.                                *)
(*                                                                         *)
(* Source: crates/gateway/src/runtime/session_runtime_bridge.rs,           *)
(* runtime_service.rs, session_materializer.rs,                            *)
(* crates/gateway/src/services/session_service/mod.rs,                     *)
(* crates/runtime/src/session/session_input.rs,                            *)
(* crates/runtime-postgres/src/event_store.rs                              *)
(***************************************************************************)
EXTENDS SessionInbox, FiniteSetsExt

CONSTANTS
    Mishaps,       \* the faults and the commands of clients that may happen
    MaxMishaps,    \* bound: how many of them do
    MaxClaims      \* bound: claims of one row

ASSUME TurnAssumption ==
    /\ Mishaps \subseteq {"turn", "dead", "corrupt", "late", "timeout", "store", "stall", "crash",
                          "cancel", "retry", "reclassify", "redeliver", "advance", "close"}
    /\ MaxMishaps \in Nat /\ MaxClaims \in Nat

VARIABLES
    admission,     \* by input: how far admit_input has come, and where
    tasks,         \* the ingress tasks at work, one for each claim
    turn,          \* by process: the turn its session host executes
    loaded,        \* the processes that hold the session in memory
    stream,        \* by process: the input stream of the session in memory
    outbox,        \* by input: its terminal in the Runtime's outbox
    delivery,      \* by process: what its delivery worker has claimed
    client,        \* the cancel_input or reclassify_input under way
    mishaps        \* how many mishaps there were

local == <<tasks, turn, loaded, stream, outbox, delivery>>
vars == <<inbox, admission, local, client, mishaps>>

NotAdmitted  == [pc |-> "none", proc |-> Nobody, gen |-> 0, target |-> NoInput]
NoTurn       == [phase |-> "none", input |-> NoInput, epoch |-> 0, cursor |-> 0, heard |-> {}]
NoTerminal   == [status |-> "none", epoch |-> 0, cursor |-> 0, heard |-> {}, owner |-> Nobody,
                 live |-> FALSE]
NoDelivery   == [pc |-> "idle", input |-> NoInput, epoch |-> 0]
NoRecord     == [state |-> "none", target |-> NoInput]
EmptyStream  == [admitted |-> 0, rec |-> [i \in Inputs |-> NoRecord]]
NoCall       == [pc |-> "none", op |-> "cancel", input |-> NoInput, proc |-> Nobody,
                 target |-> NoInput, seen |-> NoRow]

Mishap(m) == m \in Mishaps /\ mishaps < MaxMishaps /\ mishaps' = mishaps + 1

Init ==
    /\ InboxInit
    /\ admission = [i \in Inputs |-> NotAdmitted]
    /\ tasks = {} /\ loaded = {}
    /\ turn = [p \in Workers |-> NoTurn]
    /\ stream = [p \in Workers |-> EmptyStream]
    /\ outbox = [i \in Inputs |-> NoTerminal]
    /\ delivery = [p \in Workers |-> NoDelivery]
    /\ client = NoCall /\ mishaps = 0

\* An input with a target supplements the turn of that.
DecisionFor(t) == IF t \in Inputs THEN "SupplementCurrentTurn" ELSE "StartNewTurn"

-----------------------------------------------------------------------------
(***************************************************************************)
(* The stream of a process.  A record is hot until a checkpoint reads it.  *)
(* One that was read, and was then told to wait or to move to another      *)
(* turn, is "seen": it is not read again, and no longer counts as consumed *)
(* when its row is claimed.                                                *)
(***************************************************************************)
\* What a receipt of the session makes of a record: one that is over leaves the
\* stream, and only its cursor is kept when it was applied.
Applied(rec, r) ==
    IF rec.state = "none" \/ r.status \in {"failed", "blocked", "cancelled", "expired"} THEN NoRecord
    ELSE [state |-> IF r.status \in {"completed", "supplemented"} THEN "read"
                    ELSE IF rec.state = "read" /\ r.status # "attached" THEN "seen" ELSE rec.state,
          target |-> r.target]

\* project_durable, for inputs with one receipt in the order of their rows: a new
\* one at or below the admitted cursor is not taken.
Projected(s, js, r) ==
    LET new == {j \in js : s.rec[j].state = "none" /\ row[j].seq > s.admitted} IN
    [admitted |-> Max({s.admitted} \cup {row[j].seq : j \in new}),
     rec |-> [j \in Inputs |-> IF j \in new THEN [state |-> "hot", target |-> r.target]
                               ELSE IF j \in js THEN Applied(s.rec[j], r) ELSE s.rec[j]]]

\* project_durable_receipt in process p; a stream that is not there has no record.
Notified(p, i, r) == [stream EXCEPT ![p].rec[i] = Applied(@, r)]

Receipt(s, t) == [status |-> s, target |-> t]

\* The admission is over.
Admitted(i) == [admission[i] EXCEPT !.pc = "done", !.proc = Nobody, !.gen = 0, !.target = NoInput]

\* The turn of i with a control installed by an ingress task of p.
TurnActive(p, i) == \E t \in tasks : t.proc = p /\ t.input = i /\ t.control

\* Records that the turn of i takes at its next checkpoint.
Consumable(p, i) == {j \in Inputs : stream[p].rec[j] = [state |-> "hot", target |-> i]}

\* The records with a checkpoint of the turn of i.
ReadBy(p, i) ==
    {j \in Inputs : stream[p].rec[j].state \in {"read", "seen"} /\ stream[p].rec[j].target = i}

\* session_input_checkpoint_consumed
CheckpointConsumed(p, i, t) == stream[p].rec[i] = [state |-> "read", target |-> t]

-----------------------------------------------------------------------------
(***************************************************************************)
(* Admission of an input: the classification reads the process, the append *)
(* and the attachment are transactions, the projection is in memory.       *)
(***************************************************************************)
Classify(p, i) ==
    /\ admission[i].pc = "none" /\ open
    /\ \E t \in Inputs \cup {NoInput} :
         /\ IF t \in Inputs THEN TurnActive(p, t) ELSE \A j \in Inputs : ~TurnActive(p, j)
         /\ admission' = [admission EXCEPT ![i] =
                            [pc |-> "append", proc |-> p, gen |-> generation, target |-> t]]
    /\ UNCHANGED <<inbox, local, client, mishaps>>

AdmitAppend(i) ==
    LET adm == admission[i] IN
    /\ adm.pc = "append"
    /\ IF open /\ adm.gen = generation
         THEN /\ AppendInput(i, adm.gen, DecisionFor(adm.target), adm.target)
              /\ admission' = [admission EXCEPT ![i] = [@ EXCEPT !.pc = "project"]]
         ELSE /\ admission' = [admission EXCEPT ![i] = Admitted(i)]
              /\ UNCHANGED inbox
    /\ UNCHANGED <<local, client, mishaps>>

AdmitProject(i) ==
    LET adm == admission[i] IN
    /\ adm.pc = "project"
    /\ stream' = IF adm.proc \in loaded
                 THEN [stream EXCEPT ![adm.proc] = Projected(@, {i}, Receipt("queued", adm.target))]
                 ELSE stream
    /\ admission' = [admission EXCEPT ![i] =
                       IF adm.proc \in loaded /\ adm.target \in Inputs
                       THEN [@ EXCEPT !.pc = "attach"] ELSE Admitted(i)]
    /\ UNCHANGED <<inbox, tasks, turn, loaded, outbox, delivery, client, mishaps>>

\* A refused attachment leaves the row to whoever changed it, and the stream is
\* told what became of it.
AdmitAttach(i) ==
    LET adm == admission[i] IN
    /\ adm.pc = "attach"
    /\ admission' = [admission EXCEPT ![i] = Admitted(i)]
    /\ IF Attachable(i) /\ row[i].status = "queued" /\ row[i].attempts = 0
         THEN AttachInput(i) ELSE UNCHANGED inbox
    /\ stream' = Notified(adm.proc, i, Receipt(row'[i].status, row'[i].target))
    /\ UNCHANGED <<tasks, turn, loaded, outbox, delivery, client, mishaps>>

-----------------------------------------------------------------------------
(***************************************************************************)
(* The ingress task of a claim                                             *)
(***************************************************************************)
Moved(t, pc)      == (tasks \ {t}) \cup {[t EXCEPT !.pc = pc]}
Failing(t, class) == (tasks \ {t}) \cup {[t EXCEPT !.pc = "failed", !.class = class]}
Ended(t)          == tasks \ {t}

Fenced(t, statuses) == Lease(t.input, t.epoch, statuses)

HostBusy(p) == turn[p].phase # "none"

\* A claim that would only find the host busy is not counted beyond the
\* attempts, where its number no longer matters.
ClaimWork(p, i) ==
    /\ row[i].attempts < (IF HostBusy(p) THEN MaxAttempts ELSE MaxClaims)
    /\ Claim(p, i)
    /\ tasks' = tasks \cup {[input |-> i, target |-> row[i].target, epoch |-> row[i].attempts + 1,
                             proc |-> p, pc |-> "claimed", control |-> FALSE, class |-> "Retryable"]}
    /\ UNCHANGED <<admission, client, turn, loaded, stream, outbox, delivery, mishaps>>

\* The content of the input cannot be read.
TaskCorrupt(t) ==
    /\ t.pc = "claimed" /\ "corrupt" \in Mishaps
    /\ tasks' = Failing(t, "Blocked")
    /\ UNCHANGED <<inbox, admission, client, turn, loaded, stream, outbox, delivery, mishaps>>

Stale(t) == /\ t.target \in Inputs /\ ~CheckpointConsumed(t.proc, t.input, t.target)
            /\ ~TurnActive(t.proc, t.target)

\* An input for a turn that is not at work here goes back, as a turn of its own
\* when its target is over.
TaskReroute(t) ==
    /\ t.pc = "claimed" /\ Stale(t)
    /\ IF Fenced(t, {"claimed"})
         THEN IF TurnIsTerminal(t.target)
                THEN Requeue(t.input, t.epoch, "StartNewTurn", NoInput)
                ELSE Requeue(t.input, t.epoch, DecisionFor(t.target), t.target)
         ELSE UNCHANGED inbox
    /\ tasks' = Ended(t)
    /\ UNCHANGED <<admission, client, turn, loaded, stream, outbox, delivery, mishaps>>

\* The claim enters the running state, or was lost before.
TaskStart(t) ==
    /\ t.pc = "claimed" /\ ~Stale(t)
    /\ IF Fenced(t, {"claimed"})
         THEN /\ MarkRunning(t.input, t.epoch)
              /\ tasks' = Moved(t, IF t.target \in Inputs THEN "attach" ELSE "execute")
         ELSE UNCHANGED inbox /\ tasks' = Ended(t)
    /\ UNCHANGED <<admission, client, turn, loaded, stream, outbox, delivery, mishaps>>

\* The input is handed to the turn it supplements; when that is over by then, it
\* becomes a turn of its own.
TaskAttach(t) ==
    /\ t.pc = "attach"
    /\ stream' = [stream EXCEPT ![t.proc] =
                     Projected(@, {t.input}, Receipt("attached", t.target))]
    /\ IF Acknowledgeable(t.input, t.epoch, "attached")
         THEN Acknowledge(t.input, t.epoch, "attached")
         ELSE IF Fenced(t, {"running"}) /\ TurnIsTerminal(t.target)
         THEN Requeue(t.input, t.epoch, "StartNewTurn", NoInput)
         ELSE UNCHANGED inbox
    /\ tasks' = Ended(t)
    /\ UNCHANGED <<admission, client, turn, loaded, outbox, delivery, mishaps>>

\* Inputs that a restarted process takes from the rows attached to the turn.
AttachedTo(i) == {j \in Inputs : row[j].status = "attached" /\ row[j].target = i
                                   /\ row[j].gen = row[i].gen}

\* execute_ingress_record: a terminal that exists is adopted, a graph that is
\* over without one is an error, another turn of the session is in the way, or
\* the host of the session is taken for this one.
TaskExecute(t) ==
    /\ t.pc = "execute"
    /\ loaded' = loaded \cup {t.proc}
    /\ stream' = [stream EXCEPT ![t.proc] =
                     Projected(@, AttachedTo(t.input), Receipt("attached", t.input))]
    /\ \/ /\ outbox[t.input].status \notin {"none", "dead"}
          /\ tasks' = Moved(t, "adopt")
          /\ UNCHANGED <<inbox, turn>>
       \/ /\ outbox[t.input].status = "dead"
          /\ tasks' = Failing(t, "Permanent")
          /\ UNCHANGED <<inbox, turn>>
       \/ /\ outbox[t.input].status = "none" /\ TurnActive(t.proc, t.input)
          /\ tasks' = Failing(t, "Retryable")
          /\ UNCHANGED <<inbox, turn>>
       \/ /\ outbox[t.input].status = "none" /\ ~TurnActive(t.proc, t.input) /\ HostBusy(t.proc)
          /\ IF Fenced(t, Holding)
               THEN Requeue(t.input, t.epoch, DecisionFor(t.target), t.target)
               ELSE UNCHANGED inbox
          /\ tasks' = Ended(t) /\ UNCHANGED turn
       \/ /\ outbox[t.input].status = "none" /\ ~TurnActive(t.proc, t.input) /\ ~HostBusy(t.proc)
          /\ turn' = [turn EXCEPT ![t.proc] = [NoTurn EXCEPT !.phase = "run", !.input = t.input,
                                                             !.epoch = t.epoch]]
          /\ tasks' = (tasks \ {t}) \cup {[t EXCEPT !.pc = "turn", !.control = TRUE]}
          /\ UNCHANGED inbox
    /\ UNCHANGED <<admission, client, outbox, delivery, mishaps>>

-----------------------------------------------------------------------------
(***************************************************************************)
(* The turn.  It runs on its own: a task that is gone does not stop it.    *)
(***************************************************************************)
TaskOf(p) == {t \in tasks : t.proc = p /\ t.input = turn[p].input /\ t.epoch = turn[p].epoch
                              /\ t.pc = "turn"}

\* consume_for_checkpoint
Consumed(s, js) ==
    [s EXCEPT !.rec = [j \in Inputs |-> IF j \in js THEN [state |-> "read", target |-> s.rec[j].target]
                                       ELSE s.rec[j]]]

TurnCheckpoint(p) ==
    LET new == Consumable(p, turn[p].input) IN
    /\ turn[p].phase = "run" /\ new # {}
    /\ stream' = [stream EXCEPT ![p] = Consumed(@, new)]
    /\ UNCHANGED <<inbox, admission, client, tasks, turn, loaded, outbox, delivery, mishaps>>

\* Nothing is left to read: the answer is final, under the claim that is still
\* held and with the cursor of what was read.
TurnSeal(p) ==
    LET i == turn[p].input IN
    /\ turn[p].phase = "run" /\ Consumable(p, i) = {}
    /\ Lease(i, turn[p].epoch, Holding)
    /\ turn' = [turn EXCEPT ![p] = [@ EXCEPT !.phase = "sealed", !.heard = ReadBy(p, i),
                                             !.cursor = Max({row[i].seq} \cup {row[j].seq : j \in ReadBy(p, i)})]]
    /\ UNCHANGED <<inbox, admission, client, tasks, loaded, stream, outbox, delivery, mishaps>>

TurnOver(p, pc) ==
    /\ turn' = [turn EXCEPT ![p] = NoTurn]
    /\ tasks' = (tasks \ TaskOf(p)) \cup {[t EXCEPT !.pc = pc] : t \in TaskOf(p)}

\* The graph and its terminal are one commit, and the first one stands.
TurnCommit(p) ==
    /\ turn[p].phase = "sealed" /\ outbox[turn[p].input].status = "none"
    /\ outbox' = [outbox EXCEPT ![turn[p].input] =
                    [NoTerminal EXCEPT !.status = "pending", !.epoch = turn[p].epoch,
                                       !.cursor = turn[p].cursor, !.heard = turn[p].heard]]
    /\ TurnOver(p, "await")
    /\ UNCHANGED <<inbox, admission, client, loaded, stream, delivery, mishaps>>

\* A turn that is cancelled, that lost its claim, or that another process has
\* overtaken ends without a terminal of its own; one that fails may leave a
\* graph that is over.
TurnFail(p) ==
    LET i == turn[p].input IN
    /\ turn[p].phase # "none"
    /\ \/ /\ TaskOf(p) = {} \/ ~Lease(i, turn[p].epoch, Holding) \/ outbox[i].status # "none"
          /\ UNCHANGED <<outbox, mishaps>>
       \/ Mishap("turn") /\ UNCHANGED outbox
       \/ /\ Mishap("dead") /\ outbox[i].status = "none"
          /\ outbox' = [outbox EXCEPT ![i].status = "dead"]
    /\ TurnOver(p, IF outbox'[i].status \in {"none", "dead"} THEN "failed" ELSE "adopt")
    /\ UNCHANGED <<inbox, admission, client, loaded, stream, delivery>>

-----------------------------------------------------------------------------
(***************************************************************************)
(* The task after its turn                                                 *)
(***************************************************************************)
\* The deadline of the claim that the task remembers has passed.
Lapsed(t) ==
    \/ row[t.input].attempts > t.epoch
    \/ row[t.input].status \in Holding /\ ~row[t.input].live

\* Variant: whoever holds a claim takes over the terminal.
AdoptableByAnyone(t) ==
    /\ outbox[t.input].status \in {"pending", "blocked", "claimed"}
    /\ t.epoch # outbox[t.input].epoch
    /\ outbox[t.input].status = "claimed" => ~outbox[t.input].live

Adoptable(t) ==
    /\ outbox[t.input].status \in {"pending", "blocked", "claimed"}
    /\ t.epoch > outbox[t.input].epoch /\ ~Lapsed(t)
    /\ outbox[t.input].status = "claimed" => ~outbox[t.input].live

\* A terminal left by an earlier claim is put under this one.
TaskAdopt(t) ==
    /\ t.pc = "adopt"
    /\ \/ /\ outbox[t.input].status = "materialized" \/ outbox[t.input].epoch = t.epoch
          /\ UNCHANGED outbox
       \/ /\ Adoptable(t)
          /\ outbox' = [outbox EXCEPT ![t.input] =
                          [@ EXCEPT !.status = "pending", !.epoch = t.epoch, !.owner = Nobody, !.live = FALSE]]
    /\ tasks' = Moved(t, "await")
    /\ UNCHANGED <<inbox, admission, client, turn, loaded, stream, delivery, mishaps>>

\* Variant: the task takes a terminal that is not delivered yet for success.
SettleEarly(t) ==
    /\ t.pc = "await"
    /\ outbox[t.input].status \in {"materialized", "pending"}
    /\ IF row[t.input].status # "completed" /\ Fenced(t, {"running"})
         THEN Acknowledge(t.input, t.epoch, "completed") ELSE UNCHANGED inbox
    /\ tasks' = Ended(t)
    /\ UNCHANGED <<admission, client, turn, loaded, stream, outbox, delivery, mishaps>>

\* The terminal is materialized: the row is completed, or acknowledged now.
TaskSettle(t) ==
    /\ t.pc = "await"
    /\ outbox[t.input].status = "materialized"
    /\ IF row[t.input].status # "completed" /\ Fenced(t, {"running"})
         THEN Acknowledge(t.input, t.epoch, "completed") ELSE UNCHANGED inbox
    /\ tasks' = Ended(t)
    /\ UNCHANGED <<admission, client, turn, loaded, stream, outbox, delivery, mishaps>>

\* The delivery is blocked, or half a minute has passed.
TaskGiveUp(t) ==
    /\ \/ t.pc = "await" /\ outbox[t.input].status = "blocked" /\ UNCHANGED mishaps
       \/ t.pc \in {"adopt", "await"} /\ Mishap("timeout")
    /\ tasks' = Failing(t, "Retryable")
    /\ UNCHANGED <<inbox, admission, client, turn, loaded, stream, outbox, delivery>>

\* The Runtime refuses the claim: it has lapsed, or the terminal belongs to a
\* later one, or the deadline is over that the task was given, which is compared
\* although the claim was renewed since.  The error counts as permanent.
TaskRefused(t) ==
    /\ t.pc = "adopt" /\ t.epoch # outbox[t.input].epoch
    /\ IF Lapsed(t) \/ t.epoch < outbox[t.input].epoch THEN UNCHANGED mishaps ELSE Mishap("late")
    /\ tasks' = Failing(t, "Permanent")
    /\ UNCHANGED <<inbox, admission, client, turn, loaded, stream, outbox, delivery>>

\* The failure is written under the claim; a final one is followed by the
\* inputs that had been attached to the turn.
TaskFail(t) ==
    /\ t.pc = "failed"
    /\ IF Fenced(t, Holding)
         THEN /\ Fail(t.input, t.epoch, t.class)
              /\ tasks' = IF FailureStatus(t.input, t.class) = "failed"
                          THEN Moved(t, "roll") ELSE Ended(t)
         ELSE UNCHANGED inbox /\ tasks' = Ended(t)
    /\ UNCHANGED <<admission, client, turn, loaded, stream, outbox, delivery, mishaps>>

Unapplied(i) ==
    {j \in Inputs : row[j].target = i /\ row[j].gen = row[i].gen
                      /\ row[j].decision = "SupplementCurrentTurn"
                      /\ row[j].status \in Waiting \cup {"attached"} /\ Reclassifiable(j)}

TaskRollForward(t) ==
    /\ t.pc = "roll"
    /\ \/ \E j \in Unapplied(t.input) :
            /\ ReclassifyInput(j, "StartNewTurn", NoInput)
            /\ stream' = Notified(t.proc, j, Receipt("reclassified", NoInput))
            /\ UNCHANGED tasks
       \/ Unapplied(t.input) = {} /\ tasks' = Ended(t) /\ UNCHANGED <<inbox, stream>>
    /\ UNCHANGED <<admission, client, turn, loaded, outbox, delivery, mishaps>>

\* A renewal is refused: the task lets go of the turn and writes nothing.
TaskLeaseLost(t) ==
    /\ t.pc \in {"execute", "turn", "adopt", "await"} /\ ~Fenced(t, Holding)
    /\ tasks' = Ended(t)
    /\ UNCHANGED <<inbox, admission, client, turn, loaded, stream, outbox, delivery, mishaps>>

-----------------------------------------------------------------------------
(***************************************************************************)
(* Delivery of terminals to the transcript                                 *)
(***************************************************************************)
\* Variant: a terminal in delivery is left to whoever claimed it.
DeliveryClaimFresh(p, i) ==
    /\ delivery[p].pc = "idle" /\ outbox[i].status = "pending"
    /\ outbox' = [outbox EXCEPT ![i] = [@ EXCEPT !.status = "claimed", !.owner = p, !.live = TRUE]]
    /\ delivery' = [delivery EXCEPT ![p] = [pc |-> "deliver", input |-> i, epoch |-> outbox[i].epoch]]
    /\ UNCHANGED <<inbox, admission, client, tasks, turn, loaded, stream, mishaps>>

DeliveryClaim(p, i) ==
    /\ delivery[p].pc = "idle"
    /\ outbox[i].status = "pending" \/ (outbox[i].status = "claimed" /\ ~outbox[i].live)
    /\ outbox' = [outbox EXCEPT ![i] = [@ EXCEPT !.status = "claimed", !.owner = p, !.live = TRUE]]
    /\ delivery' = [delivery EXCEPT ![p] = [pc |-> "deliver", input |-> i, epoch |-> outbox[i].epoch]]
    /\ UNCHANGED <<inbox, admission, client, tasks, turn, loaded, stream, mishaps>>

\* transition_session_terminal: only the claim the worker was given is settled.
Settled(p, s) ==
    LET i == delivery[p].input IN
    IF outbox[i].status = "claimed" /\ outbox[i].owner = p
      THEN [outbox EXCEPT ![i] = [@ EXCEPT !.status = s, !.owner = Nobody, !.live = FALSE]]
      ELSE outbox

\* The transcript is written, or found written by an earlier delivery.
DeliveryCommit(p) ==
    LET d == delivery[p] IN
    /\ d.pc = "deliver"
    /\ IF Replayed(d.input, d.epoch) THEN UNCHANGED inbox
                                     ELSE CommitTranscript(d.input, d.epoch, outbox[d.input].cursor)
    /\ delivery' = [delivery EXCEPT ![p].pc = "acknowledge"]
    /\ UNCHANGED <<admission, client, tasks, turn, loaded, stream, outbox, mishaps>>

\* The session refuses the fence or the cursor: the terminal is blocked.
DeliveryRefused(p) ==
    LET d == delivery[p] IN
    /\ d.pc = "deliver"
    /\ ~Replayed(d.input, d.epoch) /\ ~Committable(d.input, d.epoch, outbox[d.input].cursor)
    /\ outbox' = Settled(p, "blocked")
    /\ delivery' = [delivery EXCEPT ![p] = NoDelivery]
    /\ UNCHANGED <<inbox, admission, client, tasks, turn, loaded, stream, mishaps>>

\* A store does not answer, before or after the transcript was written.
DeliveryRetry(p) ==
    /\ delivery[p].pc \in {"deliver", "acknowledge"} /\ Mishap("store")
    /\ outbox' = Settled(p, "pending")
    /\ delivery' = [delivery EXCEPT ![p] = NoDelivery]
    /\ UNCHANGED <<inbox, admission, client, tasks, turn, loaded, stream>>

\* Variant: the terminal is acknowledged before the transcript is written.
AcknowledgeFirst(p) ==
    /\ delivery[p].pc = "deliver"
    /\ outbox' = Settled(p, "materialized")
    /\ delivery' = [delivery EXCEPT ![p] = NoDelivery]
    /\ UNCHANGED <<inbox, admission, client, tasks, turn, loaded, stream, mishaps>>

DeliveryAcknowledge(p) ==
    /\ delivery[p].pc = "acknowledge"
    /\ outbox' = Settled(p, "materialized")
    /\ delivery' = [delivery EXCEPT ![p] = NoDelivery]
    /\ UNCHANGED <<inbox, admission, client, tasks, turn, loaded, stream, mishaps>>

-----------------------------------------------------------------------------
(***************************************************************************)
(* Clients, the clock, and the death of a process                          *)
(***************************************************************************)
\* A client's call writes a row that has not changed since the call has read it,
\* so that only the target of a reclassification may be out of date: the turn
\* that was active in the process of the call.
ClientCall(p, i, op) ==
    /\ client.pc = "none" /\ Mishap(op)
    /\ \/ /\ \/ op = "cancel" /\ CancelInput(i)
             \/ op = "reclassify" /\ ReclassifyInput(i, "StartNewTurn", NoInput)
          /\ client' = [NoCall EXCEPT !.pc = "project", !.op = op, !.input = i, !.proc = p]
       \/ /\ op = "reclassify" /\ Reclassifiable(i)
          /\ \E t \in Inputs :
               /\ TurnActive(p, t)
               /\ client' = [pc |-> "write", op |-> op, input |-> i, proc |-> p, target |-> t,
                             seen |-> row[i]]
          /\ UNCHANGED inbox
    /\ UNCHANGED <<admission, local>>

ClientWrite ==
    LET i == client.input IN
    /\ client.pc = "write"
    /\ IF row[i] = client.seen /\ Reclassifiable(i)
         THEN /\ ReclassifyInput(i, "SupplementCurrentTurn", client.target)
              /\ client' = [client EXCEPT !.pc = "project", !.seen = NoRow]
         ELSE client' = NoCall /\ UNCHANGED inbox
    /\ UNCHANGED <<admission, local, mishaps>>

\* The stream of the process is told what was written.
ClientProject ==
    /\ client.pc = "project"
    /\ stream' = Notified(client.proc, client.input,
                    Receipt(IF client.op = "cancel" THEN "cancelled" ELSE "reclassified", client.target))
    /\ client' = NoCall
    /\ UNCHANGED <<inbox, admission, tasks, turn, loaded, outbox, delivery, mishaps>>

\* The history of the session is replaced, or the session ends.
GenerationEnds ==
    /\ \/ Mishap("advance") /\ AdvanceGeneration(TRUE)
       \/ Mishap("close") /\ AdvanceGeneration(FALSE)
    /\ UNCHANGED <<admission, client, local>>

\* An operator deals with what is blocked: a row, or a terminal.
OperatorRetry(i) ==
    /\ \/ Mishap("retry") /\ RetryBlocked(i) /\ UNCHANGED outbox
       \/ /\ Mishap("redeliver") /\ outbox[i].status = "blocked"
          /\ outbox' = [outbox EXCEPT ![i].status = "pending"]
          /\ UNCHANGED inbox
    /\ UNCHANGED <<admission, client, tasks, turn, loaded, stream, delivery>>

\* A claim that its task no longer keeps up lapses in any case; one that is
\* kept lapses when the renewals stall.
Abandoned(i) == \A t \in tasks : t.input = i => t.epoch # row[i].attempts

ClaimLapses(i) ==
    /\ Expire(i)
    /\ IF Abandoned(i) THEN UNCHANGED mishaps ELSE Mishap("stall")
    /\ UNCHANGED <<admission, client, local>>

Undelivered(i) == \A p \in Workers : delivery[p].input # i

DeliveryLapses(i) ==
    /\ outbox[i].status = "claimed" /\ outbox[i].live
    /\ IF Undelivered(i) THEN UNCHANGED mishaps ELSE Mishap("stall")
    /\ outbox' = [outbox EXCEPT ![i].live = FALSE]
    /\ UNCHANGED <<inbox, admission, client, tasks, turn, loaded, stream, delivery>>

Crash(p) ==
    /\ Mishap("crash")
    /\ tasks' = {t \in tasks : t.proc # p}
    /\ turn' = [turn EXCEPT ![p] = NoTurn]
    /\ loaded' = loaded \ {p}
    /\ stream' = [stream EXCEPT ![p] = EmptyStream]
    /\ delivery' = [delivery EXCEPT ![p] = NoDelivery]
    /\ admission' = [i \in Inputs |->
                       IF admission[i].proc = p THEN Admitted(i) ELSE admission[i]]
    /\ client' = IF client.proc = p THEN NoCall ELSE client
    /\ UNCHANGED <<inbox, outbox>>

-----------------------------------------------------------------------------
AdmissionStep(i) == AdmitAppend(i) \/ AdmitProject(i) \/ AdmitAttach(i)

TaskStep(t) ==
    \/ TaskCorrupt(t) \/ TaskReroute(t) \/ TaskStart(t) \/ TaskAttach(t) \/ TaskExecute(t)
    \/ TaskAdopt(t) \/ TaskSettle(t) \/ TaskGiveUp(t) \/ TaskRefused(t) \/ TaskFail(t)
    \/ TaskRollForward(t) \/ TaskLeaseLost(t)

TurnStep(p) == TurnCheckpoint(p) \/ TurnSeal(p) \/ TurnCommit(p) \/ TurnFail(p)

DeliveryStep(p) ==
    \/ \E i \in Inputs : DeliveryClaim(p, i)
    \/ DeliveryCommit(p) \/ DeliveryRefused(p) \/ DeliveryRetry(p) \/ DeliveryAcknowledge(p)

Next ==
    \/ \E i \in Inputs :
         \/ AdmissionStep(i) \/ ClaimLapses(i) \/ DeliveryLapses(i) \/ OperatorRetry(i)
         \/ \E p \in Workers :
              \/ Classify(p, i) \/ ClaimWork(p, i)
              \/ \E op \in {"cancel", "reclassify"} : ClientCall(p, i, op)
    \/ \E t \in tasks : TaskStep(t)
    \/ \E p \in Workers : TurnStep(p) \/ DeliveryStep(p) \/ Crash(p)
    \/ ClientWrite \/ ClientProject \/ GenerationEnds

Spec == Init /\ [][Next]_vars

(***************************************************************************)
(* Every loop of a process goes on as long as it lives: tokio polls every  *)
(* task, the workers poll their stores, and a deadline that nobody renews  *)
(* passes.  There are finitely many mishaps, and none of them has to be.   *)
(***************************************************************************)
\* The tasks of the present claims on js in process p, or of earlier ones.
TaskRuns(p, js, present) ==
    \E t \in tasks : /\ t.proc = p /\ t.input \in js /\ (t.epoch = row[t.input].attempts) = present
                     /\ TaskStep(t)

DeliveryRuns(p) ==
    \/ \E i \in Inputs : DeliveryClaim(p, i)
    \/ DeliveryCommit(p) \/ DeliveryRefused(p) \/ DeliveryAcknowledge(p)

DeadlinePasses ==
    \E i \in Inputs : (Abandoned(i) /\ ClaimLapses(i)) \/ (Undelivered(i) /\ DeliveryLapses(i))

Fairness ==
    /\ WF_vars(\E i \in Inputs : AdmissionStep(i))
    /\ WF_vars(DeadlinePasses)
    /\ \A p \in Workers :
          /\ WF_vars(\E i \in Inputs : ClaimWork(p, i))
          /\ \A i \in Inputs : WF_vars(TaskRuns(p, {i}, TRUE))
          /\ WF_vars(TaskRuns(p, Inputs, FALSE))
          /\ WF_vars(TurnStep(p))
          /\ WF_vars(DeliveryRuns(p))

FairSpec == Spec /\ Fairness

-----------------------------------------------------------------------------
(***************************************************************************)
(* Properties                                                              *)
(***************************************************************************)
Admissions == [pc : {"none", "append", "project", "attach", "done"}, proc : Workers \cup {Nobody},
               gen : Nat, target : Inputs \cup {NoInput}]
Tasks      == [input : Inputs, target : Inputs \cup {NoInput}, epoch : Nat, proc : Workers,
               pc : {"claimed", "attach", "execute", "turn", "adopt", "await", "failed", "roll"},
               control : BOOLEAN, class : Classes]
Turns      == [phase : {"run", "sealed"}, input : Inputs, epoch : Nat, cursor : Nat,
               heard : SUBSET Inputs]
Terminals  == [status : {"none", "pending", "claimed", "materialized", "blocked", "dead"},
               epoch : Nat, cursor : Nat, heard : SUBSET Inputs,
               owner : Workers \cup {Nobody}, live : BOOLEAN]
Deliveries == [pc : {"deliver", "acknowledge"}, input : Inputs, epoch : Nat]
Records    == [state : {"hot", "read", "seen"}, target : Inputs \cup {NoInput}]
Streams    == [admitted : Nat, rec : [Inputs -> Records \cup {NoRecord}]]
Calls      == [pc : {"write", "project"}, op : {"cancel", "reclassify"}, input : Inputs,
               proc : Workers, target : Inputs \cup {NoInput}, seen : Rows]

\* Every variable has its shape; what is at work is at work on an input.
TypeOK ==
    /\ InboxTypeOK
    /\ admission \in [Inputs -> Admissions] /\ outbox \in [Inputs -> Terminals]
    /\ tasks \subseteq Tasks /\ loaded \subseteq Workers
    /\ turn \in [Workers -> Turns \cup {NoTurn}]
    /\ delivery \in [Workers -> Deliveries \cup {NoDelivery}]
    /\ stream \in [Workers -> Streams] /\ client \in Calls \cup {NoCall}
    /\ mishaps \in 0..MaxMishaps

\* A row is completed if and only if its answer is in the transcript, which has
\* it once: the task that waits for the delivery, the delivery that repeats a
\* commit, and a task of a later claim never report an answer that the session
\* does not hold, nor enter it again.
AnswerIsCompletion ==
    /\ \A i \in Inputs : row[i].status = "completed" <=> Answered(i)
    /\ \A k, l \in 1..Len(transcript) : transcript[k] = transcript[l] => k = l

\* A terminal that counts as materialized is in the transcript, entered under
\* the claim the terminal belongs to: not when the delivery's claim lapsed and
\* another process took it, nor when an adoption moved it to a later claim
\* while a delivery was under way.
MaterializedIsHeld ==
    \A i \in Inputs : outbox[i].status = "materialized" =>
        row[i].status = "completed" /\ row[i].attempts = outbox[i].epoch

\* A terminal only ever moves to a later claim, and its answer stands: a task of
\* an old claim that wakes up late does not take it back.
AdoptionNeverRegresses ==
    [][\A i \in Inputs : outbox[i].status \notin {"none", "dead"} =>
          /\ outbox'[i].epoch >= outbox[i].epoch
          /\ outbox'[i].heard = outbox[i].heard
          /\ outbox[i].status = "materialized" => outbox'[i] = outbox[i]]_vars

\* An answer leaves no later input attached to its turn: one that arrives while
\* the turn is being answered is applied, or refuses the answer, or is not
\* attached.  An input that had come before the turn's own, and that a client has
\* made a supplement of it since, is not looked for by the commit and stays.
NoneLeftAttached ==
    \A i, j \in Inputs :
        /\ row[i].status = "completed" /\ row[j].target = i /\ row[j].gen = row[i].gen
        /\ row[j].seq > row[i].seq
        => row[j].status # "attached"

\* The answer settles what its turn has read: an input of its generation that the
\* turn took as a supplement, wherever its own claim has come by then, ends in
\* the step that enters the answer and gets no turn of its own.  The exceptions
\* are a row that was blocked after the turn had read it, which is left to the
\* operator, and one that had come before the turn's own and was made a
\* supplement of it by a client, which the commit does not look for.
HeardIsSettled ==
    [][\A i, j \in Inputs :
          /\ row[i].status # "completed" /\ row'[i].status = "completed"
          /\ j \in outbox[i].heard /\ row[j].gen = row[i].gen /\ row[j].seq > row[i].seq
          /\ row[j].decision = "SupplementCurrentTurn" /\ row[j].status # "blocked"
          => row'[j].status \in Terminal]_vars

\* An input that waits or is in work comes to its end, to a client, or to the
\* turn it is attached to, whatever process dies under it.
InputsAreServed ==
    \A i \in Inputs : (row[i].status \in Waiting \cup Holding)
                          ~> (row[i].status \notin Waiting \cup Holding)

\* A terminal does not stay with the delivery: it is materialized, or blocked
\* for the ingress task to see.
TerminalsAreDelivered ==
    \A i \in Inputs : (outbox[i].status \in {"pending", "claimed"})
                          ~> (outbox[i].status \in {"materialized", "blocked"})

\* What the transcript holds is known to the Runtime in the end, also when the
\* delivery dies between the commit and its acknowledgement.
HeldIsMaterialized ==
    \A i \in Inputs : (row[i].status = "completed") ~> (outbox[i].status = "materialized")

\* "A terminal commit may have won the same revision race and already proved
\* application": an input that counts as applied to a turn was read by it.
SupplementedWasRead ==
    \A i, j \in Inputs :
        row[i].status = "completed" /\ row[j].status = "supplemented" /\ row[j].target = i =>
            j \in outbox[i].heard
=============================================================================
