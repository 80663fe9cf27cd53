---------------------------- MODULE SessionInbox ----------------------------
(***************************************************************************)
(* The durable inbox of one session: the rows of session_runtime_outbox,   *)
(* the admission record of the session and the transcript, and every       *)
(* transaction that changes them.  A worker claims the first row, fences   *)
(* its later writes with the claim it was given, and an answer enters the  *)
(* transcript in the transaction that completes its row.                   *)
(*                                                                         *)
(* Time is the action Expire: a claim is live until it takes place, and a  *)
(* renewal is a step in which it does not.  Every claim adds one to the    *)
(* attempts of its row and nothing takes it back, so the number of         *)
(* attempts stands for the claim's token and for its fence epoch.  A claim *)
(* is one step: no other transaction commits between its snapshot and the  *)
(* lock of the row it takes.  SessionOverlap is the inbox without that.    *)
(*                                                                         *)
(* Source: crates/session-postgres/src/ingress.rs, terminal.rs, lib.rs     *)
(***************************************************************************)
EXTENDS Integers, Sequences, FiniteSets

CONSTANTS
    Inputs,        \* the inputs clients may send; each has a turn of its own
    NoInput,       \* the target of an input that starts a turn
    Workers,       \* the worker processes
    Nobody,        \* the owner of a row without a claim
    MaxAttempts    \* MAX_ATTEMPTS: claims after which a failure is final

ASSUME InboxAssumption ==
    /\ IsFiniteSet(Inputs) /\ NoInput \notin Inputs /\ Nobody \notin Workers
    /\ MaxAttempts \in Nat \ {0}

VARIABLES
    generation,    \* session_records.input_generation
    open,          \* session_records.input_admission_open
    row,           \* the rows by input
    transcript     \* the inputs whose answers the session holds

inbox == <<generation, open, row, transcript>>

Terminal   == {"completed", "supplemented", "failed", "cancelled", "expired"}
Waiting    == {"queued", "reclassified"}
Holding    == {"claimed", "running"}
Statuses   == {"absent", "attached", "blocked"} \cup Waiting \cup Holding \cup Terminal
Decisions  == {"StartNewTurn", "SupplementCurrentTurn"}
Classes    == {"Retryable", "Permanent", "Blocked"}

NoRow == [status |-> "absent", seq |-> 0, gen |-> 0, decision |-> "StartNewTurn",
          target |-> NoInput, attempts |-> 0, owner |-> Nobody, live |-> FALSE]

InboxInit ==
    /\ generation = 1 /\ open = TRUE
    /\ row = [i \in Inputs |-> NoRow]
    /\ transcript = <<>>

\* A row that leaves its claim for another status.
Unclaimed(r, s) == [r EXCEPT !.status = s, !.owner = Nobody, !.live = FALSE]

Admits(i) == open /\ row[i].gen = generation

TurnIsTerminal(i) == i \in Inputs /\ row[i].gen = generation /\ row[i].status \in Terminal

\* assert_runtime_lease for the claim e of row i.
Lease(i, e, statuses) ==
    /\ row[i].status \in statuses /\ Admits(i)
    /\ row[i].attempts = e /\ row[i].live

-----------------------------------------------------------------------------
(***************************************************************************)
(* Clients                                                                 *)
(***************************************************************************)
NextSeq == 1 + Cardinality({i \in Inputs : row[i].status # "absent"})

AppendInput(i, g, d, t) ==
    /\ open /\ g = generation /\ row[i].status = "absent"
    /\ row' = [row EXCEPT ![i] = [status |-> "queued", seq |-> NextSeq, gen |-> g, decision |-> d,
                                  target |-> t, attempts |-> 0, owner |-> Nobody, live |-> FALSE]]
    /\ UNCHANGED <<generation, open, transcript>>

\* Variant: an input is attached to a turn that may be over.
AttachableLate(i) ==
    Admits(i) /\ row[i].status \in Waiting /\ row[i].decision = "SupplementCurrentTurn"

Attachable(i) ==
    /\ Admits(i) /\ row[i].status \in Waiting
    /\ row[i].decision = "SupplementCurrentTurn"
    /\ ~TurnIsTerminal(row[i].target)

AttachInput(i) ==
    /\ Attachable(i)
    /\ row' = [row EXCEPT ![i] = Unclaimed(@, "attached")]
    /\ UNCHANGED <<generation, open, transcript>>

RetryBlocked(i) ==
    /\ Admits(i) /\ row[i].status = "blocked"
    /\ row' = [row EXCEPT ![i] = Unclaimed(@, "queued")]
    /\ UNCHANGED <<generation, open, transcript>>

CancelInput(i) ==
    /\ row[i].status \notin Terminal \cup {"absent"}
    /\ row' = [row EXCEPT ![i] = Unclaimed(@, "cancelled")]
    /\ UNCHANGED <<generation, open, transcript>>

Reclassifiable(i) == Admits(i) /\ row[i].status \in Waiting \cup {"attached", "blocked"}

\* The input is to start a turn of its own, or to supplement the turn t,
\* whichever of the two has come first.
ReclassifyInput(i, d, t) ==
    /\ Reclassifiable(i) /\ (d = "SupplementCurrentTurn" => t \in Inputs)
    /\ row' = [row EXCEPT ![i] = [Unclaimed(@, "reclassified") EXCEPT !.decision = d, !.target = t]]
    /\ UNCHANGED <<generation, open, transcript>>

AdvanceGeneration(o) ==
    /\ generation' = generation + 1 /\ open' = o
    /\ row' = [i \in Inputs |-> IF row[i].gen = generation
                                   /\ row[i].status \in Waiting \cup Holding \cup {"blocked"}
                                THEN Unclaimed(row[i], "expired") ELSE row[i]]
    /\ UNCHANGED transcript

-----------------------------------------------------------------------------
(***************************************************************************)
(* Workers                                                                 *)
(***************************************************************************)
Ranked(i) == Admits(i) /\ row[i].status \in Waiting \cup Holding

\* Variant: a row in work is left to whoever claimed it.
ClaimableFresh(i) ==
    /\ Ranked(i) /\ row[i].status \in Waiting
    /\ \A j \in Inputs : Ranked(j) => row[i].seq <= row[j].seq

Claimable(i) ==
    /\ Ranked(i)
    /\ \A j \in Inputs : Ranked(j) => row[i].seq <= row[j].seq
    /\ row[i].status \in Holding => ~row[i].live

\* Variant: the claim does not look for another row of the session in work.
FirstIsFree(i) == Claimable(i)

Unheld(i) ==
    /\ Claimable(i)
    /\ \A j \in Inputs \ {i} :
          row[j].gen = row[i].gen => ~(row[j].status \in Holding /\ row[j].live)

Claim(p, i) ==
    /\ Unheld(i)
    /\ row' = [row EXCEPT ![i] = [row[i] EXCEPT !.status = "claimed", !.attempts = row[i].attempts + 1,
                                                !.owner = p, !.live = TRUE]]
    /\ UNCHANGED <<generation, open, transcript>>

\* The deadline of a claim passes.
Expire(i) ==
    /\ row[i].status \in Holding /\ row[i].live
    /\ row' = [row EXCEPT ![i] = [@ EXCEPT !.live = FALSE]]
    /\ UNCHANGED <<generation, open, transcript>>

MarkRunning(i, e) ==
    /\ Lease(i, e, {"claimed"})
    /\ row' = [row EXCEPT ![i] = [@ EXCEPT !.status = "running"]]
    /\ UNCHANGED <<generation, open, transcript>>

Acknowledgeable(i, e, s) ==
    /\ Lease(i, e, {"running"})
    /\ s = "attached" => row[i].target \in Inputs /\ ~TurnIsTerminal(row[i].target)

Acknowledge(i, e, s) ==
    /\ Acknowledgeable(i, e, s)
    /\ row' = [row EXCEPT ![i] = Unclaimed(@, s)]
    /\ UNCHANGED <<generation, open, transcript>>

FailureStatus(i, class) ==
    IF class = "Retryable" /\ row[i].attempts < MaxAttempts THEN "queued"
    ELSE IF class = "Blocked" THEN "blocked" ELSE "failed"

Fail(i, e, class) ==
    /\ Lease(i, e, Holding)
    /\ row' = [row EXCEPT ![i] = Unclaimed(@, FailureStatus(i, class))]
    /\ UNCHANGED <<generation, open, transcript>>

\* Variant: two parameters of the statement change places.
RequeueSwapped(i, e, d, t) ==
    /\ Lease(i, e, Holding)
    /\ row' = [row EXCEPT ![i] = [Unclaimed(@, "reclassified") EXCEPT !.decision = t, !.target = d]]
    /\ UNCHANGED <<generation, open, transcript>>

Requeue(i, e, d, t) ==
    /\ Lease(i, e, Holding)
    /\ row' = [row EXCEPT ![i] = [Unclaimed(@, "reclassified") EXCEPT !.decision = d, !.target = t]]
    /\ UNCHANGED <<generation, open, transcript>>

-----------------------------------------------------------------------------
(***************************************************************************)
(* commit_terminal_transcript_if_fenced: the answer to i, produced under   *)
(* claim e by a turn that has read the inputs up to the cursor c.          *)
(***************************************************************************)
Supplements(i) ==
    {j \in Inputs : row[j].gen = row[i].gen /\ row[j].seq > row[i].seq
                      /\ row[j].decision = "SupplementCurrentTurn"}

\* Inputs that ask for the turn and came after what it has read.
Unread(i, c) ==
    {j \in Supplements(i) : row[j].status \notin Terminal \cup {"absent"} /\ row[j].seq > c}

\* Variant: the last input that was read is left out.
CoveredBelow(i, c) ==
    {j \in Supplements(i) : row[j].status \in Waiting \cup Holding \cup {"attached"}
                              /\ row[j].seq < c}

Covered(i, c) ==
    {j \in Supplements(i) : row[j].status \in Waiting \cup Holding \cup {"attached"}
                              /\ row[j].seq <= c}

\* Variant: the commit compares the claim and not what became of the row.
FenceOfClaim(i, e) == row[i].attempts = e

FenceValid(i, e) == Lease(i, e, {"running"})

Committable(i, e, c) == FenceValid(i, e) /\ Unread(i, c) = {}

CommitTranscript(i, e, c) ==
    /\ Committable(i, e, c)
    /\ row' = [j \in Inputs |->
                 IF j = i THEN [row[i] EXCEPT !.status = "completed", !.live = FALSE]
                 ELSE IF j \in Covered(i, c) THEN Unclaimed(row[j], "supplemented") ELSE row[j]]
    /\ transcript' = Append(transcript, i)
    /\ UNCHANGED <<generation, open>>

\* Variant: a repeated commit must hold the claim still.
ReplayUnderLease(i, e) == Lease(i, e, {"completed"})

\* A repeated commit finds the row completed under the same claim.
Replayed(i, e) == row[i].status = "completed" /\ row[i].owner # Nobody /\ row[i].attempts = e

-----------------------------------------------------------------------------
ClientStep(i) ==
    \/ \E d \in Decisions, t \in Inputs \cup {NoInput} : AppendInput(i, generation, d, t)
    \/ \E d \in Decisions, t \in Inputs \cup {NoInput} : ReclassifyInput(i, d, t)
    \/ AttachInput(i) \/ RetryBlocked(i) \/ CancelInput(i)

\* A write under a claim is one under the present claim; the cursor of an
\* answer is whatever its turn says.
WorkerStep(i) ==
    LET e == row[i].attempts IN
    \/ \E p \in Workers : Claim(p, i)
    \/ Expire(i)
    \/ MarkRunning(i, e)
    \/ \E s \in {"attached", "completed", "supplemented", "cancelled"} : Acknowledge(i, e, s)
    \/ \E class \in Classes : Fail(i, e, class)
    \/ \E d \in Decisions, t \in Inputs \cup {NoInput} : Requeue(i, e, d, t)
    \/ \E c : CommitTranscript(i, e, c)

InboxNext ==
    \/ \E i \in Inputs : ClientStep(i) \/ WorkerStep(i)
    \/ \E o \in BOOLEAN : AdvanceGeneration(o)

InboxSpec == InboxInit /\ [][InboxNext]_inbox

-----------------------------------------------------------------------------
(***************************************************************************)
(* Properties                                                              *)
(***************************************************************************)
Rows ==
    [status : Statuses, seq : Nat, gen : Nat, decision : Decisions,
     target : Inputs \cup {NoInput}, attempts : Nat, owner : Workers \cup {Nobody}, live : BOOLEAN]

\* Every row has its shape.
InboxTypeOK ==
    /\ generation \in Nat \ {0} /\ open \in BOOLEAN
    /\ row \in [Inputs -> Rows] /\ transcript \in Seq(Inputs)

\* At most one input of the session is in somebody's hands, and it is one of
\* the open generation: claims of a higher row, a retry of a blocked row below
\* it, lapsed claims and new generations never put two turns to work at once.
\* This holds as long as no claim overlaps another transaction.
OneClaim ==
    /\ \A i, j \in Inputs :
          {row[i].status, row[j].status} \subseteq Holding /\ row[i].live /\ row[j].live => i = j
    /\ \A i \in Inputs : row[i].status \in Holding => Admits(i)

Answered(i) == \E k \in 1..Len(transcript) : transcript[k] = i

Fate(i) ==
    IF row[i].status = "absent" THEN "absent"
    ELSE IF row[i].status \notin Terminal THEN "pending"
    ELSE IF Answered(i) THEN "answered"
    ELSE IF row[i].status = "supplemented" THEN "applied" ELSE "closed"

\* The rows and the transcript keep the session's promise: whatever workers,
\* clients, lapsed claims and new generations do, an input ends once, for good,
\* and its answer is entered once and only while its generation is open.
Promise == INSTANCE SessionTranscript WITH
             Inputs <- Inputs, generation <- generation, open <- open, transcript <- transcript,
             born <- [i \in Inputs |-> row[i].gen], fate <- [i \in Inputs |-> Fate(i)]
KeepsPromise == Promise!Spec
=============================================================================
