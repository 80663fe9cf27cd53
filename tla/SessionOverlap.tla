--------------------------- MODULE SessionOverlap ---------------------------
(***************************************************************************)
(* The inbox of a session whose claims overlap other transactions.         *)
(*                                                                         *)
(* claim_session_runtime_outbox is one statement of a READ COMMITTED       *)
(* transaction.  It ranks the rows and looks for one that is held in the   *)
(* snapshot it starts with, locks the row it has found (FOR UPDATE OF o    *)
(* SKIP LOCKED) and no other, and updates it whatever became of it since:  *)
(* after the lock only the join on request_id is evaluated again, and the  *)
(* ranks and the statuses it has compared are those of the snapshot.  So a *)
(* claim is two steps here, and any transaction may commit in between.     *)
(*                                                                         *)
(* Source: crates/session-postgres/src/ingress.rs                          *)
(***************************************************************************)
EXTENDS SessionInbox

CONSTANT
    MaxScans       \* bound: claims of one row

VARIABLE
    scan           \* by worker: the row that its claim has found

OverlapInit == InboxInit /\ scan = [p \in Workers |-> NoInput]

\* The snapshot of the statement.
ClaimScan(p, i) ==
    /\ scan[p] = NoInput /\ Unheld(i) /\ row[i].attempts < MaxScans
    /\ scan' = [scan EXCEPT ![p] = i]
    /\ UNCHANGED inbox

\* The lock of the row and its update.
ClaimScanned(p) ==
    LET i == scan[p] IN
    /\ i # NoInput
    /\ row' = [row EXCEPT ![i] = [row[i] EXCEPT !.status = "claimed", !.attempts = row[i].attempts + 1,
                                                !.owner = p, !.live = TRUE]]
    /\ scan' = [scan EXCEPT ![p] = NoInput]
    /\ UNCHANGED <<generation, open, transcript>>

\* A decision and its target.
Relations == {<<"StartNewTurn", NoInput>>} \cup ({"SupplementCurrentTurn"} \X Inputs)

\* The other transactions; the cursor of an answer is the number of some row.
Transaction(i) ==
    LET e == row[i].attempts IN
    \/ \E x \in Relations : AppendInput(i, generation, x[1], x[2]) \/ ReclassifyInput(i, x[1], x[2])
    \/ AttachInput(i) \/ RetryBlocked(i) \/ CancelInput(i)
    \/ Expire(i) \/ MarkRunning(i, e)
    \/ \E s \in {"attached", "completed", "supplemented", "cancelled"} : Acknowledge(i, e, s)
    \/ \E class \in Classes : Fail(i, e, class)
    \/ \E x \in Relations : Requeue(i, e, x[1], x[2])
    \/ \E j \in Inputs : CommitTranscript(i, e, row[j].seq)

OverlapNext ==
    \/ \E p \in Workers : ClaimScanned(p) \/ \E i \in Inputs : ClaimScan(p, i)
    \/ /\ UNCHANGED scan
       /\ \/ \E i \in Inputs : Transaction(i)
          \/ \E o \in BOOLEAN : AdvanceGeneration(o)

overlap == <<inbox, scan>>

OverlapSpec == OverlapInit /\ [][OverlapNext]_overlap

\* No transaction commits between the snapshot of a claim and its update; only
\* time passes.
Serial ==
    \A p \in Workers : scan[p] # NoInput /\ scan'[p] = scan[p] =>
        UNCHANGED inbox \/ \E i \in Inputs : Expire(i)

-----------------------------------------------------------------------------
\* "one head per Session may be claimed": two claims of one session that are
\* both in force are claims of one row.
OneHeadClaimed ==
    \A i, j \in Inputs :
        {row[i].status, row[j].status} \subseteq Holding /\ row[i].live /\ row[j].live => i = j
=============================================================================
