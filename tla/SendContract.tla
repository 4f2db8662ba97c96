---------------------------- MODULE SendContract ----------------------------
(***************************************************************************)
(* What POST /mail/send promises: an accepted send is recorded at least    *)
(* once or given up, is recorded a bounded number of times, never as ok    *)
(* unless its mailbox had a live token after it was accepted, and is       *)
(* reported as completed only once it has been recorded.  How often        *)
(* processSend runs, and where, does not show.                             *)
(***************************************************************************)
EXTENDS Naturals

CONSTANTS
    Jobs,      \* the sends
    MaxRows    \* how many rows one send may leave

VARIABLES
    fate,    \* what became of each send
    rows,    \* how many rows it left
    ok,      \* the sends recorded as ok
    live     \* the sends whose mailbox had a live token since

vars == <<fate, rows, ok, live>>

Init ==
    /\ fate = [j \in Jobs |-> "none"]
    /\ rows = [j \in Jobs |-> 0]
    /\ ok = {}
    /\ live = {}

Accept(j) ==
    /\ fate[j] = "none"
    /\ fate' = [fate EXCEPT ![j] = "accepted"]
    /\ live' \in {live, live \cup {j}}
    /\ UNCHANGED <<rows, ok>>

(* The mailbox of the sends S has a live token now. *)
TokenLives(S) ==
    /\ \A j \in S : fate[j] # "none"
    /\ live' = live \cup S
    /\ UNCHANGED <<fate, rows, ok>>

(* A run records the send; it may come after the fate was decided. *)
Record(j, isOk) ==
    /\ fate[j] # "none"
    /\ rows[j] < MaxRows
    /\ isOk => j \in live
    /\ rows' = [rows EXCEPT ![j] = @ + 1]
    /\ ok' = IF isOk THEN ok \cup {j} ELSE ok
    /\ UNCHANGED <<fate, live>>

Conclude(j) ==
    /\ fate[j] = "accepted"
    /\ rows[j] > 0
    /\ fate' = [fate EXCEPT ![j] = "completed"]
    /\ UNCHANGED <<rows, ok, live>>

GiveUp(j) ==
    /\ fate[j] = "accepted"
    /\ fate' = [fate EXCEPT ![j] = "failed"]
    /\ UNCHANGED <<rows, ok, live>>

Next ==
    \/ \E j \in Jobs :
         \/ Accept(j) \/ Conclude(j) \/ GiveUp(j)
         \/ \E isOk \in BOOLEAN : Record(j, isOk)
    \/ \E S \in SUBSET Jobs : TokenLives(S)

Spec == Init /\ [][Next]_vars

=============================================================================
