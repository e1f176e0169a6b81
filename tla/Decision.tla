------------------------------ MODULE Decision ------------------------------
(***************************************************************************)
(* What the inbox promises the person who answers it, with no processes,   *)
(* no calls in flight and no records of the store: one act is asked about  *)
(* one question at a time, an answer is given once, the act's steps commit *)
(* one after the other and only under an open question, and "yes" is on    *)
(* record when the act is complete or nobody can know any more.            *)
(***************************************************************************)
EXTENDS Integers

CONSTANTS Row, Steps

VARIABLES
    status,  \* how each question stands
    done,    \* how many steps of the act are committed
    ran,     \* the steps each question's "yes" committed
    lost,    \* whether the act left the building is not known, for good
    auto     \* the questions whose answer holds for the future as well

vars == <<status, done, ran, lost, auto>>

Init ==
    /\ status = [r \in Row |-> "none"]
    /\ done = 0
    /\ ran = [r \in Row |-> {}]
    /\ lost = FALSE
    /\ auto = {}

\* The act is asked about; an open question gives way, and one that was answered is not put again.
Ask ==
    /\ \A s \in Row : status[s] \in {"none", "pending", "stale"}
    /\ \E r \in Row :
         /\ status[r] = "none"
         /\ status' = [s \in Row |-> IF s = r THEN "pending"
                                     ELSE IF status[s] = "pending" THEN "stale" ELSE status[s]]
    /\ UNCHANGED <<done, ran, lost, auto>>

\* An open question is closed, once: "no" if nothing ran, "yes" if everything did or nobody knows.
Close ==
    /\ \E r \in Row, o \in {"executed", "rejected", "stale"} :
         /\ status[r] = "pending"
         /\ o = "rejected" => ran[r] = {}
         /\ o = "executed" => done = Steps \/ lost
         /\ status' = [status EXCEPT ![r] = o]
    /\ UNCHANGED <<done, ran, lost, auto>>

\* The next step of the act commits under an open question.
Run ==
    /\ done < Steps /\ ~lost
    /\ done' = done + 1
    /\ \E r \in Row : status[r] = "pending" /\ ran' = [ran EXCEPT ![r] = @ \cup {done + 1}]
    /\ UNCHANGED <<status, lost, auto>>

\* An attempt to send ends without an outcome.
Lose ==
    /\ done = 0 /\ ~lost
    /\ lost' = TRUE
    /\ UNCHANGED <<status, done, ran, auto>>

\* "From now on without asking": only on an act that went through.
Grant ==
    /\ \E r \in Row : status[r] = "executed" /\ auto' = auto \cup {r}
    /\ done = Steps
    /\ UNCHANGED <<status, done, ran, lost>>

Next == Ask \/ Close \/ Run \/ Lose \/ Grant

Spec == Init /\ [][Next]_vars
=============================================================================
