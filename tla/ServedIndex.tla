----------------------------- MODULE ServedIndex -----------------------------
(***************************************************************************)
(* What a client of the search engine may rely on, with no journal, no     *)
(* cache and no refresh: an index that, while open, answers from one whole *)
(* committed state at a time and only ever moves to a newer one.           *)
(***************************************************************************)
EXTENDS Integers

CONSTANTS Ids, Absent, MaxRevision

VARIABLES
    open,      \* whether an engine answers
    history,   \* the committed states, by revision
    revision,  \* the newest committed revision
    served,    \* the revision queries are answered from
    answer     \* the rows and the content revision they see

NoRows == [i \in Ids |-> Absent]
Closed == [rows |-> NoRows, contentRevision |-> 0]

AnswerAt(h, r) == [rows |-> h[r].rows, contentRevision |-> h[r].contentRevision]

Init ==
    /\ ~open
    /\ revision = 0
    /\ served = 0
    /\ answer = Closed

\* A writer commits one more state; the earlier ones never change.
Commit ==
    /\ revision' = revision + 1
    /\ \A r \in 0..revision : history'[r] = history[r]
    /\ UNCHANGED <<open, served, answer>>

Advance ==
    /\ open /\ open'
    /\ served' \in served + 1 .. revision
    /\ answer' = AnswerAt(history, served')
    /\ UNCHANGED <<history, revision>>

Open ==
    /\ ~open /\ open'
    /\ served' = revision
    /\ answer' = AnswerAt(history, revision)
    /\ UNCHANGED <<history, revision>>

\* The engine stops; a power loss may also undo the newest commits.
Close ==
    /\ ~open'
    /\ revision' <= revision
    /\ \A r \in 0..revision' : history'[r] = history[r]
    /\ served' = 0
    /\ answer' = Closed

Next == Commit \/ Advance \/ Open \/ Close

Spec == Init /\ [][Next]_<<open, history, revision, served, answer>>
=============================================================================
