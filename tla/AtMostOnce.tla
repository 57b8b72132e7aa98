----------------------------- MODULE AtMostOnce -----------------------------
(***************************************************************************)
(* What the platform may rely on when it sends commands to an agent: a       *)
(* command that reached the agent is answered at most once, answers come in   *)
(* the order of the commands, no answer comes to a message that is not an     *)
(* envelope of version 1, and answers are lost only around an outage of the   *)
(* connection or because they are too large to be sent.                       *)
(***************************************************************************)

CONSTANTS
    Ids,     \* command ids
    Large    \* those whose answer the server may not take for its size

VARIABLES
    ahead,      \* for each command that reached the agent and waits for its
                \* answer: the commands to be answered before it
    answered,   \* commands whose answer has arrived
    up          \* agent and platform are connected

open == DOMAIN ahead

Init == ahead = [id \in {} |-> {}] /\ answered = {} /\ up = FALSE

\* The command goes to the end of the queue.
Accept(id) ==
    /\ up /\ up'
    /\ id \notin answered \union open
    /\ ahead' = [c \in open \union {id} |-> IF c = id THEN open ELSE ahead[c]]
    /\ UNCHANGED answered

\* The command at the head of the queue gets its answer.
Answer(id) ==
    /\ up /\ up'
    /\ id \in open /\ ahead[id] = {}
    /\ ahead' = [c \in open \ {id} |-> ahead[c] \ {id}]
    /\ answered' = answered \union {id}

\* The answer is too large: the command is dropped, the others keep their order.
Drop(id) ==
    /\ up /\ up'
    /\ id \in open \intersect Large
    /\ ahead' = [c \in open \ {id} |-> ahead[c] \ {id}]
    /\ UNCHANGED answered

\* The connection comes or goes, or is down: any of the commands may be lost;
\* the others keep their order.
Outage ==
    /\ ~up \/ ~up'
    /\ \E kept \in SUBSET open : ahead' = [c \in kept |-> ahead[c] \intersect kept]
    /\ UNCHANGED answered

Next == (\E id \in Ids : Accept(id) \/ Answer(id) \/ Drop(id)) \/ Outage

Spec == Init /\ [][Next]_<<ahead, answered, up>>
=============================================================================
