------------------------- MODULE AgentSessionProofs -------------------------
(* Proofs about AgentSession and CommandExec, for any commands, identities,   *)
(* limits and number of faults.                                               *)
EXTENDS AgentSession, SequenceTheorems, TLAPS

USE NoneAssumption, LimitAssumption, BoundAssumption

-----------------------------------------------------------------------------
(* The inductive invariant.                                                   *)

Waiting == [id : Ids, v1 : BOOLEAN]

\* A command waits in one place only, and is neither answered nor lost before
\* it has left it: in the inbox, in the handler, among the messages to send.
InboxOnce ==
    \A i \in 1..Len(inbox) :
        /\ inbox[i].id \in sent \ (got \union lost) /\ inbox[i].id # cur
        /\ \A j \in 1..Len(inbox) : j # i => inbox[j].id # inbox[i].id
        /\ \A j \in 1..Len(out) : out[j].id # inbox[i].id
OutOnce ==
    \A i \in 1..Len(out) : out[i].id # None =>
        /\ out[i].id \in sent \ (got \union lost) /\ out[i].id # cur
        /\ \A j \in 1..Len(out) : j # i => out[j].id # out[i].id
CurOnce == cur # None => cur \in sent \ (got \union lost)

\* No command is both answered and lost.
AnsweredOrLost == got \subseteq sent /\ lost \subseteq sent /\ got \intersect lost = {}

Once == InboxOnce /\ OutOnce /\ CurOnce /\ AnsweredOrLost

\* No answer is on its way to a command that has one already, nor a second one
\* to the same command.
NoSecondAnswer ==
    \A i \in 1..Len(out) : out[i].kind = "result" =>
        /\ out[i].id \notin got \union lost
        /\ \A j \in 1..Len(out) : j # i => out[j].id # out[i].id

\* A process that has ended leaves nobody holding its output.
NoOrphan == NoLeftovers /\ (child = "none" => ~heir)

\* Until the connection is first lost, the capabilities have been received or
\* come before every heartbeat on its way.
Led ==
    \/ "capabilities" \in seen
    \/ \E i \in 1..Len(out) : /\ out[i].kind = "capabilities"
                              /\ \A j \in 1..i : out[j].kind # "heartbeat"
Leads ==
    /\ ~torn => conn \in {"none", "up"}
    /\ proc \in {"off", "boot", "start"} =>
          "heartbeat" \notin seen /\ \A i \in 1..Len(out) : out[i].kind # "heartbeat"
    /\ proc \in {"run", "drain"} /\ ~torn => Led
    /\ CapabilitiesLead

-----------------------------------------------------------------------------
(* The handler on its host.                                                   *)

\* A step of the handler, the host or telemetryLoop keeps the types of the work,
\* and takes no handler to or from rest.
LEMMA WorkStep ==
    ASSUME WorkTypeOK, HandlerStep \/ HostStep \/ Deadline \/ LoopReceives
    PROVE  WorkTypeOK' /\ (hpc' = "idle" <=> hpc = "idle")
<1>1. heir' \in BOOLEAN /\ slot' \in BOOLEAN
  <2>1. heir' = heir \/ heir' = TRUE \/ heir' = FALSE
    BY DEF HandlerStep, HostStep, Spawn, ExecuteReturns, JobReturns, Replaces, Fork,
           ChildExits, HeirExits, JobEnds, Deadline, LoopReceives
  <2>2. slot' = slot \/ slot' = FALSE
    BY DEF HandlerStep, HostStep, Spawn, ExecuteReturns, JobReturns, Replaces, Fork,
           ChildExits, HeirExits, JobEnds, Deadline, LoopReceives
  <2> QED
    BY <2>1, <2>2, Zenon DEF WorkTypeOK
<1>2. CASE Spawn
  BY <1>1, <1>2 DEF Spawn, Answer, WorkTypeOK
<1>3. CASE ExecuteReturns
  BY <1>1, <1>3 DEF ExecuteReturns, Answer, WorkTypeOK
<1>4. CASE JobReturns
  BY <1>1, <1>4 DEF JobReturns, Answer, WorkTypeOK
<1>5. CASE Fork \/ HeirExits
  BY <1>1, <1>5 DEF Fork, HeirExits, WorkTypeOK
<1>6. CASE ChildExits \/ Deadline
  BY <1>1, <1>6 DEF ChildExits, Deadline, WorkTypeOK
<1>7. CASE JobEnds
  BY <1>1, <1>7 DEF JobEnds, WorkTypeOK
<1>8. CASE Replaces
  BY <1>1, <1>8 DEF Replaces, Answer, WorkTypeOK
<1>9. CASE LoopReceives
  BY <1>1, <1>9 DEF LoopReceives, WorkTypeOK
<1> QED
  BY <1>2, <1>3, <1>4, <1>5, <1>6, <1>7, <1>8, <1>9 DEF HandlerStep, HostStep

\* Dispatch puts the handler to work and starts no process yet.
LEMMA DispatchStep ==
    ASSUME WorkTypeOK, hpc = "idle",
           Dispatch \/ (Answer("completed") /\ UNCHANGED <<left, child, heir, job, slot>>)
    PROVE  WorkTypeOK' /\ hpc' # "idle" /\ UNCHANGED <<child, heir>>
<1>1. UNCHANGED <<child, heir>>
  BY DEF Dispatch, Reject, Query, Run, Service, SetInterval
<1>2. CASE Reject
  BY <1>1, <1>2 DEF Reject, Answer, WorkTypeOK
<1>3. CASE Query \/ (Answer("completed") /\ UNCHANGED <<left, child, heir, job, slot>>)
  BY <1>1, <1>3 DEF Query, Answer, WorkTypeOK
<1>4. CASE Run
  BY <1>1, <1>4 DEF Run, Calls, WorkTypeOK
<1>5. CASE Service
  BY <1>1, <1>5 DEF Service, Answer, WorkTypeOK
<1>6. CASE SetInterval
  <2>1. slot' = slot \/ slot' = TRUE
    BY <1>6 DEF SetInterval
  <2>2. slot' \in BOOLEAN
    BY <2>1, Zenon DEF WorkTypeOK
  <2>3. UNCHANGED <<left, child, heir, job>>
    BY <1>6 DEF SetInterval
  <2>4. \/ hpc' = "receive" /\ status' = status
        \/ hpc' = "reply" /\ status' = "completed"
    BY <1>6 DEF SetInterval, Answer
  <2> QED
    BY <1>1, <2>2, <2>3, <2>4 DEF WorkTypeOK
<1> QED
  BY <1>1, <1>2, <1>3, <1>4, <1>5, <1>6 DEF Dispatch

-----------------------------------------------------------------------------
(* Queues of messages.                                                        *)

\* What can be published is a message, and it comes last if it is kept at all.
LEMMA PublishIs ==
    ASSUME out \in Seq(Messages), NEW m \in Messages, Publish(m)
    PROVE  /\ out' \in Seq(Messages)
           /\ \/ ~Fits(m) /\ out' = out
              \/ /\ Fits(m) /\ Len(out') = Len(out) + 1
                 /\ \A i \in 1..Len(out) : out'[i] = out[i]
                 /\ out'[Len(out) + 1] = m
BY AppendProperties DEF Publish

\* What is left of a queue when its head goes.
LEMMA TailIs ==
    ASSUME NEW S, NEW s \in Seq(S), s # <<>>
    PROVE  /\ Tail(s) \in Seq(S) /\ Len(s) \in Nat \ {0} /\ Len(Tail(s)) = Len(s) - 1
           /\ \A i \in 1..(Len(s) - 1) : Tail(s)[i] = s[i + 1]
           /\ Head(s) = s[1] /\ s[1] \in S
<1>1. Len(s) \in Nat \ {0}
  BY EmptySeq
<1> QED
  BY <1>1, HeadTailProperties, ElementOfSeq

\* What is left of a queue, and what is taken from it, when its first k
\* messages go.
LEMMA CutIs ==
    ASSUME NEW S, NEW s \in Seq(S), NEW k \in 0..Len(s)
    PROVE  /\ SubSeq(s, k + 1, Len(s)) \in Seq(S)
           /\ Len(SubSeq(s, k + 1, Len(s))) = Len(s) - k
           /\ \A i \in 1..(Len(s) - k) : SubSeq(s, k + 1, Len(s))[i] = s[k + i]
           /\ SubSeq(s, 1, k) \in Seq(S) /\ Len(SubSeq(s, 1, k)) = k
           /\ \A i \in 1..k : SubSeq(s, 1, k)[i] = s[i]
<1>1. Len(s) \in Nat /\ \A i \in 1..Len(s) : s[i] \in S
  BY LenProperties, ElementOfSeq
<1>2. \A i \in (k + 1)..Len(s) : s[i] \in S
  BY <1>1
<1>3. \A i \in 1..k : s[i] \in S
  BY <1>1
<1>4. k + 1 \in Int /\ Len(s) \in Int /\ 1 \in Int /\ k \in Int
  BY <1>1
<1>5. /\ SubSeq(s, k + 1, Len(s)) \in Seq(S)
      /\ Len(SubSeq(s, k + 1, Len(s))) = IF k + 1 <= Len(s) THEN Len(s) - (k + 1) + 1 ELSE 0
      /\ \A i \in 1..(Len(s) - (k + 1) + 1) : SubSeq(s, k + 1, Len(s))[i] = s[(k + 1) + i - 1]
  BY <1>2, <1>4, SubSeqProperties
<1>6. /\ SubSeq(s, 1, k) \in Seq(S)
      /\ Len(SubSeq(s, 1, k)) = IF 1 <= k THEN k - 1 + 1 ELSE 0
      /\ \A i \in 1..(k - 1 + 1) : SubSeq(s, 1, k)[i] = s[1 + i - 1]
  BY <1>3, <1>4, SubSeqProperties
<1> QED
  BY <1>1, <1>5, <1>6

\* The ids of a queue of messages are those of its results.
LEMMA IdsAre ==
    ASSUME NEW s \in Seq(Messages)
    PROVE  IdsOf(s) = {s[i].id : i \in 1..Len(s)} \ {None}
<1>1. DOMAIN s = 1..Len(s)
  BY LenProperties
<1> QED
  BY <1>1 DEF IdsOf, Members

-----------------------------------------------------------------------------
(* Every command in one place, step by step.                                  *)

SessionInv == SessionTypeOK /\ Once

\* A step that moves no message keeps every command in its place.
LEMMA OnceKept ==
    ASSUME Once, UNCHANGED <<inbox, cur, out, sent, got, lost>>
    PROVE  Once'
BY DEF Once, InboxOnce, OutOnce, CurOnce, AnsweredOrLost

\* The queues as functions.
LEMMA Queues ==
    ASSUME SessionTypeOK
    PROVE  /\ out \in Seq(Messages) /\ Len(out) \in Nat
           /\ \A i \in 1..Len(out) : out[i] \in Messages
           /\ inbox \in Seq(Waiting) /\ Len(inbox) \in Nat
           /\ \A i \in 1..Len(inbox) : inbox[i] \in Waiting
<1>1. out \in Seq(Messages) /\ inbox \in Seq(Waiting)
  BY DEF SessionTypeOK, Waiting
<1> QED
  BY <1>1, LenProperties, ElementOfSeq

\* An event has no id: it is no command's answer.
LEMMA EventOnce ==
    ASSUME SessionInv, NEW m \in Messages, m.id = None, Publish(m),
           UNCHANGED <<inbox, cur, sent, got, lost>>
    PROVE  Once'
<1>1. /\ out' \in Seq(Messages)
      /\ \/ out' = out
         \/ /\ Len(out') = Len(out) + 1
            /\ \A i \in 1..Len(out) : out'[i] = out[i]
            /\ out'[Len(out) + 1] = m
  BY PublishIs, Queues DEF SessionInv
<1>2. CASE out' = out
  BY <1>2, OnceKept DEF SessionInv
<1>3. CASE /\ Len(out') = Len(out) + 1
           /\ \A i \in 1..Len(out) : out'[i] = out[i]
           /\ out'[Len(out) + 1] = m
  <2>1. Len(out) \in Nat /\ \A i \in 1..Len(out') : i \in 1..Len(out) \/ i = Len(out) + 1
    BY <1>3, Queues DEF SessionInv
  <2>2. None \notin sent
    BY DEF SessionInv, SessionTypeOK
  <2>3. InboxOnce'
    BY <1>3, <2>1, <2>2 DEF SessionInv, Once, InboxOnce
  <2>4. OutOnce'
    BY <1>3, <2>1, <2>2 DEF SessionInv, Once, OutOnce
  <2> QED
    BY <2>3, <2>4 DEF SessionInv, Once, CurOnce, AnsweredOrLost
<1> QED
  BY <1>1, <1>2, <1>3

\* A new id enters the inbox once, within the limit, or is gone (Send).
LEMMA SendOnce ==
    ASSUME SessionInv, NEW id \in Ids, NEW v1 \in BOOLEAN, Send(id, v1)
    PROVE  /\ Once'
           /\ inbox' \in Seq(Waiting) /\ Len(inbox') <= PendingLimit
           /\ conn = "none" => inbox' = inbox
<1> DEFINE m == [id |-> id, v1 |-> v1]
<1>1. /\ id \notin sent /\ sent' = sent \union {id} /\ UNCHANGED <<conn, cur, out, got, lost>>
  BY DEF Send
<1>2. id \notin got /\ id \notin lost /\ id # None /\ id # cur
  BY <1>1 DEF SessionInv, Once, AnsweredOrLost, CurOnce
<1>3. \A j \in 1..Len(out) : out[j].id # id
  BY <1>1, <1>2 DEF SessionInv, Once, OutOnce
<1>4. \A j \in 1..Len(inbox) : inbox[j].id # id
  BY <1>1 DEF SessionInv, Once, InboxOnce
<1>5. CASE inbox' = inbox
  BY <1>1, <1>5, Queues DEF SessionInv, SessionTypeOK, Once, InboxOnce, OutOnce, CurOnce,
     AnsweredOrLost
<1>6. CASE conn = "up" /\ Len(inbox) < PendingLimit /\ inbox' = Append(inbox, m)
  <2>1. m \in Waiting
    BY DEF Waiting
  <2>2. /\ inbox' \in Seq(Waiting) /\ Len(inbox') = Len(inbox) + 1
        /\ \A i \in 1..Len(inbox) : inbox'[i] = inbox[i]
        /\ inbox'[Len(inbox) + 1] = m
    BY <1>6, <2>1, Queues, AppendProperties DEF SessionInv
  <2>3. Len(inbox) \in Nat /\ \A i \in 1..Len(inbox') : i \in 1..Len(inbox) \/ i = Len(inbox) + 1
    BY <2>2, Queues DEF SessionInv
  <2>4. Len(inbox') <= PendingLimit
    BY <1>6, <2>2, <2>3
  <2>5. inbox'[Len(inbox) + 1].id = id
    BY <2>2
  <2> HIDE DEF m
  <2>6. InboxOnce'
    <3> SUFFICES ASSUME NEW i \in 1..Len(inbox')
                 PROVE  /\ inbox'[i].id \in sent' \ (got \union lost) /\ inbox'[i].id # cur
                        /\ \A j \in 1..Len(inbox') : j # i => inbox'[j].id # inbox'[i].id
                        /\ \A j \in 1..Len(out) : out[j].id # inbox'[i].id
      BY <1>1 DEF InboxOnce
    <3>1. CASE i \in 1..Len(inbox)
      <4>1. inbox'[i] = inbox[i]
        BY <2>2, <3>1
      <4>2. \A j \in 1..Len(inbox') : j # i => inbox'[j].id # inbox[i].id
        BY <1>4, <2>2, <2>3, <2>5, <3>1 DEF SessionInv, Once, InboxOnce
      <4> QED
        BY <1>1, <3>1, <4>1, <4>2 DEF SessionInv, Once, InboxOnce
    <3>2. CASE i = Len(inbox) + 1
      <4>1. \A j \in 1..Len(inbox') : j # i => inbox'[j].id # id
        BY <1>4, <2>2, <2>3, <3>2
      <4> QED
        BY <1>1, <1>2, <1>3, <2>5, <3>2, <4>1
    <3> QED
      BY <2>3, <3>1, <3>2
  <2>7. OutOnce' /\ CurOnce' /\ AnsweredOrLost'
    BY <1>1 DEF SessionInv, Once, OutOnce, CurOnce, AnsweredOrLost
  <2> QED
    BY <1>6, <2>2, <2>4, <2>6, <2>7 DEF Once
<1> QED
  BY <1>5, <1>6 DEF Send

\* A command moves from the inbox to the handler; a message that is none goes.
LEMMA TakeOnce ==
    ASSUME SessionInv, Take
    PROVE  /\ Once'
           /\ inbox' \in Seq(Waiting) /\ Len(inbox') <= PendingLimit
           /\ out' \in Seq(Messages)
           /\ cur' \in Ids \union {None} /\ (cur' # None => Readable(Head(inbox)))
           /\ Readable(Head(inbox)) => cur' # None
<1>0. hpc = "idle" /\ cur = None /\ UNCHANGED <<sent, got, lost>>
  BY DEF Take, SessionInv, SessionTypeOK
<1>1. /\ inbox # <<>> /\ inbox' = Tail(inbox)
      /\ inbox' \in Seq(Waiting) /\ Len(inbox) \in Nat \ {0} /\ Len(inbox') = Len(inbox) - 1
      /\ \A i \in 1..(Len(inbox) - 1) : inbox'[i] = inbox[i + 1]
      /\ Head(inbox) = inbox[1] /\ inbox[1] \in Waiting
  BY Queues, TailIs DEF Take, SessionInv
<1>2. Len(inbox') <= PendingLimit
  BY <1>1 DEF SessionInv, SessionTypeOK
<1>3. /\ inbox[1].id \in sent \ (got \union lost) /\ inbox[1].id \in Ids
      /\ \A j \in 1..Len(inbox) : j # 1 => inbox[j].id # inbox[1].id
      /\ \A j \in 1..Len(out) : out[j].id # inbox[1].id
  BY <1>1 DEF SessionInv, Once, InboxOnce, Waiting
<1>4. \A i \in 1..Len(inbox') : i + 1 \in 1..Len(inbox) /\ i + 1 # 1 /\ inbox'[i] = inbox[i + 1]
  BY <1>1
<1>5. \A i \in 1..Len(inbox') :
         /\ inbox'[i].id \in sent \ (got \union lost) /\ inbox'[i].id # inbox[1].id
         /\ inbox'[i].id # None
         /\ \A j \in 1..Len(inbox') : j # i => inbox'[j].id # inbox'[i].id
         /\ \A j \in 1..Len(out) : out[j].id # inbox'[i].id
  <2> SUFFICES ASSUME NEW i \in 1..Len(inbox')
               PROVE  /\ inbox'[i].id \in sent \ (got \union lost) /\ inbox'[i].id # inbox[1].id
                      /\ inbox'[i].id # None
                      /\ \A j \in 1..Len(inbox') : j # i => inbox'[j].id # inbox'[i].id
                      /\ \A j \in 1..Len(out) : out[j].id # inbox'[i].id
    OBVIOUS
  <2>1. i + 1 \in 1..Len(inbox) /\ i + 1 # 1 /\ inbox'[i] = inbox[i + 1] /\ i \in Nat
    BY <1>1, <1>4
  <2>2. \A j \in 1..Len(inbox') : j # i => j + 1 # i + 1
    BY <1>1, <2>1
  <2>3. \A j \in 1..Len(inbox') : j # i => inbox'[j].id # inbox'[i].id
    BY <1>4, <2>1, <2>2 DEF SessionInv, Once, InboxOnce
  <2>4. inbox'[i].id # inbox[1].id
    BY <1>3, <2>1
  <2> QED
    BY <1>0, <2>1, <2>3, <2>4 DEF SessionInv, Once, InboxOnce
<1>6. out' = out \/ \E m \in Messages : m.id = None /\ Publish(m)
  <2>1. Event("capabilities") \in Messages /\ Event("capabilities").id = None
    BY DEF Event, Messages
  <2> QED
    BY <2>1 DEF Take, SendCapabilities
<1>7. /\ out' \in Seq(Messages)
      /\ \/ out' = out
         \/ /\ Len(out') = Len(out) + 1
            /\ \A i \in 1..Len(out) : out'[i] = out[i]
            /\ out'[Len(out) + 1].id = None
  BY <1>6, PublishIs, Queues DEF SessionInv
<1>8. \A i \in 1..Len(out') : \/ i \in 1..Len(out) /\ out'[i] = out[i]
                              \/ i = Len(out) + 1 /\ i \notin 1..Len(out) /\ out'[i].id = None
  BY <1>7, Queues DEF SessionInv
<1>9. /\ Readable(Head(inbox)) => cur' = inbox[1].id
      /\ ~Readable(Head(inbox)) => cur' = None
  BY <1>0, <1>1 DEF Take
<1>10. cur' \in {None, inbox[1].id}
  BY <1>9
<1>11. InboxOnce'
  BY <1>0, <1>5, <1>8, <1>10 DEF InboxOnce
<1>12. OutOnce'
  BY <1>0, <1>3, <1>8, <1>10 DEF SessionInv, Once, OutOnce
<1>13. CurOnce' /\ AnsweredOrLost'
  BY <1>0, <1>3, <1>10 DEF SessionInv, Once, CurOnce, AnsweredOrLost
<1> QED
  BY <1>1, <1>2, <1>3, <1>7, <1>9, <1>11, <1>12, <1>13 DEF Once

\* The command in hand becomes an answer to send, or is lost (Reply).
LEMMA ReplyOnce ==
    ASSUME SessionInv, Reply
    PROVE  Once' /\ out' \in Seq(Messages)
<1>1. cur # None /\ cur \in Ids /\ cur' = None /\ UNCHANGED <<inbox, sent, got>>
  BY DEF Reply, SessionInv, SessionTypeOK
<1>2. Result(cur) \in Messages /\ Result(cur).id = cur
  BY <1>1 DEF Result, Messages
<1>3. /\ out' \in Seq(Messages)
      /\ \/ out' = out /\ lost' = lost \union {cur}
         \/ /\ Len(out') = Len(out) + 1
            /\ \A i \in 1..Len(out) : out'[i] = out[i]
            /\ out'[Len(out) + 1].id = cur
            /\ lost' = lost
  BY <1>2, PublishIs, Queues DEF Reply, SessionInv
<1>4. /\ cur \in sent \ (got \union lost)
      /\ \A i \in 1..Len(inbox) : inbox[i].id # cur
      /\ \A i \in 1..Len(out) : out[i].id # cur
  BY <1>1 DEF SessionInv, Once, CurOnce, InboxOnce, OutOnce
<1>5. None \notin sent
  BY DEF SessionInv, SessionTypeOK
<1>6. CASE out' = out /\ lost' = lost \union {cur}
  <2>1. InboxOnce'
    BY <1>1, <1>4, <1>5, <1>6 DEF SessionInv, Once, InboxOnce
  <2>2. OutOnce'
    BY <1>1, <1>4, <1>6 DEF SessionInv, Once, OutOnce
  <2>3. CurOnce' /\ AnsweredOrLost'
    BY <1>1, <1>4, <1>6 DEF SessionInv, Once, CurOnce, AnsweredOrLost
  <2> QED
    BY <1>3, <2>1, <2>2, <2>3 DEF Once
<1>7. CASE /\ Len(out') = Len(out) + 1
           /\ \A i \in 1..Len(out) : out'[i] = out[i]
           /\ out'[Len(out) + 1].id = cur
           /\ lost' = lost
  <2>1. \A i \in 1..Len(out') : \/ i \in 1..Len(out) /\ out'[i] = out[i] /\ out[i].id # cur
                                \/ i = Len(out) + 1 /\ i \notin 1..Len(out) /\ out'[i].id = cur
    BY <1>4, <1>7, Queues DEF SessionInv
  <2>2. InboxOnce'
    BY <1>1, <1>4, <1>5, <1>7, <2>1 DEF SessionInv, Once, InboxOnce
  <2>3. OutOnce'
    BY <1>1, <1>4, <1>7, <2>1 DEF SessionInv, Once, OutOnce
  <2>4. CurOnce' /\ AnsweredOrLost'
    BY <1>1, <1>7 DEF SessionInv, Once, CurOnce, AnsweredOrLost
  <2> QED
    BY <1>3, <2>2, <2>3, <2>4 DEF Once
<1> QED
  BY <1>3, <1>6, <1>7

\* The first k messages leave the queue, the ids among them end up in `gone`.
LEMMA CutOnce ==
    ASSUME SessionInv, NEW k \in 0..Len(out), NEW gone,
           gone = {out[i].id : i \in 1..k} \ {None},
           out' \in Seq(Messages), Len(out') = Len(out) - k,
           \A i \in 1..(Len(out) - k) : out'[i] = out[k + i],
           UNCHANGED <<inbox, cur, sent>>,
           \/ got' = got \union gone /\ lost' = lost
           \/ got' = got /\ lost' = lost \union gone
    PROVE  Once'
<1>0. Len(out) \in Nat /\ k \in Nat
  BY Queues DEF SessionInv
<1>1. \A i \in 1..k : i \in 1..Len(out) /\ \A j \in 1..Len(out') : i # k + j
  BY <1>0
<1>2. \A i \in 1..Len(out') : k + i \in 1..Len(out) /\ out'[i] = out[k + i]
                              /\ \A j \in 1..Len(out') : j # i => k + j # k + i
  BY <1>0
<1>3. /\ gone \subseteq sent \ (got \union lost) /\ cur \notin gone
  BY <1>1 DEF SessionInv, Once, OutOnce
<1>4. \A i \in 1..Len(inbox) : inbox[i].id \notin gone
  BY <1>1 DEF SessionInv, Once, InboxOnce
<1>5. \A i \in 1..Len(out') : out'[i].id # None => out'[i].id \notin gone
  BY <1>1, <1>2 DEF SessionInv, Once, OutOnce
<1>6. got' \union lost' = got \union lost \union gone
  OBVIOUS
<1>7. InboxOnce'
  <2> SUFFICES ASSUME NEW i \in 1..Len(inbox)
               PROVE  /\ inbox[i].id \in sent \ (got' \union lost') /\ inbox[i].id # cur
                      /\ \A j \in 1..Len(inbox) : j # i => inbox[j].id # inbox[i].id
                      /\ \A j \in 1..Len(out') : out'[j].id # inbox[i].id
    BY DEF InboxOnce
  <2>1. /\ inbox[i].id \in sent \ (got \union lost) /\ inbox[i].id # cur
        /\ \A j \in 1..Len(inbox) : j # i => inbox[j].id # inbox[i].id
        /\ \A j \in 1..Len(out) : out[j].id # inbox[i].id
    BY DEF SessionInv, Once, InboxOnce
  <2>2. inbox[i].id \notin got' \union lost'
    BY <1>4, <1>6, <2>1
  <2> QED
    BY <1>2, <2>1, <2>2
<1>8. OutOnce'
  <2> SUFFICES ASSUME NEW i \in 1..Len(out'), out'[i].id # None
               PROVE  /\ out'[i].id \in sent \ (got' \union lost') /\ out'[i].id # cur
                      /\ \A j \in 1..Len(out') : j # i => out'[j].id # out'[i].id
    BY DEF OutOnce
  <2>1. k + i \in 1..Len(out) /\ out'[i] = out[k + i]
    BY <1>2
  <2>2. /\ out'[i].id \in sent \ (got \union lost) /\ out'[i].id # cur
        /\ \A j \in 1..Len(out) : j # k + i => out[j].id # out'[i].id
    BY <2>1 DEF SessionInv, Once, OutOnce
  <2>3. out'[i].id \notin got' \union lost'
    BY <1>5, <1>6, <2>2
  <2> QED
    BY <1>2, <2>2, <2>3
<1>9. CurOnce'
  BY <1>3, <1>6 DEF SessionInv, Once, CurOnce
<1>10. AnsweredOrLost'
  BY <1>3 DEF SessionInv, Once, AnsweredOrLost
<1> QED
  BY <1>7, <1>8, <1>9, <1>10 DEF Once

\* The first answer to send becomes one the platform has (Flush).
LEMMA FlushOnce ==
    ASSUME SessionInv, Flush
    PROVE  Once' /\ out' \in Seq(Messages) /\ seen' \subseteq {"result", "capabilities", "heartbeat"}
<1>1. /\ out # <<>> /\ out' = Tail(out) /\ got' = got \union ({Head(out).id} \ {None})
      /\ seen' = seen \union {Head(out).kind} /\ UNCHANGED <<inbox, cur, sent, lost>>
  BY DEF Flush
<1>2. /\ out' \in Seq(Messages) /\ Len(out) \in Nat \ {0} /\ Len(out') = Len(out) - 1
      /\ \A i \in 1..(Len(out) - 1) : out'[i] = out[i + 1]
      /\ Head(out) = out[1] /\ out[1] \in Messages
  BY <1>1, Queues, TailIs DEF SessionInv
<1>3. {Head(out).id} \ {None} = {out[i].id : i \in 1..1} \ {None}
  BY <1>2
<1>4. 1 \in 0..Len(out) /\ \A i \in 1..(Len(out) - 1) : out'[i] = out[1 + i]
  BY <1>2
<1>5. seen' \subseteq {"result", "capabilities", "heartbeat"}
  BY <1>1, <1>2 DEF SessionInv, SessionTypeOK, Messages
<1>6. Once'
  BY <1>1, <1>2, <1>3, <1>4, CutOnce
<1> QED
  BY <1>2, <1>5, <1>6

\* An outage turns the first answers into lost ones (Disconnect).
LEMMA DisconnectOnce ==
    ASSUME SessionInv, NEW k \in 0..Len(out), Disconnect(k)
    PROVE  Once' /\ out' \in Seq(Messages)
<1>1. /\ out' = SubSeq(out, k + 1, Len(out))
      /\ lost' = lost \union IdsOf(SubSeq(out, 1, k))
      /\ UNCHANGED <<inbox, cur, sent, got>>
  BY DEF Disconnect
<1>2. /\ out' \in Seq(Messages) /\ Len(out') = Len(out) - k
      /\ \A i \in 1..(Len(out) - k) : out'[i] = out[k + i]
      /\ SubSeq(out, 1, k) \in Seq(Messages) /\ Len(SubSeq(out, 1, k)) = k
      /\ \A i \in 1..k : SubSeq(out, 1, k)[i] = out[i]
  BY <1>1, Queues, CutIs DEF SessionInv
<1>3. IdsOf(SubSeq(out, 1, k)) = {out[i].id : i \in 1..k} \ {None}
  <2>1. IdsOf(SubSeq(out, 1, k)) = {SubSeq(out, 1, k)[i].id : i \in 1..k} \ {None}
    BY <1>2, IdsAre
  <2>2. {SubSeq(out, 1, k)[i].id : i \in 1..k} = {out[i].id : i \in 1..k}
    BY <1>2
  <2> QED
    BY <2>1, <2>2
<1> QED
  BY <1>1, <1>2, <1>3, CutOnce

\* A connection closed for v1 loses all answers to send (Reconnect).
LEMMA ReconnectOnce ==
    ASSUME SessionInv, Reconnect
    PROVE  Once' /\ out' \in Seq(Messages)
<1>1. UNCHANGED <<inbox, cur, sent, got>>
  BY DEF Reconnect
<1>2. CASE UNCHANGED <<out, lost>>
  BY <1>1, <1>2, OnceKept, Queues DEF SessionInv
<1>3. CASE out' = <<>> /\ lost' = lost \union IdsOf(out)
  <2>1. out' \in Seq(Messages) /\ Len(out') = 0 /\ Len(out) \in Nat
    BY <1>3, EmptySeq, Queues DEF SessionInv
  <2>2. IdsOf(out) = {out[i].id : i \in 1..Len(out)} \ {None}
    BY IdsAre, Queues DEF SessionInv
  <2>3. Len(out) \in 0..Len(out) /\ Len(out') = Len(out) - Len(out)
        /\ \A i \in 1..(Len(out) - Len(out)) : out'[i] = out[Len(out) + i]
    BY <2>1
  <2> QED
    BY <1>1, <1>3, <2>1, <2>2, <2>3, CutOnce
<1> QED
  BY <1>2, <1>3 DEF Reconnect

\* All that was in hand is lost with the process.
LEMMA VanishOnce ==
    ASSUME SessionInv, Vanish
    PROVE  Once'
<1>1. /\ inbox' = <<>> /\ cur' = None /\ out' = <<>> /\ UNCHANGED <<sent, got>>
      /\ lost' = lost \union Commands(inbox) \union ({cur} \ {None}) \union IdsOf(out)
  BY DEF Vanish
<1>2. Len(inbox') = 0 /\ Len(out') = 0
  BY <1>1, EmptySeq
<1>3. IdsOf(out) = {out[i].id : i \in 1..Len(out)} \ {None}
  BY IdsAre, Queues DEF SessionInv
<1>4. Commands(inbox) \subseteq {inbox[i].id : i \in 1..Len(inbox)}
  <2>1. DOMAIN inbox = 1..Len(inbox)
    BY Queues, LenProperties DEF SessionInv
  <2> QED
    BY <2>1 DEF Commands, Members
<1>5. IdsOf(out) \subseteq sent \ got
  BY <1>3 DEF SessionInv, Once, OutOnce
<1>6. Commands(inbox) \subseteq sent \ got
  BY <1>4 DEF SessionInv, Once, InboxOnce
<1>7. {cur} \ {None} \subseteq sent \ got
  BY DEF SessionInv, Once, CurOnce
<1>8. AnsweredOrLost'
  BY <1>1, <1>5, <1>6, <1>7 DEF SessionInv, Once, AnsweredOrLost
<1>9. InboxOnce' /\ OutOnce' /\ CurOnce'
  BY <1>1, <1>2 DEF InboxOnce, OutOnce, CurOnce
<1> QED
  BY <1>8, <1>9 DEF Once

-----------------------------------------------------------------------------
(* Types, step by step.                                                       *)

\* What has to be shown of a step for the types, once each command is known to
\* be in one place: the connection has the process's, the work the handler's.
LEMMA Retype ==
    ASSUME SessionTypeOK, Once', WorkTypeOK', UNCHANGED <<source, trusted, server, torn, beats, faults, seen>>,
           UNCHANGED <<proc, conn>>, sent' \subseteq Ids,
           inbox' \in Seq(Waiting), Len(inbox') <= PendingLimit, out' \in Seq(Messages),
           conn = "none" => inbox' = <<>> /\ out' = <<>>,
           cur' \in Ids \union {None}, cur' # None <=> hpc' # "idle"
    PROVE  SessionTypeOK'
BY DEF SessionTypeOK, Once, AnsweredOrLost, Waiting

\* Steps of the process, the server and the credentials.
LEMMA LifecycleTypes ==
    ASSUME SessionInv, Boot \/ Connect \/ Terminate \/ ServerBack \/ Reprovision
    PROVE  SessionInv'
<1>1. UNCHANGED <<work, inbox, cur, out, sent, got, beats, seen, torn, lost>>
  BY DEF Boot, Connect, Terminate, ServerBack, Reprovision
<1>2. Once'
  BY <1>1, OnceKept DEF SessionInv
<1>3. WorkTypeOK'
  <2>1. UNCHANGED <<hpc, left, child, heir, job, slot, status>>
    BY <1>1 DEF work
  <2> QED
    BY <2>1 DEF SessionInv, SessionTypeOK, WorkTypeOK
<1>4. hpc' = hpc
  BY <1>1 DEF work
<1>5. CASE Boot
  <2>1. trusted' \in BOOLEAN
    <3>1. source \in [yaml : MetaFile, json : MetaFile, cfg : BOOLEAN]
      BY SourceAssumption DEF SessionInv, SessionTypeOK
    <3>2. Metadata(source) \in MetaFile
      BY <3>1 DEF Metadata
    <3>3. Metadata(source).good \in BOOLEAN /\ source.cfg \in BOOLEAN
      BY <3>1, <3>2 DEF MetaFile
    <3>4. trusted' = Metadata(source).good \/ trusted' = source.cfg
      BY <1>5 DEF Boot, Resolve
    <3> QED
      BY <3>3, <3>4, Zenon
  <2> QED
    BY <1>1, <1>2, <1>3, <1>4, <1>5, <2>1 DEF SessionInv, SessionTypeOK, Boot
<1>6. CASE Connect
  BY <1>1, <1>2, <1>3, <1>4, <1>6 DEF SessionInv, SessionTypeOK, Connect
<1>7. CASE Terminate
  BY <1>1, <1>2, <1>3, <1>4, <1>7 DEF SessionInv, SessionTypeOK, Terminate, Fault
<1>8. CASE ServerBack
  BY <1>1, <1>2, <1>3, <1>4, <1>8 DEF SessionInv, SessionTypeOK, ServerBack
<1>9. CASE Reprovision
  <2>1. trusted' \in BOOLEAN
    <3>1. trusted' = trusted \/ trusted' = FALSE
      BY <1>9 DEF Reprovision
    <3> QED
      BY <3>1, Zenon DEF SessionInv, SessionTypeOK
  <2> QED
    BY <1>1, <1>2, <1>3, <1>4, <1>9, <2>1 DEF SessionInv, SessionTypeOK, Reprovision, Fault
<1> QED
  BY <1>5, <1>6, <1>7, <1>8, <1>9

\* Steps that publish an event.
LEMMA PublishTypes ==
    ASSUME SessionInv, Start \/ sendHeartbeat
    PROVE  SessionInv'
<1>1. UNCHANGED <<work, source, trusted, server, conn, inbox, cur, sent, got, faults, seen, torn, lost>>
  BY DEF Start, sendHeartbeat
<1>2. PICK m \in Messages : m.id = None /\ Publish(m)
  BY DEF Start, sendHeartbeat, Event, Messages
<1>3. Once'
  BY <1>1, <1>2, EventOnce
<1>4. out' \in Seq(Messages)
  BY <1>2, PublishIs DEF SessionInv, SessionTypeOK
<1>5. UNCHANGED <<hpc, left, child, heir, job, slot, status>>
  BY <1>1 DEF work
<1>6. WorkTypeOK'
  BY <1>5 DEF SessionInv, SessionTypeOK, WorkTypeOK
<1>7. CASE Start
  BY <1>1, <1>3, <1>4, <1>5, <1>6, <1>7 DEF SessionInv, SessionTypeOK, Start
<1>8. CASE sendHeartbeat
  BY <1>1, <1>3, <1>4, <1>5, <1>6, <1>8 DEF SessionInv, SessionTypeOK, sendHeartbeat, Beating
<1> QED
  BY <1>7, <1>8

\* Taking a command and publishing its result.
LEMMA HandlerTypes ==
    ASSUME SessionInv, Take \/ Reply
    PROVE  SessionInv'
<1>1. UNCHANGED <<source, proc, trusted, server, conn, sent, beats, faults, seen, torn>>
  BY DEF Take, Reply
<1>2. CASE Take
  <2>1. /\ Once' /\ inbox' \in Seq(Waiting) /\ Len(inbox') <= PendingLimit
        /\ out' \in Seq(Messages)
        /\ cur' \in Ids \union {None} /\ (cur' # None <=> Readable(Head(inbox)))
    BY <1>2, TakeOnce
  <2>2. conn # "none"
    BY <1>2 DEF Take, SessionInv, SessionTypeOK
  <2>3. WorkTypeOK' /\ (Readable(Head(inbox)) <=> hpc' # "idle")
    <3>1. CASE Readable(Head(inbox))
      <4>1. hpc = "idle" /\ (Dispatch \/ (Answer("completed") /\ UNCHANGED <<left, child, heir, job, slot>>))
        BY <1>2, <3>1 DEF Take, SendCapabilities
      <4> QED
        BY <3>1, <4>1, DispatchStep DEF SessionInv, SessionTypeOK
    <3>2. CASE ~Readable(Head(inbox))
      <4>1. hpc = "idle" /\ UNCHANGED <<hpc, left, child, heir, job, slot, status>>
        BY <1>2, <3>2 DEF Take, work
      <4> QED
        BY <3>2, <4>1 DEF SessionInv, SessionTypeOK, WorkTypeOK
    <3> QED
      BY <3>1, <3>2
  <2>4. sent' \subseteq Ids
    BY <1>1 DEF SessionInv, SessionTypeOK
  <2>5. SessionTypeOK'
    BY <1>1, <2>1, <2>2, <2>3, <2>4, Retype DEF SessionInv
  <2> QED
    BY <2>1, <2>5 DEF SessionInv
<1>3. CASE Reply
  <2>1. Once' /\ out' \in Seq(Messages)
    BY <1>3, ReplyOnce
  <2>2. /\ hpc = "reply" /\ hpc' = "idle" /\ status' = "none" /\ cur' = None
        /\ UNCHANGED <<left, child, heir, job, slot, inbox>>
    BY <1>3 DEF Reply
  <2>3. WorkTypeOK'
    BY <2>2 DEF SessionInv, SessionTypeOK, WorkTypeOK
  <2>4. conn = "none" => out' = out
    BY <1>3 DEF Reply, Publish, Fits
  <2>5. /\ sent' \subseteq Ids /\ inbox' \in Seq(Waiting) /\ Len(inbox') <= PendingLimit
        /\ conn = "none" => inbox' = <<>> /\ out' = <<>>
    BY <1>1, <2>2, <2>4 DEF SessionInv, SessionTypeOK, Waiting
  <2>6. SessionTypeOK'
    BY <1>1, <2>1, <2>2, <2>3, <2>5, Retype DEF SessionInv
  <2> QED
    BY <2>1, <2>6 DEF SessionInv
<1> QED
  BY <1>2, <1>3

\* The platform sends a message.
LEMMA SendTypes ==
    ASSUME SessionInv, NEW id \in Ids, NEW v1 \in BOOLEAN, Send(id, v1)
    PROVE  SessionInv'
<1>1. /\ UNCHANGED <<work, source, proc, trusted, server, conn, cur, out, beats, faults, seen, torn>>
      /\ sent' = sent \union {id}
  BY DEF Send
<1>2. /\ Once' /\ inbox' \in Seq(Waiting) /\ Len(inbox') <= PendingLimit
      /\ conn = "none" => inbox' = inbox
  BY SendOnce
<1>3. UNCHANGED <<hpc, left, child, heir, job, slot, status>>
  BY <1>1 DEF work
<1>4. WorkTypeOK'
  BY <1>3 DEF SessionInv, SessionTypeOK, WorkTypeOK
<1>5. /\ sent' \subseteq Ids /\ out' \in Seq(Messages)
      /\ conn = "none" => inbox' = <<>> /\ out' = <<>>
      /\ cur' \in Ids \union {None} /\ (cur' # None <=> hpc' # "idle")
  BY <1>1, <1>2, <1>3 DEF SessionInv, SessionTypeOK
<1>6. SessionTypeOK'
  BY <1>1, <1>2, <1>4, <1>5, Retype DEF SessionInv
<1> QED
  BY <1>2, <1>6 DEF SessionInv

\* Steps of the connection.
LEMMA WireTypes ==
    ASSUME SessionInv, Flush \/ Reconnect \/ \E k \in 0..Len(out) : Disconnect(k)
    PROVE  SessionInv'
<1>1. /\ UNCHANGED <<work, source, proc, trusted, inbox, cur, sent, beats>>
      /\ conn # "none" /\ conn' \in {"up", "down", "closed"}
  BY DEF Flush, Reconnect, Disconnect
<1>2. Once' /\ out' \in Seq(Messages)
  BY FlushOnce, ReconnectOnce, DisconnectOnce
<1>3. UNCHANGED <<hpc, left, child, heir, job, slot, status>>
  BY <1>1 DEF work
<1>4. WorkTypeOK'
  BY <1>3 DEF SessionInv, SessionTypeOK, WorkTypeOK
<1>5. seen' \subseteq {"result", "capabilities", "heartbeat"} /\ faults' \in 0..MaxFaults
  <2>1. CASE Flush
    BY <2>1, FlushOnce DEF Flush, SessionInv, SessionTypeOK
  <2>2. CASE Reconnect
    BY <2>2 DEF Reconnect, SessionInv, SessionTypeOK
  <2>3. CASE \E k \in 0..Len(out) : Disconnect(k)
    BY <2>3 DEF Disconnect, Fault, SessionInv, SessionTypeOK
  <2> QED
    BY <2>1, <2>2, <2>3
<1>6. server' \in BOOLEAN /\ torn' \in BOOLEAN
  BY DEF Flush, Reconnect, Disconnect, SessionInv, SessionTypeOK
<1>7. got' \subseteq sent' /\ lost' \subseteq sent'
  BY <1>2 DEF Once, AnsweredOrLost
<1>8. SessionTypeOK'
  BY <1>1, <1>2, <1>3, <1>4, <1>5, <1>6, <1>7 DEF SessionInv, SessionTypeOK
<1> QED
  BY <1>2, <1>8 DEF SessionInv

\* The process ends.
LEMMA VanishTypes ==
    ASSUME SessionInv, Exit \/ Crash
    PROVE  SessionInv'
<1>1. Vanish /\ faults' \in 0..MaxFaults
  BY DEF Exit, Crash, Fault, SessionInv, SessionTypeOK
<1>2. Once'
  BY <1>1, VanishOnce
<1>3. WorkTypeOK'
  <2>1. heir' \in BOOLEAN /\ slot' \in BOOLEAN
    BY <1>1, Zenon DEF Vanish, DropWork
  <2> QED
    BY <1>1, <2>1 DEF Vanish, DropWork, WorkTypeOK
<1>4. /\ inbox' \in Seq([id : Ids, v1 : BOOLEAN]) /\ Len(inbox') <= PendingLimit
      /\ out' \in Seq(Messages) /\ inbox' = <<>> /\ out' = <<>>
  BY <1>1, EmptySeq DEF Vanish
<1>5. got' \subseteq sent' /\ lost' \subseteq sent' /\ sent' \subseteq Ids
  BY <1>1, <1>2 DEF Once, AnsweredOrLost, Vanish, SessionInv, SessionTypeOK
<1>6. trusted' \in BOOLEAN /\ torn' \in BOOLEAN /\ server' \in BOOLEAN
  BY <1>1, Zenon DEF Vanish, SessionInv, SessionTypeOK
<1>7. SessionTypeOK'
  BY <1>1, <1>3, <1>4, <1>5, <1>6 DEF Vanish, DropWork, SessionInv, SessionTypeOK
<1> QED
  BY <1>2, <1>7 DEF SessionInv

\* Types, and every command in one place, in every reachable state.
LEMMA SessionInvariance == Spec => []SessionInv
<1>1. Init => SessionInv
  <2> SUFFICES ASSUME Init PROVE SessionInv
    OBVIOUS
  <2>1. WorkTypeOK
    <3>1. heir \in BOOLEAN /\ slot \in BOOLEAN
      BY Zenon DEF Init, NoWork
    <3> QED
      BY <3>1 DEF Init, NoWork, WorkTypeOK
  <2>2. /\ inbox \in Seq([id : Ids, v1 : BOOLEAN]) /\ out \in Seq(Messages)
        /\ Len(inbox) = 0 /\ Len(out) = 0
    BY EmptySeq DEF Init
  <2>3. SessionTypeOK
    <3>1. trusted \in BOOLEAN /\ torn \in BOOLEAN /\ server \in BOOLEAN
      BY Zenon DEF Init
    <3> QED
      BY <2>1, <2>2, <3>1 DEF Init, NoWork, SessionTypeOK
  <2>4. Once
    BY <2>2 DEF Init, Once, InboxOnce, OutOnce, CurOnce, AnsweredOrLost
  <2> QED
    BY <2>3, <2>4 DEF SessionInv
<1>2. SessionInv /\ [Next]_vars => SessionInv'
  <2> SUFFICES ASSUME SessionInv, [Next]_vars PROVE SessionInv'
    OBVIOUS
  <2>1. ASSUME UNCHANGED session, WorkTypeOK', hpc' = "idle" <=> hpc = "idle" PROVE SessionInv'
    <3>1. Once'
      BY <2>1, OnceKept DEF session, SessionInv
    <3>2. SessionTypeOK'
      BY <2>1 DEF session, SessionInv, SessionTypeOK
    <3> QED
      BY <3>1, <3>2 DEF SessionInv
  <2>2. CASE UNCHANGED vars
    <3>1. UNCHANGED session /\ UNCHANGED <<hpc, left, child, heir, job, slot, status>>
      BY <2>2 DEF vars, work
    <3>2. WorkTypeOK'
      BY <3>1 DEF SessionInv, SessionTypeOK, WorkTypeOK
    <3> QED
      BY <2>1, <3>1, <3>2
  <2>3. CASE (HandlerStep \/ HostStep \/ Deadline \/ LoopReceives) /\ UNCHANGED session
    BY <2>1, <2>3, WorkStep DEF SessionInv, SessionTypeOK
  <2>4. CASE Next
    BY <2>3, <2>4, LifecycleTypes, PublishTypes, HandlerTypes, SendTypes, WireTypes, VanishTypes
       DEF Next, Lifecycle, Handler, telemetryLoop
  <2> QED
    BY <2>2, <2>4
<1> QED
  BY <1>1, <1>2, PTL DEF Spec

\* The types of AgentSession hold throughout: a process without a connection
\* has nothing in hand, only a busy handler has a command, the subscription
\* never holds more than its limit, and only commands the platform sent are
\* answered or lost.
THEOREM SessionTyping == Spec => []SessionTypeOK
<1>1. SessionInv => SessionTypeOK
  BY DEF SessionInv
<1> QED
  BY <1>1, SessionInvariance, PTL

\* The agent answers a command at most once, and never after it counted as
\* lost: no answer on its way is for a command that was answered or is being
\* answered, over reconnects, full buffers, crashes and restarts (Subscribe,
\* Dispatch, Publish).
THEOREM AnsweredAtMostOnce == Spec => [](NoSecondAnswer /\ got \intersect lost = {})
<1>1. SessionInv => NoSecondAnswer /\ got \intersect lost = {}
  <2> SUFFICES ASSUME SessionInv PROVE NoSecondAnswer /\ got \intersect lost = {}
    OBVIOUS
  <2>1. \A i \in 1..Len(out) : out[i].kind = "result" => out[i].id # None
    BY Queues DEF SessionInv, Messages
  <2> QED
    BY <2>1 DEF SessionInv, Once, OutOnce, AnsweredOrLost, NoSecondAnswer
<1> QED
  BY <1>1, SessionInvariance, PTL

-----------------------------------------------------------------------------
(* Nothing of a command outlives its result.                                  *)

\* When a result is published, nothing of its command that could still write to
\* its output is running: neither the process Execute started, killed by the
\* deadline or not, nor a descendant that holds its output.
THEOREM NoLeftoversAlways == Spec => []NoLeftovers
<1>1. Init => NoOrphan
  BY DEF Init, NoWork, NoOrphan, NoLeftovers
<1>2. SessionTypeOK /\ NoOrphan /\ [Next]_vars => NoOrphan'
  <2> SUFFICES ASSUME SessionTypeOK, NoOrphan, [Next]_vars PROVE NoOrphan'
    OBVIOUS
  <2>1. CASE UNCHANGED <<hpc, child, heir>>
    BY <2>1 DEF NoOrphan, NoLeftovers
  <2>2. CASE UNCHANGED work
    BY <2>1, <2>2 DEF work
  <2>3. CASE Take
    <3>1. UNCHANGED <<child, heir>> /\ child = "none" /\ ~heir
      BY <2>3 DEF Take, Dispatch, Reject, Query, Run, Service, SetInterval, SendCapabilities, work,
                  NoOrphan, NoLeftovers
    <3> QED
      BY <3>1 DEF NoOrphan, NoLeftovers
  <2>4. CASE Reply
    BY <2>4 DEF Reply, NoOrphan, NoLeftovers
  <2>5. CASE Vanish
    BY <2>5 DEF Vanish, DropWork, NoOrphan, NoLeftovers
  <2>6. CASE Spawn
    BY <2>6 DEF Spawn, Answer, NoOrphan, NoLeftovers
  <2>7. CASE ExecuteReturns
    BY <2>7 DEF ExecuteReturns, OutputClosed, NoOrphan, NoLeftovers
  <2>8. CASE JobReturns \/ JobEnds \/ Replaces \/ LoopReceives
    BY <2>8 DEF JobReturns, JobEnds, Replaces, LoopReceives, Answer, NoOrphan, NoLeftovers
  <2>9. CASE Fork \/ ChildExits \/ Deadline
    BY <2>9 DEF Fork, ChildExits, Deadline, NoOrphan, NoLeftovers
  <2>10. CASE HeirExits
    BY <2>10 DEF HeirExits, NoOrphan, NoLeftovers
  <2>11. CASE Boot \/ Connect \/ Start \/ sendHeartbeat \/ Flush \/ Reconnect \/ ServerBack
              \/ Reprovision \/ Terminate
    BY <2>2, <2>11 DEF Boot, Connect, Start, sendHeartbeat, Flush, Reconnect, ServerBack,
                       Reprovision, Terminate
  <2>12. CASE \/ \E id \in Ids, v1 \in BOOLEAN : Send(id, v1)
              \/ \E k \in 0..Len(out) : Disconnect(k)
    BY <2>2, <2>12 DEF Send, Disconnect
  <2>13. CASE Exit \/ Crash
    BY <2>5, <2>13 DEF Exit, Crash
  <2>14. CASE UNCHANGED vars
    BY <2>2, <2>14 DEF vars
  <2> QED
    BY <2>3, <2>4, <2>6, <2>7, <2>8, <2>9, <2>10, <2>11, <2>12, <2>13, <2>14
       DEF Next, Lifecycle, Handler, HandlerStep, HostStep, telemetryLoop
<1>3. NoOrphan => NoLeftovers
  BY DEF NoOrphan
<1> QED
  BY <1>1, <1>2, <1>3, SessionTyping, PTL DEF Spec

-----------------------------------------------------------------------------
(* The platform knows what the agent can do before it hears it beat.          *)

\* Steps that publish nothing leave the order of the events alone.
LEMMA LeadsKept ==
    ASSUME Leads, UNCHANGED <<conn, proc, torn, seen, out>>
    PROVE  Leads'
BY DEF Leads, Led, CapabilitiesLead

\* Publishing does not overtake: what comes first in the queue stays first.
LEMMA LedPublish ==
    ASSUME SessionTypeOK, NEW m \in Messages, Publish(m), seen' = seen
    PROVE  /\ Led => Led'
           /\ \A i \in 1..Len(out') : \/ i \in 1..Len(out) /\ out'[i] = out[i]
                                      \/ i = Len(out) + 1 /\ out'[i] = m
           /\ Fits(m) /\ m.kind = "capabilities"
                /\ (\A i \in 1..Len(out) : out[i].kind # "heartbeat") => Led'
<1>1. Len(out) \in Nat
  BY Queues
<1>2. \/ ~Fits(m) /\ out' = out
      \/ /\ Fits(m) /\ Len(out') = Len(out) + 1
         /\ \A i \in 1..Len(out) : out'[i] = out[i]
         /\ out'[Len(out) + 1] = m
  BY PublishIs, Queues
<1>3. \A i \in 1..Len(out') : \/ i \in 1..Len(out) /\ out'[i] = out[i]
                              \/ i = Len(out) + 1 /\ out'[i] = m
  BY <1>1, <1>2
<1>4. \A i \in 1..Len(out) : i \in 1..Len(out') /\ \A j \in 1..i : out'[j] = out[j]
  BY <1>1, <1>2
<1>5. Led => Led'
  BY <1>4 DEF Led
<1>6. ASSUME Fits(m), m.kind = "capabilities", \A i \in 1..Len(out) : out[i].kind # "heartbeat"
      PROVE  Led'
  <2>1. Len(out) + 1 \in 1..Len(out') /\ out'[Len(out) + 1].kind = "capabilities"
    BY <1>1, <1>2, <1>6
  <2>2. \A j \in 1..(Len(out) + 1) : out'[j].kind # "heartbeat"
    BY <1>1, <1>2, <1>6
  <2> QED
    BY <2>1, <2>2 DEF Led
<1> QED
  BY <1>3, <1>5, <1>6

\* Sending the first message does not let a heartbeat overtake the capabilities.
LEMMA FlushLeads ==
    ASSUME SessionTypeOK, Leads, Flush
    PROVE  Leads'
<1>1. /\ out # <<>> /\ out' = Tail(out) /\ seen' = seen \union {Head(out).kind}
      /\ UNCHANGED <<conn, proc, torn>>
  BY DEF Flush
<1>2. /\ Len(out) \in Nat \ {0} /\ Len(out') = Len(out) - 1
      /\ \A i \in 1..(Len(out) - 1) : out'[i] = out[i + 1]
      /\ Head(out) = out[1]
  BY <1>1, Queues, TailIs
<1>3. 1 \in 1..Len(out) /\ \A i \in 1..Len(out') : i + 1 \in 1..Len(out) /\ out'[i] = out[i + 1]
  BY <1>2
<1>4. proc \in {"off", "boot", "start"} =>
         "heartbeat" \notin seen' /\ \A i \in 1..Len(out') : out'[i].kind # "heartbeat"
  BY <1>1, <1>2, <1>3 DEF Leads
<1>5. ASSUME Led, out[1].kind # "capabilities" PROVE Led'
  <2>1. CASE "capabilities" \in seen
    BY <1>1, <2>1 DEF Led
  <2>2. ASSUME NEW i \in 1..Len(out), out[i].kind = "capabilities",
               \A j \in 1..i : out[j].kind # "heartbeat"
        PROVE  Led'
    <3>1. i # 1 /\ i \in Nat
      BY <1>2, <1>5, <2>2
    <3>2. i - 1 \in 1..Len(out') /\ out'[i - 1] = out[i]
      BY <1>2, <3>1
    <3>3. \A j \in 1..(i - 1) : j + 1 \in 1..i /\ out'[j] = out[j + 1]
      BY <1>2, <3>1
    <3> QED
      BY <2>2, <3>2, <3>3 DEF Led
  <2> QED
    BY <1>5, <2>1, <2>2 DEF Led
<1>6. out[1].kind = "capabilities" => Led'
  BY <1>1, <1>2 DEF Led
<1>7. Led /\ out[1].kind = "heartbeat" => "capabilities" \in seen
  BY <1>2 DEF Led
<1>8. proc \in {"off", "boot", "start", "run", "drain"}
  BY DEF SessionTypeOK
<1>9. CapabilitiesLead'
  BY <1>1, <1>2, <1>3, <1>7, <1>8 DEF CapabilitiesLead, Leads
<1> QED
  BY <1>1, <1>4, <1>5, <1>6, <1>9 DEF Leads

\* In each run of the process the platform has the capabilities before the
\* first heartbeat, unless the connection was down in between: Start publishes
\* them before heartbeatLoop runs, and messages keep their order.
THEOREM CapabilitiesLeadAlways == Spec => []CapabilitiesLead
<1>1. Init => Leads
  <2>1. Init => Len(out) = 0
    BY EmptySeq DEF Init
  <2> QED
    BY <2>1 DEF Init, Leads, CapabilitiesLead
<1>2. SessionTypeOK /\ Leads /\ [Next]_vars => Leads'
  <2> SUFFICES ASSUME SessionTypeOK, Leads, [Next]_vars PROVE Leads'
    OBVIOUS
  <2>1. CASE UNCHANGED <<conn, proc, torn, seen, out>>
    BY <2>1, LeadsKept
  <2>2. CASE UNCHANGED session \/ UNCHANGED vars
    BY <2>1, <2>2 DEF session, vars
  <2>3. CASE Boot \/ Connect \/ Terminate \/ ServerBack \/ Reprovision
    <3>1. UNCHANGED <<torn, seen, out>>
      BY <2>3 DEF Boot, Connect, Terminate, ServerBack, Reprovision
    <3>2. conn' = conn \/ conn' = "up"
      BY <2>3 DEF Boot, Connect, Terminate, ServerBack, Reprovision
    <3>3. \/ proc' = proc
          \/ proc' \in {"off", "boot", "start"} /\ proc \in {"off", "boot"}
          \/ proc' = "drain" /\ proc = "run"
      BY <2>3 DEF Boot, Connect, Terminate, ServerBack, Reprovision
    <3> QED
      BY <3>1, <3>2, <3>3 DEF Leads, Led, CapabilitiesLead
  <2>4. CASE Start
    <3> DEFINE m == Event("capabilities")
    <3>1. m \in Messages /\ m.kind = "capabilities"
      BY DEF Event, Messages
    <3>2. Publish(m) /\ proc = "start" /\ proc' = "run" /\ UNCHANGED <<conn, seen, torn>>
      BY <2>4 DEF Start
    <3> HIDE DEF m
    <3>3. \A i \in 1..Len(out) : out[i].kind # "heartbeat"
      BY <3>2 DEF Leads
    <3>4. ~torn => Fits(m)
      BY <3>1, <3>2 DEF Leads, SessionTypeOK, Fits, TooLarge
    <3>5. ~torn => Led'
      BY <3>1, <3>2, <3>3, <3>4, LedPublish
    <3> QED
      BY <3>2, <3>5 DEF Leads, CapabilitiesLead
  <2>5. CASE sendHeartbeat
    <3> DEFINE m == Event("heartbeat")
    <3>1. m \in Messages
      BY DEF Event, Messages
    <3>2. /\ Publish(m) /\ proc \in {"run", "drain"}
          /\ UNCHANGED <<proc, conn, seen, torn>>
      BY <2>5 DEF sendHeartbeat, Beating
    <3>3. Led => Led'
      BY <3>1, <3>2, LedPublish
    <3> QED
      BY <3>2, <3>3 DEF Leads, CapabilitiesLead
  <2>6. ASSUME NEW m \in Messages, m.kind # "heartbeat", Publish(m),
               UNCHANGED <<proc, conn, seen, torn>>
        PROVE  Leads'
    <3>1. Led => Led'
      BY <2>6, LedPublish
    <3>2. \A i \in 1..Len(out') : \/ i \in 1..Len(out) /\ out'[i] = out[i]
                                  \/ i = Len(out) + 1 /\ out'[i] = m
      BY <2>6, LedPublish
    <3> QED
      BY <2>6, <3>1, <3>2 DEF Leads, CapabilitiesLead
  <2>7. CASE Take
    <3>1. UNCHANGED <<proc, conn, seen, torn>>
      BY <2>7 DEF Take
    <3>2. out' = out \/ Publish(Event("capabilities"))
      BY <2>7 DEF Take, SendCapabilities
    <3>3. Event("capabilities") \in Messages /\ Event("capabilities").kind # "heartbeat"
      BY DEF Event, Messages
    <3> QED
      BY <2>1, <2>6, <3>1, <3>2, <3>3
  <2>8. CASE Reply
    <3>1. Publish(Result(cur)) /\ UNCHANGED <<proc, conn, seen, torn>>
      BY <2>8 DEF Reply
    <3>2. cur \in Ids
      BY <2>8 DEF Reply, SessionTypeOK
    <3>3. Result(cur) \in Messages /\ Result(cur).kind # "heartbeat"
      BY <3>2 DEF Result, Messages
    <3> QED
      BY <2>6, <3>1, <3>3
  <2>9. CASE Flush
    BY <2>9, FlushLeads
  <2>10. CASE Reconnect
    <3>1. torn /\ torn' /\ UNCHANGED <<proc, seen>>
      BY <2>10 DEF Reconnect, Leads
    <3>2. out' = out \/ Len(out') = 0
      <4>1. out' = out \/ out' = <<>>
        BY <2>10 DEF Reconnect
      <4>2. Len(<<>>) = 0
        BY EmptySeq
      <4> QED
        BY <4>1, <4>2
    <3> QED
      BY <3>1, <3>2 DEF Leads, CapabilitiesLead
  <2>11. CASE \E id \in Ids, v1 \in BOOLEAN : Send(id, v1)
    BY <2>1, <2>11 DEF Send
  <2>12. ASSUME NEW k \in 0..Len(out), Disconnect(k) PROVE Leads'
    <3>1. torn' /\ UNCHANGED <<proc, seen>> /\ out' = SubSeq(out, k + 1, Len(out))
      BY <2>12 DEF Disconnect
    <3>2. Len(out) \in Nat /\ Len(out') = Len(out) - k
          /\ \A i \in 1..(Len(out) - k) : out'[i] = out[k + i]
      BY <3>1, Queues, CutIs
    <3>3. \A i \in 1..Len(out') : k + i \in 1..Len(out) /\ out'[i] = out[k + i]
      BY <3>2
    <3> QED
      BY <3>1, <3>3 DEF Leads, CapabilitiesLead
  <2>13. CASE Exit \/ Crash
    <3>1. proc' = "off" /\ conn' = "none" /\ out' = <<>> /\ seen' = {}
      BY <2>13 DEF Exit, Crash, Vanish
    <3>2. Len(out') = 0
      BY <3>1, EmptySeq
    <3> QED
      BY <3>1, <3>2 DEF Leads, CapabilitiesLead
  <2> QED
    BY <2>2, <2>3, <2>4, <2>5, <2>7, <2>8, <2>9, <2>10, <2>11, <2>12, <2>13
       DEF Next, Lifecycle, Handler, telemetryLoop
<1>3. Leads => CapabilitiesLead
  BY DEF Leads
<1> QED
  BY <1>1, <1>2, <1>3, SessionTyping, PTL DEF Spec

-----------------------------------------------------------------------------
(* Queues and their order.                                                    *)

Distinct(q) == \A i, j \in 1..Len(q) : q[i].id # None /\ i # j => q[i].id # q[j].id

\* Queues by position.
LEMMA ByPosition ==
    ASSUME NEW S, NEW q \in Seq(S)
    PROVE  /\ \A a : a \in IdsOf(q) <=> a # None /\ \E i \in 1..Len(q) : q[i].id = a
           /\ \A a : a \in Commands(q) <=> \E i \in 1..Len(q) : q[i].id = a /\ q[i].v1
           /\ \A a, b : Before(q, a, b) <=>
                 \E i, j \in 1..Len(q) : i < j /\ q[i].id = a /\ q[j].id = b
<1>1. DOMAIN q = 1..Len(q)
  BY LenProperties
<1>2. \A m : m \in Members(q) <=> \E i \in 1..Len(q) : q[i] = m
  BY <1>1 DEF Members
<1>3. \A a : a \in IdsOf(q) <=> a # None /\ \E i \in 1..Len(q) : q[i].id = a
  BY <1>2 DEF IdsOf
<1>4. \A a : a \in Commands(q) <=> \E i \in 1..Len(q) : q[i].id = a /\ q[i].v1
  BY <1>2 DEF Commands
<1>5. \A a, b : Before(q, a, b) <=>
         \E i, j \in 1..Len(q) : i < j /\ q[i].id = a /\ q[j].id = b
  BY <1>1 DEF Before
<1> QED
  BY <1>3, <1>4, <1>5

\* A message added to a queue comes after all of it.
LEMMA AppendOrder ==
    ASSUME NEW S, NEW q \in Seq(S), NEW m \in S
    PROVE  /\ IdsOf(Append(q, m)) = IdsOf(q) \union ({m.id} \ {None})
           /\ \A a : a \in Commands(Append(q, m)) <=> a \in Commands(q) \/ (a = m.id /\ m.v1)
           /\ \A a, b : a # None =>
                 (Before(Append(q, m), a, b) <=> Before(q, a, b) \/ (a \in IdsOf(q) /\ b = m.id))
<1> DEFINE r == Append(q, m)
           n == Len(q)
<1>1. n \in Nat
  BY LenProperties
<1>2. /\ r \in Seq(S) /\ Len(r) = n + 1
      /\ \A i \in 1..n : r[i] = q[i]
      /\ r[n + 1] = m
  BY AppendProperties
<1> HIDE DEF r, n
<1>3. \A i \in 1..Len(r) : i \in 1..n \/ i = n + 1
  BY <1>1, <1>2
<1>4. \A i \in 1..n : i \in 1..Len(r) /\ i < n + 1 /\ n + 1 \in 1..Len(r)
  BY <1>1, <1>2
<1>5. n + 1 \in 1..Len(r)
  BY <1>1, <1>2
<1>6. IdsOf(r) = IdsOf(q) \union ({m.id} \ {None})
  <2>1. \A a : a \in IdsOf(r) <=> a \in IdsOf(q) \/ (a = m.id /\ a # None)
    BY <1>2, <1>3, <1>4, <1>5, ByPosition DEF n
  <2> QED
    BY <2>1
<1>7. \A a : a \in Commands(r) <=> a \in Commands(q) \/ (a = m.id /\ m.v1)
  BY <1>2, <1>3, <1>4, <1>5, ByPosition DEF n
<1>8. ASSUME NEW a, NEW b, a # None
      PROVE  Before(r, a, b) <=> Before(q, a, b) \/ (a \in IdsOf(q) /\ b = m.id)
  <2>1. ASSUME Before(r, a, b) PROVE Before(q, a, b) \/ (a \in IdsOf(q) /\ b = m.id)
    <3>1. PICK i \in 1..Len(r), j \in 1..Len(r) : i < j /\ r[i].id = a /\ r[j].id = b
      BY <1>2, <2>1, ByPosition
    <3>2. i \in 1..n /\ (j \in 1..n \/ j = n + 1)
      BY <1>1, <1>2, <3>1
    <3> QED
      BY <1>2, <1>8, <3>1, <3>2, ByPosition DEF n
  <2>2. ASSUME Before(q, a, b) PROVE Before(r, a, b)
    BY <1>2, <1>4, <2>2, ByPosition DEF n
  <2>3. ASSUME a \in IdsOf(q), b = m.id PROVE Before(r, a, b)
    BY <1>2, <1>4, <2>3, ByPosition DEF n
  <2> QED
    BY <2>1, <2>2, <2>3
<1> QED
  BY <1>6, <1>7, <1>8 DEF r

\* The head of a queue comes before all the rest.
LEMMA TailOrder ==
    ASSUME NEW S, NEW q \in Seq(S), q # <<>>
    PROVE  /\ IdsOf(q) = IdsOf(Tail(q)) \union ({Head(q).id} \ {None})
           /\ \A a : a \in Commands(q) <=> a \in Commands(Tail(q)) \/ (a = Head(q).id /\ Head(q).v1)
           /\ \A a, b : b # None =>
                 (Before(q, a, b) <=> Before(Tail(q), a, b)
                                        \/ (a = Head(q).id /\ b \in IdsOf(Tail(q))))
<1> DEFINE r == Tail(q)
           n == Len(q)
<1>1. /\ r \in Seq(S) /\ n \in Nat \ {0} /\ Len(r) = n - 1
      /\ \A i \in 1..(n - 1) : r[i] = q[i + 1]
      /\ Head(q) = q[1]
  BY TailIs
<1> HIDE DEF r, n
<1>2. \A i \in 1..n : i = 1 \/ (i - 1 \in 1..Len(r) /\ r[i - 1] = q[i])
  <2> SUFFICES ASSUME NEW i \in 1..n, i # 1 PROVE i - 1 \in 1..Len(r) /\ r[i - 1] = q[i]
    OBVIOUS
  <2>1. i - 1 \in 1..(n - 1) /\ (i - 1) + 1 = i
    BY <1>1
  <2> QED
    BY <1>1, <2>1
<1>3. 1 \in 1..n /\ \A i \in 1..Len(r) : i + 1 \in 1..n /\ 1 < i + 1 /\ r[i] = q[i + 1]
  BY <1>1
<1>4. Members(q) = Members(r) \union {Head(q)}
  <2>1. DOMAIN q = 1..n /\ DOMAIN r = 1..Len(r)
    BY <1>1, LenProperties DEF n
  <2>2. ASSUME NEW i \in 1..n PROVE q[i] \in Members(r) \union {Head(q)}
    <3>1. CASE i = 1
      BY <1>1, <3>1
    <3>2. CASE i - 1 \in 1..Len(r) /\ r[i - 1] = q[i]
      BY <2>1, <3>2 DEF Members
    <3> QED
      BY <1>2, <3>1, <3>2
  <2>3. Members(r) \union {Head(q)} \subseteq Members(q)
    BY <1>1, <1>3, <2>1 DEF Members
  <2> QED
    BY <2>1, <2>2, <2>3 DEF Members
<1>5. /\ IdsOf(q) = IdsOf(r) \union ({Head(q).id} \ {None})
      /\ \A a : a \in Commands(q) <=> a \in Commands(r) \/ (a = Head(q).id /\ Head(q).v1)
  BY <1>4 DEF IdsOf, Commands
<1>6. ASSUME NEW a, NEW b, b # None
      PROVE  Before(q, a, b) <=> Before(r, a, b) \/ (a = Head(q).id /\ b \in IdsOf(r))
  <2>1. ASSUME Before(q, a, b) PROVE Before(r, a, b) \/ (a = Head(q).id /\ b \in IdsOf(r))
    <3>1. PICK i \in 1..n, j \in 1..n : i < j /\ q[i].id = a /\ q[j].id = b
      BY <2>1, ByPosition DEF n
    <3>2. j - 1 \in 1..Len(r) /\ r[j - 1] = q[j]
      BY <1>1, <1>2, <3>1
    <3>3. CASE i = 1
      BY <1>1, <1>6, <3>1, <3>2, <3>3, ByPosition
    <3>4. CASE i # 1
      <4>1. i - 1 \in 1..Len(r) /\ r[i - 1] = q[i] /\ i - 1 < j - 1
        BY <1>1, <1>2, <3>1, <3>4
      <4>2. \E x, y \in 1..Len(r) : x < y /\ r[x].id = a /\ r[y].id = b
        BY <3>1, <3>2, <4>1
      <4> QED
        BY <1>1, <4>2, ByPosition
    <3> QED
      BY <3>3, <3>4
  <2>2. ASSUME Before(r, a, b) PROVE Before(q, a, b)
    <3>1. PICK i \in 1..Len(r), j \in 1..Len(r) : i < j /\ r[i].id = a /\ r[j].id = b
      BY <1>1, <2>2, ByPosition
    <3>2. i + 1 \in 1..n /\ j + 1 \in 1..n /\ q[i + 1].id = a /\ q[j + 1].id = b
      BY <1>3, <3>1
    <3>3. i + 1 < j + 1
      BY <1>1, <3>1
    <3> QED
      BY <3>2, <3>3, ByPosition DEF n
  <2>3. ASSUME a = Head(q).id, b \in IdsOf(r) PROVE Before(q, a, b)
    <3>1. PICK j \in 1..Len(r) : r[j].id = b
      BY <1>1, <2>3, ByPosition
    <3>2. j + 1 \in 1..n /\ 1 \in 1..n /\ 1 < j + 1 /\ q[j + 1].id = b /\ q[1].id = a
      BY <1>1, <1>3, <2>3, <3>1
    <3> QED
      BY <3>2, ByPosition DEF n
  <2> QED
    BY <2>1, <2>2, <2>3
<1> QED
  BY <1>5, <1>6 DEF r

\* What is left of a queue when its first k messages go keeps its order.
LEMMA CutOrder ==
    ASSUME NEW S, NEW q \in Seq(S), Distinct(q), NEW k \in 0..Len(q)
    PROVE  /\ IdsOf(SubSeq(q, k + 1, Len(q))) \subseteq IdsOf(q)
           /\ \A a, b \in IdsOf(SubSeq(q, k + 1, Len(q))) :
                 Before(SubSeq(q, k + 1, Len(q)), a, b) <=> Before(q, a, b)
<1> DEFINE r == SubSeq(q, k + 1, Len(q))
           n == Len(q)
<1>1. n \in Nat /\ k \in 0..n
  BY LenProperties
<1>2. r \in Seq(S) /\ Len(r) = n - k /\ \A i \in 1..(n - k) : r[i] = q[k + i]
  BY CutIs
<1> HIDE DEF r, n
<1>3. \A i \in 1..Len(r) : k + i \in 1..n /\ r[i] = q[k + i]
  BY <1>1, <1>2
<1>4. IdsOf(r) \subseteq IdsOf(q)
  BY <1>2, <1>3, ByPosition DEF n
<1>5. ASSUME NEW a \in IdsOf(r), NEW b \in IdsOf(r) PROVE Before(r, a, b) <=> Before(q, a, b)
  <2>1. ASSUME Before(r, a, b) PROVE Before(q, a, b)
    <3>1. PICK i \in 1..Len(r), j \in 1..Len(r) : i < j /\ r[i].id = a /\ r[j].id = b
      BY <1>2, <2>1, ByPosition
    <3>2. k + i \in 1..n /\ k + j \in 1..n /\ q[k + i].id = a /\ q[k + j].id = b
      BY <1>3, <3>1
    <3>3. k + i < k + j
      BY <1>1, <1>2, <3>1
    <3> QED
      BY <3>2, <3>3, ByPosition DEF n
  <2>2. ASSUME Before(q, a, b) PROVE Before(r, a, b)
    <3>1. PICK i \in 1..n, j \in 1..n : i < j /\ q[i].id = a /\ q[j].id = b
      BY <2>2, ByPosition DEF n
    <3>2. PICK x \in 1..Len(r), y \in 1..Len(r) : r[x].id = a /\ r[y].id = b
      BY <1>2, ByPosition
    <3>3. a # None /\ b # None
      BY <1>2, ByPosition
    <3>4. k + x \in 1..n /\ k + y \in 1..n /\ q[k + x].id = a /\ q[k + y].id = b
      BY <1>3, <3>2
    <3>5. k + x = i /\ k + y = j
      BY <3>1, <3>3, <3>4 DEF Distinct, n
    <3>6. x < y
      BY <1>1, <1>2, <3>1, <3>5
    <3> QED
      BY <1>2, <3>2, <3>6, ByPosition
  <2> QED
    BY <2>1, <2>2
<1> QED
  BY <1>4, <1>5 DEF r

\* The three places a command may be in, as sets of ids.
LEMMA Apart ==
    ASSUME SessionInv
    PROVE  /\ out \in Seq(Messages) /\ inbox \in Seq(Waiting) /\ Distinct(out) /\ Distinct(inbox)
           /\ None \notin IdsOf(out) /\ None \notin IdsOf(inbox)
           /\ IdsOf(out) \intersect IdsOf(inbox) = {}
           /\ cur \notin IdsOf(out) /\ cur \notin IdsOf(inbox)
           /\ Commands(inbox) \subseteq IdsOf(inbox)
           /\ IdsOf(out) \subseteq sent \ got /\ IdsOf(inbox) \subseteq sent \ got
           /\ cur # None => cur \in sent \ got
           /\ \A a, b : Before(out, a, b) /\ a # None /\ b # None => a \in IdsOf(out) /\ b \in IdsOf(out)
           /\ \A a, b : Before(inbox, a, b) => a \in IdsOf(inbox) /\ b \in IdsOf(inbox)
           /\ \A a : a # None => ~Before(out, a, a)
           /\ \A a : ~Before(inbox, a, a)
           /\ sent \subseteq Ids
<1>1. /\ out \in Seq(Messages) /\ inbox \in Seq(Waiting) /\ Len(out) \in Nat /\ Len(inbox) \in Nat
      /\ \A i \in 1..Len(inbox) : inbox[i] \in Waiting
  BY Queues DEF SessionInv
<1>2. \A i \in 1..Len(inbox) : inbox[i].id # None
  BY <1>1 DEF Waiting
<1>3. Distinct(out)
  BY DEF SessionInv, Once, OutOnce, Distinct
<1>4. Distinct(inbox)
  BY DEF SessionInv, Once, InboxOnce, Distinct
<1>5. /\ None \notin IdsOf(out) /\ None \notin IdsOf(inbox)
      /\ IdsOf(out) \intersect IdsOf(inbox) = {}
      /\ cur \notin IdsOf(out) /\ cur \notin IdsOf(inbox)
      /\ IdsOf(out) \subseteq sent \ got /\ IdsOf(inbox) \subseteq sent \ got
  BY <1>1, ByPosition DEF SessionInv, Once, InboxOnce, OutOnce
<1>6. Commands(inbox) \subseteq IdsOf(inbox)
  BY <1>1, <1>2, ByPosition
<1>7. cur # None => cur \in sent \ got
  BY DEF SessionInv, Once, CurOnce
<1>8. \A a, b : Before(out, a, b) /\ a # None /\ b # None => a \in IdsOf(out) /\ b \in IdsOf(out)
  BY <1>1, ByPosition
<1>9. \A a, b : Before(inbox, a, b) => a \in IdsOf(inbox) /\ b \in IdsOf(inbox)
  BY <1>1, <1>2, ByPosition
<1>10. ASSUME NEW q, Distinct(q), Len(q) \in Nat, NEW a, a # None,
              \E i, j \in 1..Len(q) : i < j /\ q[i].id = a /\ q[j].id = a
       PROVE  FALSE
  <2>1. PICK i \in 1..Len(q), j \in 1..Len(q) : i < j /\ q[i].id = a /\ q[j].id = a
    BY <1>10
  <2>2. i # j
    BY <1>10, <2>1
  <2> QED
    BY <1>10, <2>1, <2>2 DEF Distinct
<1>11. \A a : a # None => ~Before(out, a, a)
  BY <1>1, <1>3, <1>10, ByPosition
<1>12. \A a : ~Before(inbox, a, a)
  <2>1. ASSUME NEW a, a # None, Before(inbox, a, a) PROVE FALSE
    <3>1. \E i, j \in 1..Len(inbox) : i < j /\ inbox[i].id = a /\ inbox[j].id = a
      BY <1>1, <2>1, ByPosition
    <3> QED
      BY <1>1, <1>4, <1>10, <2>1, <3>1
  <2> QED
    BY <1>5, <1>9, <2>1
<1>13. sent \subseteq Ids
  BY DEF SessionInv, SessionTypeOK
<1> QED
  BY <1>1, <1>3, <1>4, <1>5, <1>6, <1>7, <1>8, <1>9, <1>11, <1>12, <1>13

-----------------------------------------------------------------------------
(* The promise of AtMostOnce.                                                 *)

\* Commands that stay keep their order: no step of AtMostOnce is needed, or an
\* outage explains those that are gone.
LEMMA KeptOrder ==
    ASSUME Open' \subseteq Open, \A a, b \in Open' : Precedes(a, b)' <=> Precedes(a, b)
    PROVE  /\ Ahead' = [c \in Open' |-> Ahead[c] \intersect Open']
           /\ Open' = Open => Ahead' = Ahead
<1>1. Ahead' = [b \in Open' |-> {a \in Open' : Precedes(a, b)'}]
  BY DEF Ahead
<1>2. Ahead = [b \in Open |-> {a \in Open : Precedes(a, b)}]
  BY DEF Ahead
<1>3. \A b \in Open' : Ahead[b] \intersect Open' = {a \in Open' : Precedes(a, b)'}
  BY <1>2
<1>4. Ahead' = [c \in Open' |-> Ahead[c] \intersect Open']
  BY <1>1, <1>3
<1>5. ASSUME Open' = Open PROVE Ahead' = Ahead
  <2>1. \A b \in Open : {a \in Open' : Precedes(a, b)'} = {a \in Open : Precedes(a, b)}
    BY <1>5
  <2> QED
    BY <1>1, <1>2, <1>5, <2>1
<1> QED
  BY <1>4, <1>5

Kept == Open' = Open /\ \A a, b \in Open' : Precedes(a, b)' <=> Precedes(a, b)

\* A step that keeps the commands and their order is no step of AtMostOnce.
LEMMA StutterStep ==
    ASSUME Kept, UNCHANGED <<got, conn>>
    PROVE  UNCHANGED <<Ahead, got, (conn = "up")>>
BY KeptOrder DEF Kept

\* A step without a connection, before or after it, that only loses commands is
\* an outage of AtMostOnce.
LEMMA OutageStep ==
    ASSUME Open' \subseteq Open, \A a, b \in Open' : Precedes(a, b)' <=> Precedes(a, b),
           conn # "up" \/ conn' # "up", UNCHANGED got
    PROVE  Promise!Next
<1>1. Open' \in SUBSET DOMAIN Ahead
  BY DEF Ahead
<1>2. Ahead' = [c \in Open' |-> Ahead[c] \intersect Open']
  BY KeptOrder
<1> QED
  BY <1>1, <1>2 DEF Promise!Next, Promise!Outage, Promise!open

\* An event at the end of the queue is no command's answer.
LEMMA EventKept ==
    ASSUME SessionInv, NEW m \in Messages, m.id = None, Publish(m)
    PROVE  /\ IdsOf(out') = IdsOf(out)
           /\ \A a, b : a # None /\ b # None => (Before(out', a, b) <=> Before(out, a, b))
<1>1. out' = out \/ out' = Append(out, m)
  BY DEF Publish
<1>2. CASE out' = Append(out, m)
  <2>1. /\ IdsOf(out') = IdsOf(out) \union ({m.id} \ {None})
        /\ \A a, b : a # None =>
              (Before(out', a, b) <=> Before(out, a, b) \/ (a \in IdsOf(out) /\ b = m.id))
    BY <1>2, Apart, AppendOrder
  <2> QED
    BY <2>1
<1> QED
  BY <1>1, <1>2

\* A command on its way has an id and no answer yet.
LEMMA OpenIs ==
    ASSUME SessionInv
    PROVE  Open \subseteq Ids /\ None \notin Open /\ Open \intersect got = {}
BY Apart DEF Open

\* The messages to send may change in what is no answer.
LEMMA SameOrder ==
    ASSUME SessionInv, UNCHANGED <<inbox, cur>>, IdsOf(out') = IdsOf(out),
           \A a, b : a # None /\ b # None => (Before(out', a, b) <=> Before(out, a, b))
    PROVE  Kept
<1>1. Open' = Open
  BY DEF Open
<1>2. None \notin Open
  BY OpenIs
<1> QED
  BY <1>1, <1>2 DEF Kept, Precedes

\* Publishing an event leaves the commands alone.
LEMMA EventPromise ==
    ASSUME SessionInv, Start \/ sendHeartbeat
    PROVE  UNCHANGED <<Ahead, got, (conn = "up")>>
<1>1. UNCHANGED <<inbox, cur, got, conn>>
  BY DEF Start, sendHeartbeat
<1>2. PICK m \in Messages : m.id = None /\ Publish(m)
  BY DEF Start, sendHeartbeat, Event, Messages
<1>3. Kept
  BY <1>1, <1>2, EventKept, SameOrder
<1> QED
  BY <1>1, <1>3, StutterStep

\* A command that finds the subscription joins the end of the queue; another
\* message never counts.
LEMMA SendPromise ==
    ASSUME SessionInv, NEW id \in Ids, NEW v1 \in BOOLEAN, Send(id, v1)
    PROVE  [Promise!Next]_<<Ahead, got, (conn = "up")>>
<1> DEFINE m == [id |-> id, v1 |-> v1]
<1>1. id \notin sent /\ UNCHANGED <<cur, out, got, conn>>
  BY DEF Send
<1>2. id # None /\ id # cur /\ id \notin Open /\ id \notin IdsOf(out) /\ id \notin IdsOf(inbox)
  BY <1>1, Apart DEF Open
<1>3. CASE inbox' = inbox
  BY <1>1, <1>3, SameOrder, StutterStep
<1>4. CASE conn = "up" /\ inbox' = Append(inbox, m)
  <2>1. m \in Waiting /\ m.id = id /\ m.v1 = v1
    BY DEF Waiting
  <2> HIDE DEF m
  <2>2. /\ IdsOf(inbox') = IdsOf(inbox) \union {id}
        /\ \A a : a \in Commands(inbox') <=> a \in Commands(inbox) \/ (a = id /\ v1)
        /\ \A a, b : a # None =>
              (Before(inbox', a, b) <=> Before(inbox, a, b) \/ (a \in IdsOf(inbox) /\ b = id))
    BY <1>2, <1>4, <2>1, Apart, AppendOrder
  <2>3. \A a, b \in Open : Precedes(a, b)' <=> Precedes(a, b)
    BY <1>1, <1>2, <2>2, OpenIs DEF Precedes
  <2>4. CASE ~v1
    <3>1. Open' = Open
      BY <1>1, <2>2, <2>4 DEF Open
    <3> QED
      BY <1>1, <2>3, <3>1, StutterStep DEF Kept
  <2>5. CASE v1
    <3>1. Open' = Open \union {id}
      BY <1>1, <2>2, <2>5 DEF Open
    <3>2. \A a \in Open : Precedes(a, id)'
      <4> SUFFICES ASSUME NEW a \in Open PROVE Precedes(a, id)'
        OBVIOUS
      <4>1. CASE a \in IdsOf(out)
        BY <1>1, <1>2, <4>1 DEF Precedes
      <4>2. CASE a = cur
        BY <1>1, <2>2, <4>2 DEF Precedes
      <4>3. CASE a \in IdsOf(inbox)
        BY <2>2, <4>3, OpenIs DEF Precedes
      <4> QED
        BY <4>1, <4>2, <4>3, Apart DEF Open
    <3>3. \A b \in Open \union {id} : ~Precedes(id, b)'
      BY <1>1, <1>2, <2>2, Apart, OpenIs DEF Precedes
    <3>4. Ahead' = [c \in Open \union {id} |-> IF c = id THEN Open ELSE Ahead[c]]
      <4>1. Ahead' = [b \in Open' |-> {a \in Open' : Precedes(a, b)'}]
        BY DEF Ahead
      <4>2. Ahead = [b \in Open |-> {a \in Open : Precedes(a, b)}]
        BY DEF Ahead
      <4>3. {a \in Open' : Precedes(a, id)'} = Open
        BY <3>1, <3>2, <3>3
      <4>4. \A b \in Open : {a \in Open' : Precedes(a, b)'} = {a \in Open : Precedes(a, b)}
        BY <2>3, <3>1, <3>3
      <4> QED
        BY <1>2, <3>1, <4>1, <4>2, <4>3, <4>4
    <3>5. id \notin got /\ DOMAIN Ahead = Open
      BY <1>1 DEF SessionInv, SessionTypeOK, Ahead
    <3>6. Promise!Accept(id)
      BY <1>1, <1>2, <1>4, <3>4, <3>5 DEF Promise!Accept, Promise!open
    <3> QED
      BY <3>6 DEF Promise!Next
  <2> QED
    BY <2>4, <2>5
<1> QED
  BY <1>3, <1>4 DEF Send

\* A command taken from the inbox is still ahead of the rest of it.
LEMMA TakePromise ==
    ASSUME SessionInv, Take
    PROVE  UNCHANGED <<Ahead, got, (conn = "up")>>
<1> DEFINE h == Head(inbox)
<1>1. inbox # <<>> /\ inbox' = Tail(inbox) /\ cur = None /\ UNCHANGED <<got, conn>>
  BY DEF Take, SessionInv, SessionTypeOK
<1>2. /\ IdsOf(inbox) = IdsOf(inbox') \union ({h.id} \ {None})
      /\ \A a : a \in Commands(inbox) <=> a \in Commands(inbox') \/ (a = h.id /\ h.v1)
      /\ \A a, b : b # None =>
            (Before(inbox, a, b) <=> Before(inbox', a, b) \/ (a = h.id /\ b \in IdsOf(inbox')))
  BY <1>1, Apart, TailOrder
<1>3. h.id \in IdsOf(inbox) /\ h.id # None /\ h.id \notin IdsOf(inbox')
  <2>1. h \in Waiting
    BY <1>1, Apart, TailIs
  <2>2. h.id # None
    BY <2>1 DEF Waiting
  <2>3. ~Before(inbox, h.id, h.id)
    BY Apart
  <2> QED
    BY <1>2, <2>2, <2>3
<1>4. IdsOf(out') = IdsOf(out) /\ \A a, b : a # None /\ b # None => (Before(out', a, b) <=> Before(out, a, b))
  <2>1. out' = out \/ \E m \in Messages : m.id = None /\ Publish(m)
    <3>1. Event("capabilities") \in Messages /\ Event("capabilities").id = None
      BY DEF Event, Messages
    <3> QED
      BY <3>1 DEF Take, SendCapabilities
  <2> QED
    BY <2>1, EventKept
<1>5. /\ Readable(h) => cur' = h.id
      /\ ~Readable(h) => cur' = None
  BY <1>1 DEF Take
<1>6. Readable(h) <=> h.v1
  BY DEF Readable
<1> HIDE DEF h
<1>7. h.id \notin IdsOf(out)
  BY <1>3, Apart
<1>8. CASE h.v1
  <2>1. cur' = h.id
    BY <1>5, <1>6, <1>8
  <2>2. Open' = Open
    BY <1>1, <1>2, <1>3, <1>4, <1>8, <2>1 DEF Open
  <2>3. \A a, b \in Open : Precedes(a, b)' <=> Precedes(a, b)
    BY <1>1, <1>2, <1>4, <2>1, OpenIs DEF Precedes
  <2> QED
    BY <1>1, <2>2, <2>3, StutterStep DEF Kept
<1>9. CASE ~h.v1
  <2>1. cur' = None
    BY <1>5, <1>6, <1>9
  <2>2. Open' = Open
    BY <1>1, <1>2, <1>4, <1>9, <2>1 DEF Open
  <2>3. h.id \notin Open
    <3>1. h.id \notin Commands(inbox')
      <4>1. inbox' \in Seq(Waiting)
        BY TakeOnce
      <4> QED
        BY <1>3, <4>1, ByPosition
    <3> QED
      BY <1>1, <1>2, <1>3, <1>7, <1>9, <3>1 DEF Open
  <2>4. \A a, b \in Open : Precedes(a, b)' <=> Precedes(a, b)
    BY <1>1, <1>2, <1>4, <2>1, <2>3, OpenIs DEF Precedes
  <2> QED
    BY <1>1, <2>2, <2>4, StutterStep DEF Kept
<1> QED
  BY <1>8, <1>9

\* The answer to the command in hand comes after the other answers and before
\* those to the commands in the inbox; it is dropped only without a connection
\* or when it is too large.
LEMMA ReplyPromise ==
    ASSUME SessionInv, Reply
    PROVE  [Promise!Next]_<<Ahead, got, (conn = "up")>>
<1>1. /\ cur # None /\ cur \in Ids /\ cur' = None
      /\ out' = IF Fits(Result(cur)) THEN Append(out, Result(cur)) ELSE out
      /\ UNCHANGED <<inbox, got, conn>>
  BY DEF Reply, Publish, SessionInv, SessionTypeOK
<1>2. Result(cur) \in Messages /\ Result(cur).id = cur
  BY <1>1 DEF Result, Messages
<1>3. CASE Fits(Result(cur))
  <2>1. /\ IdsOf(out') = IdsOf(out) \union {cur}
        /\ \A a, b : a # None =>
              (Before(out', a, b) <=> Before(out, a, b) \/ (a \in IdsOf(out) /\ b = cur))
    BY <1>1, <1>2, <1>3, Apart, AppendOrder
  <2>2. Open' = Open
    BY <1>1, <2>1 DEF Open
  <2>3. \A a, b \in Open : Precedes(a, b)' <=> Precedes(a, b)
    <3> SUFFICES ASSUME NEW a \in Open, NEW b \in Open
                 PROVE  Precedes(a, b)' <=> Precedes(a, b)
      OBVIOUS
    <3>1. a # None /\ b # None
      BY OpenIs
    <3>2. Precedes(a, b)' <=>
             \/ Before(out, a, b) \/ (a \in IdsOf(out) /\ b = cur)
             \/ (a \in IdsOf(out) \/ a = cur) /\ b \notin IdsOf(out) /\ b # cur
             \/ Before(inbox, a, b)
      BY <1>1, <2>1, <3>1 DEF Precedes
    <3>3. b \notin IdsOf(out) /\ b # cur <=> b \in IdsOf(inbox)
      BY Apart DEF Open
    <3>4. cur \notin IdsOf(out)
      BY Apart
    <3> QED
      BY <3>2, <3>3, <3>4 DEF Precedes
  <2> QED
    BY <1>1, <2>2, <2>3, StutterStep DEF Kept
<1>4. CASE ~Fits(Result(cur))
  <2>1. (conn # "up" \/ cur \in Large) /\ out' = out
    BY <1>1, <1>2, <1>4 DEF Fits, TooLarge
  <2>2. Open' = Open \ {cur} /\ cur \in Open
    BY <1>1, <2>1, Apart DEF Open
  <2>3. \A a, b \in Open' : Precedes(a, b)' <=> Precedes(a, b)
    BY <1>1, <2>1, <2>2, OpenIs DEF Precedes
  <2>4. CASE conn # "up"
    BY <1>1, <2>2, <2>3, <2>4, OutageStep
  <2>5. CASE conn = "up" /\ cur \in Large
    <3>1. DOMAIN Ahead = Open
      BY DEF Ahead
    <3>2. Ahead' = [c \in Open \ {cur} |-> Ahead[c] \intersect (Open \ {cur})]
      BY <2>2, <2>3, KeptOrder
    <3>3. \A c \in Open : Ahead[c] \subseteq Open
      BY DEF Ahead
    <3>4. Ahead' = [c \in Open \ {cur} |-> Ahead[c] \ {cur}]
      BY <3>2, <3>3
    <3>5. Promise!Drop(cur)
      BY <1>1, <2>2, <2>5, <3>1, <3>4 DEF Promise!Drop, Promise!open
    <3> QED
      BY <1>1, <3>5 DEF Promise!Next
  <2> QED
    BY <2>1, <2>4, <2>5
<1> QED
  BY <1>3, <1>4

\* What is sent first is the answer to the first command, or an event.
LEMMA FlushPromise ==
    ASSUME SessionInv, Flush
    PROVE  [Promise!Next]_<<Ahead, got, (conn = "up")>>
<1> DEFINE id == Head(out).id
<1>1. /\ conn = "up" /\ out # <<>> /\ out' = Tail(out) /\ got' = got \union ({id} \ {None})
      /\ UNCHANGED <<inbox, cur, conn>>
  BY DEF Flush
<1>2. /\ IdsOf(out) = IdsOf(out') \union ({id} \ {None})
      /\ \A a, b : b # None =>
            (Before(out, a, b) <=> Before(out', a, b) \/ (a = id /\ b \in IdsOf(out')))
  BY <1>1, Apart, TailOrder
<1> HIDE DEF id
<1>3. CASE id = None
  <2>1. IdsOf(out') = IdsOf(out) /\ got' = got
    BY <1>1, <1>2, <1>3
  <2>2. \A a, b : a # None /\ b # None => (Before(out', a, b) <=> Before(out, a, b))
    BY <1>2, <1>3
  <2> QED
    BY <1>1, <2>1, <2>2, SameOrder, StutterStep
<1>4. CASE id # None
  <2>1. id \in IdsOf(out) /\ id \notin IdsOf(out') /\ id \in Open
    <3>1. ~Before(out, id, id)
      BY <1>4, Apart
    <3> QED
      BY <1>2, <1>4, <3>1 DEF Open
  <2>2. Open' = Open \ {id}
    BY <1>1, <1>2, <2>1, Apart DEF Open
  <2>3. \A a \in Open : ~Precedes(a, id)
    <3> SUFFICES ASSUME NEW a \in Open, Precedes(a, id) PROVE FALSE
      OBVIOUS
    <3>1. a # None
      BY OpenIs
    <3>2. CASE Before(out, a, id)
      <4>1. Before(out', a, id)
        BY <1>2, <1>4, <2>1, <3>2
      <4>2. out' \in Seq(Messages)
        BY FlushOnce
      <4>3. id \in IdsOf(out')
        BY <1>4, <4>1, <4>2, ByPosition
      <4> QED
        BY <2>1, <4>3
    <3>3. CASE Before(inbox, a, id) \/ id \in IdsOf(inbox)
      BY <2>1, <3>3, Apart
    <3> QED
      BY <2>1, <3>2, <3>3 DEF Precedes
  <2>4. \A a, b \in Open' : Precedes(a, b)' <=> Precedes(a, b)
    BY <1>1, <1>2, <2>2, OpenIs DEF Precedes
  <2>5. Ahead' = [c \in Open' |-> Ahead[c] \intersect Open']
    BY <2>2, <2>4, KeptOrder
  <2>6. /\ DOMAIN Ahead = Open /\ Ahead[id] = {}
        /\ \A c \in Open : Ahead[c] \subseteq Open
    BY <2>1, <2>3 DEF Ahead
  <2>7. Ahead' = [c \in Open \ {id} |-> Ahead[c] \ {id}]
    <3>1. \A c \in Open' : Ahead[c] \intersect Open' = Ahead[c] \ {id}
      BY <2>2, <2>6
    <3> QED
      BY <2>2, <2>5, <3>1
  <2>8. got' = got \union {id}
    BY <1>1, <1>4
  <2>9. Promise!Answer(id)
    BY <1>1, <2>1, <2>6, <2>7, <2>8 DEF Promise!Answer, Promise!open
  <2>10. id \in Ids
    BY <2>1, OpenIs
  <2> QED
    BY <2>9, <2>10 DEF Promise!Next
<1> QED
  BY <1>3, <1>4

\* An outage takes the first answers; those that stay keep their order.
LEMMA DisconnectPromise ==
    ASSUME SessionInv, NEW k \in 0..Len(out), Disconnect(k)
    PROVE  Promise!Next
<1>1. /\ conn' = "down" /\ out' = SubSeq(out, k + 1, Len(out)) /\ UNCHANGED <<inbox, cur, got>>
  BY DEF Disconnect
<1>2. /\ IdsOf(out') \subseteq IdsOf(out)
      /\ \A a, b \in IdsOf(out') : Before(out', a, b) <=> Before(out, a, b)
  BY <1>1, Apart, CutOrder
<1>3. Open' \subseteq Open
  BY <1>1, <1>2 DEF Open
<1>4. \A a \in Open' : a \in IdsOf(out') <=> a \in IdsOf(out)
  BY <1>1, <1>2, Apart DEF Open
<1>5. \A a, b \in Open' : Before(out', a, b) <=> Before(out, a, b)
  <2>1. \A a, b : Before(out', a, b) /\ a # None /\ b # None => a \in IdsOf(out') /\ b \in IdsOf(out')
    BY DisconnectOnce, ByPosition
  <2> QED
    BY <1>2, <1>3, <1>4, <2>1, Apart, OpenIs
<1>6. \A a, b \in Open' : Precedes(a, b)' <=> Precedes(a, b)
  BY <1>1, <1>4, <1>5 DEF Precedes
<1> QED
  BY <1>1, <1>3, <1>6, OutageStep

\* An empty queue.
LEMMA EmptyOrder == IdsOf(<<>>) = {} /\ Commands(<<>>) = {} /\ \A a, b : ~Before(<<>>, a, b)
<1>1. <<>> \in Seq(Messages) /\ Len(<<>>) = 0
  BY EmptySeq
<1>2. 1..Len(<<>>) = {}
  BY <1>1
<1> QED
  BY <1>1, <1>2, ByPosition

\* A connection that is closed for v1 takes all answers with it.
LEMMA ReconnectPromise ==
    ASSUME SessionInv, Reconnect
    PROVE  Promise!Next
<1>1. conn = "down" /\ UNCHANGED <<inbox, cur, got>>
  BY DEF Reconnect
<1>2. CASE out' = out
  <2>1. Kept
    BY <1>1, <1>2, SameOrder
  <2> QED
    BY <1>1, <2>1, OutageStep DEF Kept
<1>3. CASE out' = <<>>
  <2>1. IdsOf(out') = {} /\ \A a, b : ~Before(out', a, b)
    BY <1>3, EmptyOrder
  <2>2. Open' \subseteq Open \ IdsOf(out)
    BY <1>1, <2>1, Apart DEF Open
  <2>3. \A a, b \in Open' : Precedes(a, b)' <=> Precedes(a, b)
    BY <1>1, <2>1, <2>2, Apart, OpenIs DEF Precedes
  <2> QED
    BY <1>1, <2>2, <2>3, OutageStep
<1> QED
  BY <1>2, <1>3 DEF Reconnect

\* With the process everything is gone.
LEMMA VanishPromise ==
    ASSUME Vanish
    PROVE  Promise!Next
<1>1. /\ inbox' = <<>> /\ cur' = None /\ out' = <<>> /\ conn' = "none" /\ UNCHANGED got
  BY DEF Vanish
<1>2. Open' = {}
  BY <1>1, EmptyOrder DEF Open
<1> QED
  BY <1>1, <1>2, OutageStep

\* The agent keeps the promise of AtMostOnce, for any number of commands, any
\* limits and any faults: a command that reached it is answered at most once
\* and in order, a message that cannot be read never, and answers are lost only
\* while the connection is down, comes or goes, or because they exceed the
\* server's max_payload (Subscribe, Dispatch, Publish).
THEOREM PromiseIsKept == Spec => PromiseKept
<1>1. Init => Promise!Init
  <2> SUFFICES ASSUME Init PROVE Promise!Init
    OBVIOUS
  <2>1. inbox = <<>> /\ out = <<>> /\ cur = None /\ got = {} /\ conn = "none"
    BY DEF Init
  <2>2. IdsOf(out) = {} /\ Commands(inbox) = {}
    BY <2>1, EmptyOrder
  <2>3. Open = {}
    BY <2>1, <2>2 DEF Open
  <2>4. Ahead = [id \in {} |-> {}]
    BY <2>3 DEF Ahead
  <2> QED
    BY <2>1, <2>4 DEF Promise!Init
<1>2. SessionInv /\ [Next]_vars => [Promise!Next]_<<Ahead, got, (conn = "up")>>
  <2> SUFFICES ASSUME SessionInv, [Next]_vars
               PROVE  [Promise!Next]_<<Ahead, got, (conn = "up")>>
    OBVIOUS
  <2>1. ASSUME UNCHANGED <<inbox, cur, out, got, conn>>
        PROVE  UNCHANGED <<Ahead, got, (conn = "up")>>
    BY <2>1, SameOrder, StutterStep
  <2>2. CASE Boot \/ Terminate \/ ServerBack \/ Reprovision
    BY <2>1, <2>2 DEF Boot, Terminate, ServerBack, Reprovision
  <2>3. CASE Connect
    <3>1. conn = "none" /\ UNCHANGED <<inbox, cur, out, got>>
      BY <2>3 DEF Connect, SessionInv, SessionTypeOK
    <3>2. Kept
      BY <3>1, SameOrder
    <3> QED
      BY <3>1, <3>2, OutageStep DEF Kept
  <2>4. CASE Start \/ sendHeartbeat
    BY <2>4, EventPromise
  <2>5. CASE Take \/ Reply
    BY <2>5, TakePromise, ReplyPromise
  <2>6. ASSUME NEW id \in Ids, NEW v1 \in BOOLEAN, Send(id, v1)
        PROVE  [Promise!Next]_<<Ahead, got, (conn = "up")>>
    BY <2>6, SendPromise
  <2>7. CASE Flush \/ Reconnect \/ \E k \in 0..Len(out) : Disconnect(k)
    BY <2>7, FlushPromise, ReconnectPromise, DisconnectPromise
  <2>8. CASE Exit \/ Crash
    BY <2>8, VanishPromise DEF Exit, Crash
  <2>9. CASE UNCHANGED session \/ UNCHANGED vars
    BY <2>1, <2>9 DEF vars, session
  <2> QED
    BY <2>2, <2>3, <2>4, <2>5, <2>6, <2>7, <2>8, <2>9
       DEF Next, Lifecycle, Handler, telemetryLoop
<1> QED
  BY <1>1, <1>2, SessionInvariance, PTL DEF Spec, PromiseKept, Promise!Spec
=============================================================================
