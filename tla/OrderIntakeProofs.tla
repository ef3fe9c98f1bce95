------------------------- MODULE OrderIntakeProofs -------------------------
(***************************************************************************)
(* Proofs about OrderIntake, for any number of tabs, workers, rounds and   *)
(* taps, guests' rounds among them, and any number of losses and deaths:   *)
(* what is stored has its type, answers find their calls, a round keyed in *)
(* by staff is billed once and owned when it is confirmed, the outbox      *)
(* keeps faith, and one tab bills nothing twice unless a call fails.       *)
(*                                                                         *)
(* The invariant of the first part is TypeOK /\ IntakeInv.  A staff        *)
(* round's count is tied to the order with its key (KeysInv); that needs   *)
(* to know what a handler has found out (StagesInv); that a confirmation   *)
(* is one of the right round needs that answers reach their calls          *)
(* (AnswersTheCall).                                                       *)
(*                                                                         *)
(* The outbox is about DrainInv: an answer is a verdict (JudgedInv), a     *)
(* place in the queue is given once (PlacesInv), and what a listing has    *)
(* and the outbox has not was judged meanwhile (ListingInv).  With the     *)
(* rate limit and two tabs this fails: a 429 is no verdict, and a tab that *)
(* loses a call puts back what the other has removed for a 429.            *)
(*                                                                         *)
(* The last part is about OnceInv: while nothing has failed a request is   *)
(* in one place, and has not been carried out before it is answered.       *)
(***************************************************************************)
EXTENDS OrderIntake, FiniteSetTheorems, TLAPS

IInv == TypeOK /\ IntakeInv

LEMMA ClientsOfTabs ==
  ASSUME NEW t \in Tabs
  PROVE  <<t, "submit">> \in Clients /\ <<t, "flush">> \in Clients
BY DEF Clients

\* The requests a flush lists are requests, and there is a first.
LEMMA ListingIsASequence ==
  ASSUME IInv, outbox # {}, NEW q, Pending(q)
  PROVE  q[1] \in Requests /\ Tail(q) \in Seq(Requests)
<1>1. outbox \subseteq Requests
  BY DEF IInv, TypeOK
<1>2. IsFiniteSet(outbox)
  BY <1>1, IntakeIds, FS_Subset
<1>3. Cardinality(outbox) \in Nat /\ Cardinality(outbox) # 0
  BY <1>2, FS_CardinalityType, FS_EmptySet
<1>4. q \in [1 .. Cardinality(outbox) -> Requests]
  BY <1>1 DEF Pending
<1>5. q \in Seq(Requests) /\ Len(q) = Cardinality(outbox) /\ q # <<>>
  BY <1>3, <1>4
<1> QED BY <1>3, <1>4, <1>5

\* The place enqueue gives is a number.
LEMMA EnqueueType ==
  ASSUME IInv, NEW r \in Requests, Enqueue(r)
  PROVE  outbox' \subseteq Requests /\ queuedAt' \in [Requests -> Nat]
<1> DEFINE placed == {q \in Requests : queuedAt[q] > 0}
<1>1. IsFiniteSet(placed)
  BY IntakeIds, FS_Subset
<1>2. Cardinality(placed) \in Nat
  BY <1>1, FS_CardinalityType
<1> QED BY <1>2 DEF IInv, TypeOK, Enqueue

\* A client that has its answer has made a call.
LEMMA AnsweredHasCalled ==
  ASSUME IInv, NEW c \in Clients, answer[c] # "none"
  PROVE  call[c] \in Requests
<1>1. call[c] # None
  BY DEF IInv, IntakeInv, AnswersTheCall
<1> QED BY <1>1 DEF IInv, TypeOK

LEMMA DialType ==
  ASSUME IInv, NEW c \in Clients, NEW r \in Requests, Dial(c, r)
  PROVE  /\ call' \in [Clients -> Requests \union {None}]
         /\ answer' \in [Clients -> Answers \union {"none"}]
         /\ wire' \subseteq Message
<1>1. [req |-> r, client |-> c] \in Message
  BY DEF Message
<1> QED BY <1>1 DEF Dial, IInv, TypeOK

LEMMA HangUpType ==
  ASSUME IInv, NEW c \in Clients, HangUp(c)
  PROVE  /\ call' \in [Clients -> Requests \union {None}]
         /\ answer' \in [Clients -> Answers \union {"none"}]
BY DEF HangUp, IInv, TypeOK

LEMMA InitHolds == Init => IInv
<1> SUFFICES ASSUME Init PROVE IInv
  OBVIOUS
<1>1. TypeOK
  BY IntakeIds, IntakeBounds DEF Init, TypeOK, NoTask, Task, Stages, Message, Answers
<1>2. AnswersTheCall
  BY DEF Init, AnswersTheCall, NoTask
<1>3. StagesInv
  BY DEF Init, StagesInv, NoTask
<1>4. KeysInv
  BY DEF Init, KeysInv, Keyed, Requests
<1>5. ConfirmedInv
  BY DEF Init, ConfirmedInv
<1> QED BY <1>1, <1>2, <1>3, <1>4, <1>5 DEF IInv, IntakeInv

-----------------------------------------------------------------------------
\* Type correctness.

LEMMA TypeOfDevice ==
  ASSUME IInv,
         \/ \E t \in Tabs : \/ Device(t)
                            \/ \E r \in Requests : SubmitOffline(t, r) \/ SubmitOnline(t, r)
         \/ \E c \in Clients : NetworkFails(c)
         \/ \E m \in wire : TurnedAway(m)
  PROVE  TypeOK'
<1>1. ASSUME NEW t \in Tabs, NEW r \in Requests, SubmitOffline(t, r)
      PROVE  TypeOK'
  <2>1. tapped' \in [Lines -> Taps \union {None}]
    BY <1>1, IntakeRequests DEF SubmitOffline, Remembers, IInv, TypeOK
  <2> QED BY <1>1, <2>1, EnqueueType
          DEF SubmitOffline, IInv, TypeOK, network, server, tables
<1>2. ASSUME NEW t \in Tabs, NEW r \in Requests, SubmitOnline(t, r)
      PROVE  TypeOK'
  <2>1. tapped' \in [Lines -> Taps \union {None}]
    BY <1>2, IntakeRequests DEF SubmitOnline, Remembers, IInv, TypeOK
  <2> QED BY <1>2, <2>1, ClientsOfTabs, DialType
          DEF SubmitOnline, IInv, TypeOK, server, tables
<1>3. ASSUME NEW t \in Tabs, FlushStart(t) PROVE TypeOK'
  <2>1. PICK q : /\ Pending(q) /\ outbox # {}
                 /\ Dial(<<t, "flush">>, q[1])
                 /\ todo' = [todo EXCEPT ![t] = Tail(q)]
    BY <1>3 DEF FlushStart
  <2>2. q[1] \in Requests /\ Tail(q) \in Seq(Requests)
    BY <2>1, ListingIsASequence
  <2>3. UNCHANGED <<outbox, queuedAt, tapped, losses, limited, spurned, server>>
    BY <1>3 DEF FlushStart
  <2>4. todo' \in [Tabs -> Seq(Requests)]
    BY <2>1, <2>2 DEF IInv, TypeOK
  <2> QED BY <2>1, <2>2, <2>3, <2>4, ClientsOfTabs, DialType
          DEF IInv, TypeOK, server, tables
<1>4. ASSUME NEW t \in Tabs, FlushNext(t) PROVE TypeOK'
  <2>1. Head(todo[t]) \in Requests /\ Tail(todo[t]) \in Seq(Requests)
    BY <1>4 DEF FlushNext, IInv, TypeOK
  <2>2. todo' \in [Tabs -> Seq(Requests)]
    BY <1>4, <2>1 DEF FlushNext, IInv, TypeOK
  <2> QED BY <1>4, <2>1, <2>2, ClientsOfTabs, DialType
          DEF FlushNext, IInv, TypeOK, server, tables
<1>5. ASSUME NEW t \in Tabs, SubmitAnswered(t) PROVE TypeOK'
  <2>1. call[<<t, "submit">>] \in Requests
    BY <1>5, ClientsOfTabs, AnsweredHasCalled DEF SubmitAnswered
  <2>2. UNCHANGED <<outbox, queuedAt>> \/ Enqueue(call[<<t, "submit">>])
    BY <1>5 DEF SubmitAnswered
  <2>3. outbox' \subseteq Requests /\ queuedAt' \in [Requests -> Nat]
    BY <2>1, <2>2, EnqueueType DEF IInv, TypeOK
  <2>4. /\ HangUp(<<t, "submit">>)
        /\ UNCHANGED <<todo, tapped, network, server>>
    BY <1>5 DEF SubmitAnswered
  <2> QED BY <2>3, <2>4, ClientsOfTabs, HangUpType
          DEF IInv, TypeOK, network, server, tables
<1>6. ASSUME NEW t \in Tabs, FlushAnswered(t) PROVE TypeOK'
  <2>1. call[<<t, "flush">>] \in Requests
    BY <1>6, ClientsOfTabs, AnsweredHasCalled DEF FlushAnswered
  <2>2. Rest(t, answer[<<t, "flush">>]) \in Seq(Requests)
    BY DEF Rest, IInv, TypeOK
  <2>3. /\ HangUp(<<t, "flush">>)
        /\ outbox' \subseteq outbox \union {call[<<t, "flush">>]}
        /\ todo' = [todo EXCEPT ![t] = Rest(t, answer[<<t, "flush">>])]
        /\ UNCHANGED <<queuedAt, tapped, network, server>>
    BY <1>6 DEF FlushAnswered
  <2>4. todo' \in [Tabs -> Seq(Requests)]
    BY <2>2, <2>3 DEF IInv, TypeOK
  <2> QED BY <2>1, <2>3, <2>4, ClientsOfTabs, HangUpType
          DEF IInv, TypeOK, network, server, tables
<1>7. ASSUME NEW c \in Clients, NetworkFails(c) PROVE TypeOK'
  <2>1. wire' \subseteq Message
    BY <1>7 DEF NetworkFails, Message, IInv, TypeOK
  <2>2. task' \in [Workers -> Task]
    <3>1. ASSUME NEW h \in Task PROVE [h EXCEPT !.client = None] \in Task
      BY <3>1 DEF Task
    <3>2. task' = [w \in Workers |-> IF task[w].client = c
                                    THEN [task[w] EXCEPT !.client = None]
                                    ELSE task[w]]
      BY <1>7 DEF NetworkFails, Abandoned
    <3>3. task \in [Workers -> Task]
      BY DEF IInv, TypeOK
    <3> QED BY <3>1, <3>2, <3>3
  <2> QED BY <1>7, <2>1, <2>2
          DEF NetworkFails, Answers, IInv, TypeOK, tables
<1>8. ASSUME NEW m \in wire, TurnedAway(m) PROVE TypeOK'
  <2>1. m.client \in Clients \union {None} /\ wire' \subseteq Message
    BY <1>8 DEF TurnedAway, Message, IInv, TypeOK
  <2>2. answer' \in [Clients -> Answers \union {"none"}]
    BY <1>8, <2>1 DEF TurnedAway, Reply, Answers, IInv, TypeOK
  <2>3. limited' \in Nat /\ spurned' \subseteq Requests
    BY <1>8 DEF TurnedAway, Message, IInv, TypeOK
  <2> QED BY <1>8, <2>1, <2>2, <2>3 DEF TurnedAway, IInv, TypeOK, server, tables
<1> QED BY <1>1, <1>2, <1>3, <1>4, <1>5, <1>6, <1>7, <1>8 DEF Device

LEMMA TypeOfServer ==
  ASSUME IInv, NEW w \in Workers,
         Handle(w) \/ Dies(w) \/ \E m \in wire : Arrive(w, m)
  PROVE  TypeOK'
<1>0. task[w] \in Task /\ NoTask \in Task
  BY DEF IInv, TypeOK, Task, NoTask, Stages
<1>1. ASSUME NEW m \in wire, Arrive(w, m) PROVE TypeOK'
  <2>1. m \in Message
    BY DEF IInv, TypeOK
  <2>2. ASSUME NEW at \in {"looking", "placed"}, NEW o \in Orders \union {None}
        PROVE  [req |-> m.req, client |-> m.client, at |-> at, order |-> o] \in Task
    BY <2>1 DEF Task, Stages, Message
  <2>3. \E h \in Task : task' = [task EXCEPT ![w] = h]
    BY <1>1, <2>2 DEF Arrive, Seen, Keyed, Stay, IInv, TypeOK
  <2>4. task' \in [Workers -> Task] /\ wire' \subseteq Message
    BY <1>1, <2>3 DEF Arrive, IInv, TypeOK
  <2> QED BY <1>1, <2>4 DEF Arrive, device, tables, IInv, TypeOK
<1>2. CASE Look(w)
  <2>1. ASSUME NEW at \in {"joining", "opening"}, NEW o \in Orders \union {None}
        PROVE  [task[w] EXCEPT !.at = at] \in Task
               /\ [task[w] EXCEPT !.at = at, !.order = o] \in Task
    BY <1>0 DEF Task, Stages
  <2>2. \E h \in Task : task' = [task EXCEPT ![w] = h]
    BY <1>2, <2>1 DEF Look, Stay, IInv, TypeOK
  <2>3. task' \in [Workers -> Task]
    BY <2>2 DEF IInv, TypeOK
  <2> QED BY <1>2, <2>3 DEF Look, device, network, tables, IInv, TypeOK
<1>3. CASE OpenCommit(w)
  <2>1. task[w].req \in Rounds
    BY <1>3 DEF OpenCommit, IInv, IntakeInv, StagesInv
  <2>2. PICK o \in Orders \ exists :
          /\ exists' = exists \union {o}
          /\ key' = [key EXCEPT ![o] = task[w].req]
          /\ session' = [session EXCEPT ![o] = SessionOf[task[w].req]]
          /\ task' = [task EXCEPT ![w] = [task[w] EXCEPT !.at = "placed", !.order = o]]
    BY <1>3 DEF OpenCommit, Stay
  <2>3. task' \in [Workers -> Task]
    BY <1>0, <2>2 DEF Task, Stages, IInv, TypeOK
  <2>4. key' \in [Orders -> Rounds \union {None}]
        /\ session' \in [Orders -> Sessions \union {None}]
    BY <2>1, <2>2, IntakeRequests DEF IInv, TypeOK
  <2>5. applied' \in [Requests -> Nat]
    BY <1>3, <2>1 DEF OpenCommit, IInv, TypeOK, Requests
  <2> QED BY <1>3, <2>2, <2>3, <2>4, <2>5
          DEF OpenCommit, device, network, IInv, TypeOK
<1>4. CASE JoinCommit(w)
  <2>1. task[w].req \in Rounds
    BY <1>4 DEF JoinCommit, IInv, IntakeInv, StagesInv
  <2>2. task' \in [Workers -> Task]
    BY <1>0, <1>4 DEF JoinCommit, Stay, Task, Stages, IInv, TypeOK
  <2>3. applied' \in [Requests -> Nat]
    BY <1>4, <2>1 DEF JoinCommit, IInv, TypeOK, Requests
  <2> QED BY <1>4, <2>2, <2>3 DEF JoinCommit, device, network, IInv, TypeOK
<1>5. ASSUME NEW a \in Answers, Reply(task[w].client, a), Done(w)
      PROVE  /\ answer' \in [Clients -> Answers \union {"none"}]
             /\ task' \in [Workers -> Task]
  BY <1>0, <1>5 DEF Reply, Done, Stay, Task, IInv, TypeOK
<1>6. CASE OpenRefused(w)
  BY <1>5, <1>6 DEF OpenRefused, Answers, network, tables, IInv, TypeOK
<1>7. CASE Finish(w)
  <2>1. owned' \subseteq exists
    BY <1>7 DEF Finish, IInv, IntakeInv, StagesInv, TypeOK
  <2> QED BY <1>5, <1>7, <2>1 DEF Finish, Answers, network, IInv, TypeOK
<1>8. CASE TapCommit(w)
  <2>1. /\ shown' \in [Lines -> Taps \union {None}]
        /\ applied' \in [Requests -> Nat]
    BY <1>8, IntakeRequests DEF TapCommit, IInv, TypeOK, Requests
  <2> QED BY <1>5, <1>8, <2>1 DEF TapCommit, Answers, network, IInv, TypeOK
<1>9. CASE Dies(w)
  <2>1. deaths' \in Nat
    BY <1>9 DEF Dies, IInv, TypeOK
  <2> QED BY <1>5, <1>9, <2>1 DEF Dies, Answers, network, tables, IInv, TypeOK
<1> QED BY <1>1, <1>2, <1>3, <1>4, <1>6, <1>7, <1>8, <1>9 DEF Handle

-----------------------------------------------------------------------------
\* Answers find their calls.

\* A free client has nothing on its way.
LEMMA NothingForTheFree ==
  ASSUME IInv, NEW c \in Clients, call[c] = None \/ answer[c] # "none"
  PROVE  /\ \A m \in wire : m.client # c
         /\ \A w \in Workers : task[w].client # c
<1>1. ASSUME NEW m \in wire PROVE m.client # c
  <2>1. m.req \in Requests
    BY DEF IInv, TypeOK, Message
  <2> QED BY <2>1, IntakeIds DEF IInv, IntakeInv, AnswersTheCall
<1>2. ASSUME NEW w \in Workers, task[w].client = c PROVE FALSE
  <2>1. c # None
    BY IntakeIds
  <2>2. call[c] = task[w].req /\ answer[c] = "none"
    BY <1>2, <2>1 DEF IInv, IntakeInv, AnswersTheCall
  <2>3. task[w].at = "idle" \/ task[w].req \in Requests
    BY DEF IInv, TypeOK, IntakeInv, StagesInv, Task, Stages, Requests
  <2>4. task[w].at # "idle"
    BY <1>2, <2>1 DEF IInv, IntakeInv, StagesInv, NoTask
  <2> QED BY <2>2, <2>3, <2>4, IntakeIds
<1> QED BY <1>1, <1>2

\* One message at most per client that waits.
LEMMA OneMessage ==
  ASSUME IInv, NEW m \in wire, NEW n \in wire, m.client = n.client, m.client # None
  PROVE  m = n
<1>1. m.req = n.req
  BY DEF IInv, IntakeInv, AnswersTheCall
<1>2. m \in Message /\ n \in Message
  BY DEF IInv, TypeOK
<1> QED BY <1>1, <1>2 DEF Message

LEMMA DialFits ==
  ASSUME IInv, NEW c \in Clients, NEW r \in Requests,
         Free(c), Dial(c, r), UNCHANGED task
  PROVE  AnswersTheCall'
<1>1. /\ \A m \in wire : m.client # c
      /\ \A w \in Workers : task[w].client # c
  BY NothingForTheFree DEF Free
<1>2. /\ call'[c] = r /\ answer'[c] = "none"
      /\ \A d \in Clients \ {c} : call'[d] = call[d] /\ answer'[d] = answer[d]
  BY DEF Dial, IInv, TypeOK
<1>3. \A m \in wire : m.client \in Clients \union {None}
  BY DEF IInv, TypeOK, Message
<1>4. \A w \in Workers : task[w].client \in Clients \union {None}
  BY DEF IInv, TypeOK, Task
<1>5. wire' = wire \union {[req |-> r, client |-> c]}
  BY DEF Dial
<1>6. r # None
  BY IntakeIds
<1> QED BY <1>1, <1>2, <1>3, <1>4, <1>5, <1>6 DEF IInv, IntakeInv, AnswersTheCall

LEMMA HangUpFits ==
  ASSUME IInv, NEW c \in Clients, answer[c] # "none", HangUp(c),
         UNCHANGED <<wire, task>>
  PROVE  AnswersTheCall'
<1>1. /\ \A m \in wire : m.client # c
      /\ \A w \in Workers : task[w].client # c
  BY NothingForTheFree
<1>2. /\ call'[c] = None /\ answer'[c] = "none"
      /\ \A d \in Clients \ {c} : call'[d] = call[d] /\ answer'[d] = answer[d]
  BY DEF HangUp, IInv, TypeOK
<1>3. \A m \in wire : m.client \in Clients \union {None}
  BY DEF IInv, TypeOK, Message
<1>4. \A w \in Workers : task[w].client \in Clients \union {None}
  BY DEF IInv, TypeOK, Task
<1> QED BY <1>1, <1>2, <1>3, <1>4 DEF IInv, IntakeInv, AnswersTheCall

\* The handler that answers is the only carrier of its call.
LEMMA ReplyFits ==
  ASSUME IInv, NEW w \in Workers, NEW a \in Answers,
         Reply(task[w].client, a), Done(w), UNCHANGED <<call, wire>>
  PROVE  AnswersTheCall'
<1> DEFINE c == task[w].client
<1>1. task'[w].client = None /\ \A v \in Workers \ {w} : task'[v] = task[v]
  BY DEF Done, Stay, NoTask, IInv, TypeOK
<1>2. \A m \in wire : m.client = c => c = None
  BY DEF IInv, IntakeInv, AnswersTheCall
<1>3. \A v \in Workers \ {w} : task[v].client = c => c = None
  BY DEF IInv, IntakeInv, AnswersTheCall
<1>4. c \in Clients \union {None}
  BY DEF IInv, TypeOK, Task
<1>5. \A d \in Clients \ {c} : answer'[d] = answer[d]
  BY <1>4 DEF Reply, IInv, TypeOK
<1>6. c \in Clients => call[c] # None
  <2>1. SUFFICES ASSUME c \in Clients, call[c] = None PROVE FALSE
    OBVIOUS
  <2> QED BY <2>1, NothingForTheFree
<1>7. \A m \in wire : m.client \in Clients \union {None}
  BY DEF IInv, TypeOK, Message
<1>8. \A v \in Workers : task[v].client \in Clients \union {None}
  BY DEF IInv, TypeOK, Task
<1>9. ASSUME NEW m \in wire, m.client # None
      PROVE  /\ call[m.client] = m.req /\ answer'[m.client] = "none"
             /\ \A v \in Workers : task'[v].client # m.client
  <2>1. m.client \in Clients \ {c}
    BY <1>2, <1>7, <1>9
  <2> QED BY <1>1, <1>5, <1>9, <2>1 DEF IInv, IntakeInv, AnswersTheCall
<1>10. ASSUME NEW v \in Workers, task'[v].client # None
       PROVE  /\ call[task'[v].client] = task'[v].req
              /\ answer'[task'[v].client] = "none"
              /\ \A u \in Workers \ {v} : task'[u].client # task'[v].client
  <2>1. v # w /\ task'[v] = task[v]
    BY <1>1, <1>10
  <2>2. task[v].client \in Clients \ {c}
    BY <1>3, <1>8, <1>10, <2>1
  <2> QED BY <1>1, <1>5, <1>10, <2>1, <2>2 DEF IInv, IntakeInv, AnswersTheCall
<1>11. \A d \in Clients : answer'[d] # "none" => call[d] # None
  BY <1>5, <1>6 DEF IInv, IntakeInv, AnswersTheCall
<1> QED BY <1>9, <1>10, <1>11 DEF AnswersTheCall

\* A handler that goes on to its next stage answers whom it did before.
LEMMA StayFits ==
  ASSUME IInv, NEW w \in Workers, UNCHANGED <<call, answer, wire>>,
         NEW at, NEW o,
         \/ Stay(w, [task[w] EXCEPT !.at = at, !.order = o])
         \/ Stay(w, [task[w] EXCEPT !.at = at])
  PROVE  AnswersTheCall'
<1>1. task[w] \in Task
  BY DEF IInv, TypeOK
<1>2. task'[w].client = task[w].client /\ task'[w].req = task[w].req
  <2>1. \E h \in {[task[w] EXCEPT !.at = at, !.order = o], [task[w] EXCEPT !.at = at]} :
          task'[w] = h
    BY DEF Stay, IInv, TypeOK
  <2> QED BY <1>1, <2>1 DEF Task
<1>3. \A v \in Workers : task'[v].client = task[v].client /\ task'[v].req = task[v].req
  BY <1>2 DEF Stay, IInv, TypeOK
<1> QED BY <1>3 DEF IInv, IntakeInv, AnswersTheCall

LEMMA CallsFitDevice ==
  ASSUME IInv,
         \/ \E t \in Tabs : \/ Device(t)
                            \/ \E r \in Requests : SubmitOffline(t, r) \/ SubmitOnline(t, r)
         \/ \E c \in Clients : NetworkFails(c)
         \/ \E m \in wire : TurnedAway(m)
  PROVE  AnswersTheCall'
<1>1. ASSUME NEW t \in Tabs, NEW r \in Requests, SubmitOffline(t, r)
      PROVE  AnswersTheCall'
  BY <1>1 DEF SubmitOffline, IInv, IntakeInv, AnswersTheCall, network, server
<1>2. ASSUME NEW t \in Tabs, NEW r \in Requests, SubmitOnline(t, r)
      PROVE  AnswersTheCall'
  BY <1>2, ClientsOfTabs, DialFits DEF SubmitOnline, server
<1>3. ASSUME NEW t \in Tabs, FlushStart(t) PROVE AnswersTheCall'
  <2>1. PICK q : Pending(q) /\ outbox # {} /\ Dial(<<t, "flush">>, q[1])
    BY <1>3 DEF FlushStart
  <2>2. q[1] \in Requests
    BY <2>1, ListingIsASequence
  <2>3. Free(<<t, "flush">>) /\ UNCHANGED task
    BY <1>3 DEF FlushStart, server
  <2> QED BY <2>1, <2>2, <2>3, ClientsOfTabs, DialFits
<1>4. ASSUME NEW t \in Tabs, FlushNext(t) PROVE AnswersTheCall'
  <2>1. Head(todo[t]) \in Requests
    BY <1>4 DEF FlushNext, IInv, TypeOK
  <2> QED BY <1>4, <2>1, ClientsOfTabs, DialFits DEF FlushNext, server
<1>5. ASSUME NEW t \in Tabs, SubmitAnswered(t) PROVE AnswersTheCall'
  BY <1>5, ClientsOfTabs, HangUpFits DEF SubmitAnswered, network, server
<1>6. ASSUME NEW t \in Tabs, FlushAnswered(t) PROVE AnswersTheCall'
  BY <1>6, ClientsOfTabs, HangUpFits DEF FlushAnswered, network, server
<1>7. ASSUME NEW c \in Clients, NetworkFails(c) PROVE AnswersTheCall'
  <2>1. /\ UNCHANGED call
        /\ \A d \in Clients \ {c} : answer'[d] = answer[d]
        /\ call[c] # None
    BY <1>7 DEF NetworkFails, Free, IInv, TypeOK
  <2>2. \A m \in wire' : m.client = None \/ (m \in wire /\ m.client # c)
    BY <1>7 DEF NetworkFails
  <2>3. \A w \in Workers : \/ task'[w].client = None
                           \/ task'[w] = task[w] /\ task[w].client # c
    BY <1>7 DEF NetworkFails, Abandoned, IInv, TypeOK, Task
  <2>4. \A m \in wire : m.client \in Clients \union {None}
    BY DEF IInv, TypeOK, Message
  <2>5. \A w \in Workers : task[w].client \in Clients \union {None}
    BY DEF IInv, TypeOK, Task
  <2>6. \A d \in Clients : answer'[d] # "none" => call'[d] # None
    BY <2>1 DEF IInv, IntakeInv, AnswersTheCall
  <2>7. ASSUME NEW m \in wire', m.client # None
        PROVE  /\ call'[m.client] = m.req /\ answer'[m.client] = "none"
               /\ \A w \in Workers : task'[w].client # m.client
    BY <2>1, <2>2, <2>3, <2>4, <2>7 DEF IInv, IntakeInv, AnswersTheCall
  <2>8. ASSUME NEW w \in Workers, task'[w].client # None
        PROVE  /\ call'[task'[w].client] = task'[w].req
               /\ answer'[task'[w].client] = "none"
               /\ \A v \in Workers \ {w} : task'[v].client # task'[w].client
    BY <2>1, <2>3, <2>5, <2>8 DEF IInv, IntakeInv, AnswersTheCall
  <2> QED BY <2>6, <2>7, <2>8 DEF AnswersTheCall
<1>8. ASSUME NEW m \in wire, TurnedAway(m) PROVE AnswersTheCall'
  <2>1. m.client \in Clients \union {None}
    BY DEF IInv, TypeOK, Message
  <2>2. UNCHANGED <<call, task>> /\ wire' = wire \ {m}
    BY <1>8 DEF TurnedAway, server
  <2>3. \A d \in Clients \ {m.client} : answer'[d] = answer[d]
    BY <1>8, <2>1 DEF TurnedAway, Reply, IInv, TypeOK
  <2>4. \A n \in wire' : n.client # None => n.client \in Clients \ {m.client}
    BY <2>2, OneMessage DEF IInv, TypeOK, Message
  <2>5. \A w \in Workers : task[w].client # None =>
          task[w].client \in Clients \ {m.client}
    BY DEF IInv, IntakeInv, AnswersTheCall, TypeOK, Task
  <2>6. m.client \in Clients => call[m.client] # None
    BY NothingForTheFree
  <2> QED BY <2>2, <2>3, <2>4, <2>5, <2>6 DEF IInv, IntakeInv, AnswersTheCall
<1> QED BY <1>1, <1>2, <1>3, <1>4, <1>5, <1>6, <1>7, <1>8 DEF Device

LEMMA CallsFitServer ==
  ASSUME IInv, NEW w \in Workers,
         Handle(w) \/ Dies(w) \/ \E m \in wire : Arrive(w, m)
  PROVE  AnswersTheCall'
<1>0. "ok" \in Answers /\ "failed" \in Answers
  BY DEF Answers
<1>1. ASSUME NEW m \in wire, Arrive(w, m) PROVE AnswersTheCall'
  <2>1. /\ UNCHANGED <<call, answer>> /\ wire' = wire \ {m}
        /\ task[w].client = None
        /\ task'[w].client = m.client /\ task'[w].req = m.req
        /\ \A v \in Workers \ {w} : task'[v] = task[v]
    BY <1>1 DEF Arrive, Stay, NoTask, device, IInv, TypeOK
  <2>2. \A n \in wire' : n.client # None => n.client # m.client
    BY <2>1, OneMessage
  <2>3. \A v \in Workers : task[v].client # None => task[v].client # m.client
    BY DEF IInv, IntakeInv, AnswersTheCall
  <2>4. ASSUME NEW n \in wire', n.client # None
        PROVE  /\ call'[n.client] = n.req /\ answer'[n.client] = "none"
               /\ \A v \in Workers : task'[v].client # n.client
    BY <2>1, <2>2, <2>4 DEF IInv, IntakeInv, AnswersTheCall
  <2>5. ASSUME NEW v \in Workers, task'[v].client # None
        PROVE  /\ call'[task'[v].client] = task'[v].req
               /\ answer'[task'[v].client] = "none"
               /\ \A u \in Workers \ {v} : task'[u].client # task'[v].client
    BY <2>1, <2>3, <2>5 DEF IInv, IntakeInv, AnswersTheCall
  <2>6. \A d \in Clients : answer'[d] # "none" => call'[d] # None
    BY <2>1 DEF IInv, IntakeInv, AnswersTheCall
  <2> QED BY <2>4, <2>5, <2>6 DEF AnswersTheCall
<1>3. CASE Look(w)
  <2>1. UNCHANGED <<call, answer, wire>>
    BY <1>3 DEF Look, device, network
  <2>2. CASE \E o : Stay(w, [task[w] EXCEPT !.at = "joining", !.order = o])
    BY <2>1, <2>2, StayFits
  <2>3. CASE Stay(w, [task[w] EXCEPT !.at = "opening"])
    BY <2>1, <2>3, StayFits
  <2> QED BY <1>3, <2>2, <2>3 DEF Look
<1>4. CASE OpenCommit(w)
  <2>1. PICK o : Stay(w, [task[w] EXCEPT !.at = "placed", !.order = o])
    BY <1>4 DEF OpenCommit
  <2> QED BY <1>4, <2>1, StayFits DEF OpenCommit, device, network
<1>5. CASE JoinCommit(w)
  BY <1>5, StayFits DEF JoinCommit, device, network
<1>6. CASE OpenRefused(w)
  BY <1>0, <1>6, ReplyFits DEF OpenRefused, network
<1>7. CASE Finish(w)
  BY <1>0, <1>7, ReplyFits DEF Finish, network
<1>8. CASE TapCommit(w)
  BY <1>0, <1>8, ReplyFits DEF TapCommit, network
<1>9. CASE Dies(w)
  BY <1>0, <1>9, ReplyFits DEF Dies, network
<1> QED BY <1>1, <1>3, <1>4, <1>5, <1>6, <1>7, <1>8, <1>9 DEF Handle

-----------------------------------------------------------------------------
\* What handlers know, and what the keys say.

\* No step of the device or the network changes what the server has stored.
LEMMA ServerUntouched ==
  ASSUME \/ \E t \in Tabs : \/ Device(t)
                            \/ \E r \in Requests : SubmitOffline(t, r) \/ SubmitOnline(t, r)
         \/ \E c \in Clients : NetworkFails(c)
         \/ \E m \in wire : TurnedAway(m)
  PROVE  /\ UNCHANGED tables
         /\ UNCHANGED task \/ \E c \in Clients : Abandoned(c)
BY DEF Device, SubmitOffline, SubmitOnline, FlushStart, FlushNext, SubmitAnswered,
       FlushAnswered, NetworkFails, TurnedAway, server

LEMMA StagesDevice ==
  ASSUME IInv, UNCHANGED tables, UNCHANGED task \/ \E c \in Clients : Abandoned(c)
  PROVE  StagesInv'
<1>1. CASE UNCHANGED task
  BY <1>1 DEF IInv, IntakeInv, StagesInv, tables
<1>2. ASSUME NEW c \in Clients, Abandoned(c) PROVE StagesInv'
  <2>1. ASSUME NEW w \in Workers
        PROVE  /\ task'[w].req = task[w].req /\ task'[w].at = task[w].at
               /\ task'[w].order = task[w].order
               /\ task[w].at = "idle" => task'[w] = task[w]
    <3>1. task[w] \in Task
      BY DEF IInv, TypeOK
    <3>2. task[w].at = "idle" => task[w].client # c
      BY IntakeIds DEF IInv, IntakeInv, StagesInv, NoTask
    <3> QED BY <1>2, <3>1, <3>2 DEF Abandoned, Task
  <2> QED BY <2>1 DEF IInv, IntakeInv, StagesInv, tables
<1> QED BY <1>1, <1>2

LEMMA StagesServer ==
  ASSUME IInv, NEW w \in Workers,
         Handle(w) \/ Dies(w) \/ \E m \in wire : Arrive(w, m)
  PROVE  StagesInv'
<1>0. task[w] \in Task
  BY DEF IInv, TypeOK
\* A step leaves the other handlers and their orders as they were.
<1>1. ASSUME NEW h, Stay(w, h),
             \A o \in exists : o \in exists' /\ key'[o] = key[o],
             /\ h.at = "idle" => h = NoTask
             /\ h.at = "looking" => h.req \in Requests
             /\ h.at \in {"opening", "joining", "placed"} => h.req \in Rounds
             /\ h.at = "joining" => ~ByStaff(h.req)
             /\ h.at \in {"joining", "placed"} => h.order \in exists'
             /\ h.at = "placed" /\ ByStaff(h.req) => key'[h.order] = h.req
      PROVE  StagesInv'
  <2>1. task'[w] = h /\ \A v \in Workers \ {w} : task'[v] = task[v]
    BY <1>1 DEF Stay, IInv, TypeOK
  <2> QED BY <1>1, <2>1 DEF IInv, IntakeInv, StagesInv
<1>2. Done(w) /\ UNCHANGED <<exists, key>> => StagesInv'
  BY <1>1 DEF Done, NoTask
<1>3. ASSUME NEW m \in wire, Arrive(w, m) PROVE StagesInv'
  <2>1. m.req \in Requests /\ UNCHANGED <<exists, key>>
    BY <1>3 DEF Arrive, tables, IInv, TypeOK, Message
  <2>2. CASE m.req \in Rounds /\ Seen(m.req) # {}
    <3>1. PICK o \in Seen(m.req) :
            Stay(w, [req |-> m.req, client |-> m.client, at |-> "placed", order |-> o])
      BY <1>3, <2>2 DEF Arrive
    <3>2. o \in exists /\ key[o] = m.req
      BY DEF Seen, Keyed
    <3> QED BY <1>1, <2>1, <2>2, <3>1, <3>2
  <2>3. CASE ~(m.req \in Rounds /\ Seen(m.req) # {})
    <3>1. Stay(w, [req |-> m.req, client |-> m.client, at |-> "looking", order |-> None])
      BY <1>3, <2>3 DEF Arrive
    <3> QED BY <1>1, <2>1, <3>1
  <2> QED BY <2>2, <2>3
<1>4. CASE Look(w)
  <2>1. task[w].req \in Rounds /\ UNCHANGED <<exists, key>>
    BY <1>4 DEF Look, tables
  <2>2. CASE ~ByStaff(task[w].req)
             /\ {o \in exists : session[o] = SessionOf[task[w].req]} # {}
    <3>1. PICK o \in exists : Stay(w, [task[w] EXCEPT !.at = "joining", !.order = o])
      BY <1>4, <2>2 DEF Look
    <3> DEFINE h == [task[w] EXCEPT !.at = "joining", !.order = o]
    <3>2. h.at = "joining" /\ h.req = task[w].req /\ h.order = o
      BY <1>0 DEF Task
    <3>3. h.req \in Rounds /\ ~ByStaff(h.req) /\ h.order \in exists'
      BY <2>1, <2>2, <3>2
    <3>4. \A p \in exists : p \in exists' /\ key'[p] = key[p]
      BY <2>1
    <3>5. Stay(w, h)
      BY <3>1
    <3> HIDE DEF h
    <3> QED BY <1>1, <3>2, <3>3, <3>4, <3>5
  <2>3. CASE Stay(w, [task[w] EXCEPT !.at = "opening"])
    <3>1. LET h == [task[w] EXCEPT !.at = "opening"]
          IN  h.at = "opening" /\ h.req = task[w].req
      BY <1>0 DEF Task
    <3> QED BY <1>1, <2>1, <2>3, <3>1
  <2> QED BY <1>4, <2>2, <2>3 DEF Look
<1>5. CASE OpenCommit(w)
  <2>1. task[w].req \in Rounds
    BY <1>5 DEF OpenCommit, IInv, IntakeInv, StagesInv
  <2>2. PICK o \in Orders \ exists :
          /\ exists' = exists \union {o}
          /\ key' = [key EXCEPT ![o] = task[w].req]
          /\ Stay(w, [task[w] EXCEPT !.at = "placed", !.order = o])
    BY <1>5 DEF OpenCommit
  <2>3. /\ \A p \in exists : p \in exists' /\ key'[p] = key[p]
        /\ o \in exists' /\ key'[o] = task[w].req
    BY <2>2 DEF IInv, TypeOK
  <2>4. LET h == [task[w] EXCEPT !.at = "placed", !.order = o]
        IN  h.at = "placed" /\ h.req = task[w].req /\ h.order = o
    BY <1>0 DEF Task
  <2> QED BY <1>1, <2>1, <2>2, <2>3, <2>4
<1>6. CASE JoinCommit(w)
  <2>1. /\ task[w].req \in Rounds /\ ~ByStaff(task[w].req)
        /\ task[w].order \in exists
        /\ UNCHANGED <<exists, key>>
        /\ Stay(w, [task[w] EXCEPT !.at = "placed"])
    BY <1>6 DEF JoinCommit, IInv, IntakeInv, StagesInv
  <2> DEFINE h == [task[w] EXCEPT !.at = "placed"]
  <2>2. h.at = "placed" /\ h.req = task[w].req /\ h.order = task[w].order
    BY <1>0 DEF Task
  <2>3. h.req \in Rounds /\ ~ByStaff(h.req) /\ h.order \in exists'
    BY <2>1, <2>2
  <2>4. Stay(w, h) /\ \A p \in exists : p \in exists' /\ key'[p] = key[p]
    BY <2>1
  <2> HIDE DEF h
  <2> QED BY <1>1, <2>2, <2>3, <2>4
<1>7. CASE OpenRefused(w) \/ Finish(w) \/ TapCommit(w) \/ Dies(w)
  BY <1>2, <1>7 DEF OpenRefused, Finish, TapCommit, Dies, tables
<1> QED BY <1>3, <1>4, <1>5, <1>6, <1>7 DEF Handle

\* The count of a staff round changes only where its order gets its key.
LEMMA KeysServer ==
  ASSUME IInv, NEW w \in Workers,
         Handle(w) \/ Dies(w) \/ \E m \in wire : Arrive(w, m)
  PROVE  KeysInv'
<1>1. CASE UNCHANGED <<exists, key, applied>>
  BY <1>1 DEF IInv, IntakeInv, KeysInv, Keyed
<1>2. CASE OpenCommit(w)
  <2>0. PICK r \in Rounds : r = task[w].req
    BY <1>2 DEF OpenCommit, IInv, IntakeInv, StagesInv
  <2>1. Keyed(r) = {}
    BY <1>2, <2>0 DEF OpenCommit, KeyInserts
  <2>2. PICK o \in Orders \ exists :
          exists' = exists \union {o} /\ key' = [key EXCEPT ![o] = r]
    BY <1>2, <2>0 DEF OpenCommit
  <2>3. \A p \in exists : key'[p] = key[p] /\ key[p] # r
    BY <2>1, <2>2 DEF Keyed, IInv, TypeOK
  <2>4. key'[o] = r
    BY <2>2 DEF IInv, TypeOK
  <2>5. Keyed(r)' # {} /\ \A q \in Rounds \ {r} : Keyed(q)' = {} <=> Keyed(q) = {}
    <3>1. o \in Keyed(r)'
      BY <2>2, <2>4 DEF Keyed
    <3>2. ASSUME NEW q \in Rounds \ {r} PROVE Keyed(q)' = Keyed(q)
      <4>1. Keyed(q)' = {p \in exists' : key'[p] = q}
        BY DEF Keyed
      <4> QED BY <2>2, <2>3, <2>4, <4>1 DEF Keyed
    <3> QED BY <3>1, <3>2
  <2>6. applied'[r] = applied[r] + 1 /\ \A q \in Rounds \ {r} : applied'[q] = applied[q]
    BY <1>2, <2>0 DEF OpenCommit, IInv, TypeOK, Requests
  <2>7. \A p, q \in exists' : key'[p] = key'[q] => p = q
    BY <2>2, <2>3, <2>4 DEF IInv, IntakeInv, KeysInv
  <2>8. ASSUME NEW q \in Rounds, ByStaff(q)
        PROVE  applied'[q] = IF Keyed(q)' = {} THEN 0 ELSE 1
    <3>1. applied[q] = IF Keyed(q) = {} THEN 0 ELSE 1
      BY <2>8 DEF IInv, IntakeInv, KeysInv
    <3>2. CASE q = r
      BY <2>1, <2>5, <2>6, <3>1, <3>2
    <3>3. CASE q # r
      BY <2>5, <2>6, <3>1, <3>3
    <3> QED BY <3>2, <3>3
  <2> QED BY <2>7, <2>8 DEF KeysInv, ByStaff
<1>3. CASE JoinCommit(w)
  <2>1. ~ByStaff(task[w].req) /\ UNCHANGED <<exists, key>>
    BY <1>3 DEF JoinCommit, IInv, IntakeInv, StagesInv
  <2>2. \A q \in Rounds : ByStaff(q) => applied'[q] = applied[q]
    BY <1>3, <2>1 DEF JoinCommit, IInv, TypeOK, Requests
  <2> QED BY <2>1, <2>2 DEF IInv, IntakeInv, KeysInv, Keyed, ByStaff
<1>4. CASE TapCommit(w)
  <2>1. task[w].req \in Taps /\ UNCHANGED <<exists, key>>
    BY <1>4 DEF TapCommit
  <2>2. \A q \in Rounds : applied'[q] = applied[q]
    BY <1>4, <2>1, IntakeIds DEF TapCommit, IInv, TypeOK, Requests
  <2> QED BY <2>1, <2>2 DEF IInv, IntakeInv, KeysInv, Keyed, ByStaff
<1>5. Look(w) \/ OpenRefused(w) \/ Finish(w) \/ Dies(w) \/ (\E m \in wire : Arrive(w, m))
      => UNCHANGED <<exists, key, applied>>
  BY DEF Look, OpenRefused, Finish, Dies, Arrive, tables
<1> QED BY <1>1, <1>2, <1>3, <1>4, <1>5 DEF Handle

-----------------------------------------------------------------------------
\* A confirmed round has its order, and the order its owner.

LEMMA ConfirmedDevice ==
  ASSUME IInv,
         \/ \E t \in Tabs : \/ Device(t)
                            \/ \E r \in Requests : SubmitOffline(t, r) \/ SubmitOnline(t, r)
         \/ \E c \in Clients : NetworkFails(c)
         \/ \E m \in wire : TurnedAway(m)
  PROVE  ConfirmedInv'
\* Nobody gets an "ok", and who has one keeps the call it is for.
<1>1. \A c \in Clients : answer'[c] = "ok" => answer[c] = "ok" /\ call'[c] = call[c]
  <2>1. ASSUME NEW c \in Clients, NEW r, Dial(c, r) \/ HangUp(c)
        PROVE  \A d \in Clients : answer'[d] = "ok" => answer[d] = "ok" /\ call'[d] = call[d]
    BY <2>1 DEF Dial, HangUp, IInv, TypeOK
  <2>2. ASSUME NEW t \in Tabs, FlushStart(t) PROVE \E r : Dial(<<t, "flush">>, r)
    BY <2>2 DEF FlushStart
  <2>3. ASSUME NEW t \in Tabs, NEW r \in Requests, SubmitOffline(t, r)
        PROVE  UNCHANGED <<call, answer>>
    BY <2>3 DEF SubmitOffline
  <2>4. ASSUME NEW c \in Clients, NetworkFails(c)
        PROVE  UNCHANGED call /\ answer' = [answer EXCEPT ![c] = "failed"]
    BY <2>4 DEF NetworkFails
  <2>5. ASSUME NEW m \in wire, TurnedAway(m)
        PROVE  \A d \in Clients : answer'[d] = "ok" => answer[d] = "ok" /\ call'[d] = call[d]
    <3>1. m.client \in Clients \union {None}
      BY DEF IInv, TypeOK, Message
    <3> QED BY <2>5, <3>1 DEF TurnedAway, Reply, IInv, TypeOK
  <2>6. ASSUME NEW c \in Clients, NetworkFails(c)
        PROVE  \A d \in Clients : answer'[d] = "ok" => answer[d] = "ok" /\ call'[d] = call[d]
    BY <2>4, <2>6 DEF IInv, TypeOK
  <2>7. ASSUME NEW t \in Tabs,
               FlushNext(t) \/ SubmitAnswered(t) \/ FlushAnswered(t)
                 \/ \E r \in Requests : SubmitOnline(t, r)
        PROVE  \E c \in Clients : HangUp(c) \/ \E r : Dial(c, r)
    BY <2>7, ClientsOfTabs DEF FlushNext, SubmitAnswered, FlushAnswered, SubmitOnline
  <2> QED BY <2>1, <2>2, <2>3, <2>5, <2>6, <2>7, ClientsOfTabs DEF Device
<1>2. UNCHANGED <<exists, key, owned>>
  BY ServerUntouched DEF tables
<1> QED BY <1>1, <1>2 DEF IInv, IntakeInv, ConfirmedInv, Keyed, ByStaff

LEMMA ConfirmedServer ==
  ASSUME IInv, NEW w \in Workers,
         Handle(w) \/ Dies(w) \/ \E m \in wire : Arrive(w, m)
  PROVE  ConfirmedInv'
<1>0. task[w] \in Task
  BY DEF IInv, TypeOK
<1>1. CASE UNCHANGED <<call, answer, exists, key, owned>>
  BY <1>1 DEF IInv, IntakeInv, ConfirmedInv, Keyed, ByStaff
<1>2. CASE OpenCommit(w)
  <2>0. PICK r \in Rounds : r = task[w].req
    BY <1>2 DEF OpenCommit, IInv, IntakeInv, StagesInv
  <2>1. Keyed(r) = {}
    BY <1>2, <2>0 DEF OpenCommit, KeyInserts
  <2>2. PICK o \in Orders \ exists :
          exists' = exists \union {o} /\ key' = [key EXCEPT ![o] = r]
    BY <1>2, <2>0 DEF OpenCommit
  <2>3. UNCHANGED <<call, answer, owned>>
    BY <1>2 DEF OpenCommit, device
  <2>4. ASSUME NEW c \in Clients, answer[c] = "ok", ByStaff(call[c])
        PROVE  \A p \in exists' : key'[p] = call[c] <=> p \in Keyed(call[c])
    <3>1. Keyed(call[c]) # {}
      BY <2>4 DEF IInv, IntakeInv, ConfirmedInv
    <3>2. call[c] # r
      BY <2>1, <3>1
    <3> QED BY <2>2, <3>2 DEF Keyed, IInv, TypeOK
  <2>5. ASSUME NEW c \in Clients, answer'[c] = "ok", ByStaff(call'[c])
        PROVE  Keyed(call[c]) # {} /\ Keyed(call[c]) \subseteq owned
    BY <2>3, <2>5 DEF IInv, IntakeInv, ConfirmedInv, ByStaff
  <2>6. ASSUME NEW c \in Clients, answer'[c] = "ok", ByStaff(call'[c])
        PROVE  {p \in exists' : key'[p] = call'[c]} = Keyed(call[c])
    BY <2>2, <2>3, <2>4, <2>6 DEF Keyed, ByStaff
  <2> QED BY <2>3, <2>5, <2>6 DEF ConfirmedInv, Keyed, ByStaff
<1>3. ASSUME NEW a, Reply(task[w].client, a), UNCHANGED <<call, exists, key>>,
             owned \subseteq owned',
             a = "ok" /\ ByStaff(task[w].req) =>
               Keyed(task[w].req) # {} /\ Keyed(task[w].req) \subseteq owned'
      PROVE  ConfirmedInv'
  <2>1. task[w].client \in Clients \union {None}
    BY <1>0 DEF Task
  <2>2. ASSUME NEW c \in Clients, answer'[c] = "ok", ByStaff(call[c])
        PROVE  Keyed(call[c]) # {} /\ Keyed(call[c]) \subseteq owned'
    <3>1. CASE c = task[w].client
      <4>1. c # None
        BY IntakeIds
      <4>2. call[c] = task[w].req
        BY <3>1, <4>1 DEF IInv, IntakeInv, AnswersTheCall
      <4>3. a = "ok"
        BY <1>3, <2>2, <3>1, <4>1 DEF Reply, IInv, TypeOK
      <4> QED BY <1>3, <2>2, <4>2, <4>3
    <3>2. CASE c # task[w].client
      <4>1. answer[c] = "ok"
        BY <1>3, <2>1, <2>2, <3>2 DEF Reply, IInv, TypeOK
      <4> QED BY <1>3, <2>2, <4>1 DEF IInv, IntakeInv, ConfirmedInv
    <3> QED BY <3>1, <3>2
  <2> QED BY <1>3, <2>2 DEF ConfirmedInv, Keyed, ByStaff
<1>4. CASE Finish(w)
  <2>1. /\ task[w].req \in Rounds /\ task[w].order \in exists
        /\ ByStaff(task[w].req) => key[task[w].order] = task[w].req
    BY <1>4 DEF Finish, IInv, IntakeInv, StagesInv
  <2>2. ByStaff(task[w].req) => Keyed(task[w].req) = {task[w].order}
    BY <2>1 DEF Keyed, IInv, IntakeInv, KeysInv
  <2>3. ByStaff(task[w].req) => task[w].order \in owned'
    BY <1>4 DEF Finish, Claims
  <2>4. owned \subseteq owned' /\ Reply(task[w].client, "ok")
        /\ UNCHANGED <<call, exists, key>>
    BY <1>4 DEF Finish
  <2> QED BY <1>3, <2>2, <2>3, <2>4
<1>5. CASE TapCommit(w)
  <2>1. ~ByStaff(task[w].req)
    BY <1>5, IntakeIds DEF TapCommit, ByStaff
  <2> QED BY <1>3, <1>5, <2>1 DEF TapCommit
<1>6. CASE OpenRefused(w) \/ Dies(w)
  BY <1>3, <1>6 DEF OpenRefused, Dies, tables
<1>7. Look(w) \/ JoinCommit(w) \/ (\E m \in wire : Arrive(w, m))
      => UNCHANGED <<call, answer, exists, key, owned>>
  BY DEF Look, JoinCommit, Arrive, device, tables
<1> QED BY <1>1, <1>2, <1>4, <1>5, <1>6, <1>7 DEF Handle

-----------------------------------------------------------------------------
LEMMA StepHolds == IInv /\ [Next]_vars => IInv'
<1> SUFFICES ASSUME IInv, [Next]_vars PROVE IInv'
  OBVIOUS
<1>1. CASE \/ \E t \in Tabs : \/ Device(t)
                             \/ \E r \in Requests : SubmitOffline(t, r) \/ SubmitOnline(t, r)
           \/ \E c \in Clients : NetworkFails(c)
           \/ \E m \in wire : TurnedAway(m)
  <2>1. UNCHANGED tables /\ (UNCHANGED task \/ \E c \in Clients : Abandoned(c))
    BY <1>1, ServerUntouched
  <2>2. KeysInv'
    BY <2>1 DEF IInv, IntakeInv, KeysInv, Keyed, ByStaff, tables
  <2> QED BY <1>1, <2>1, <2>2, TypeOfDevice, CallsFitDevice, StagesDevice, ConfirmedDevice
          DEF IInv, IntakeInv
<1>2. ASSUME NEW w \in Workers, Handle(w) \/ Dies(w) \/ \E m \in wire : Arrive(w, m)
      PROVE  IInv'
  BY <1>2, TypeOfServer, CallsFitServer, StagesServer, KeysServer, ConfirmedServer
     DEF IInv, IntakeInv
<1>3. CASE UNCHANGED vars
  <2>1. TypeOK'
    BY <1>3 DEF IInv, TypeOK, vars, device, network, server, tables
  <2>2. AnswersTheCall'
    BY <1>3 DEF IInv, IntakeInv, AnswersTheCall, vars, device, network, server
  <2>3. StagesInv' /\ KeysInv' /\ ConfirmedInv'
    BY <1>3 DEF IInv, IntakeInv, StagesInv, KeysInv, ConfirmedInv, Keyed, ByStaff,
                vars, device, server, tables
  <2> QED BY <2>1, <2>2, <2>3 DEF IInv, IntakeInv
<1> QED BY <1>1, <1>2, <1>3 DEF Next, Delivered

\* What the device, the network and the database hold keeps its type.
THEOREM IntakeTypeCorrect == Spec => []TypeOK
<1>1. IInv => TypeOK
  BY DEF IInv
<1> QED BY <1>1, InitHolds, StepHolds, PTL DEF Spec

\* Answers find their calls, a staff round's count and its order's key go
\* together, and what is confirmed is owned.
THEOREM IntakeHolds == Spec => []IntakeInv
<1>1. IInv => IntakeInv
  BY DEF IInv
<1> QED BY <1>1, InitHolds, StepHolds, PTL DEF Spec

\* Where every round is keyed in by staff, no round is billed twice, however
\* many tabs replay it and whatever is lost, late or dies.
THEOREM StaffRoundsBilledOnce == Spec => []StaffBilledOnce
<1>1. IInv => StaffBilledOnce
  <2> SUFFICES ASSUME IInv, NEW r \in Rounds, ByStaff(r)
               PROVE  applied[r] <= 1
    BY DEF StaffBilledOnce
  <2>1. applied[r] = IF Keyed(r) = {} THEN 0 ELSE 1
    BY DEF IInv, IntakeInv, KeysInv
  <2> QED BY <2>1
<1> QED BY <1>1, InitHolds, StepHolds, PTL DEF Spec

\* A staff round that the server confirms has its owner, also when the answer
\* is that of a replay and the first try died between its two commits.
THEOREM ConfirmedRoundsAreOwned == Spec => []ConfirmedIsOwned
<1>1. IInv => ConfirmedIsOwned
  BY DEF IInv, IntakeInv, ConfirmedInv, ConfirmedIsOwned
<1> QED BY <1>1, InitHolds, StepHolds, PTL DEF Spec

-----------------------------------------------------------------------------
\* The queue: what answers say, and how the outbox is drained.
\* What has been carried out stays so.
LEMMA AppliedGrows ==
  ASSUME IInv, [Next]_vars
  PROVE  \A r \in Requests : applied'[r] >= applied[r]
<1>1. applied \in [Requests -> Nat]
  BY DEF IInv, TypeOK
<1>2. CASE UNCHANGED applied
  BY <1>1, <1>2
<1>3. ASSUME NEW w \in Workers, OpenCommit(w) \/ JoinCommit(w) \/ TapCommit(w)
      PROVE  \A r \in Requests : applied'[r] >= applied[r]
  <2>1. PICK q : applied' = [applied EXCEPT ![q] = @ + 1]
    BY <1>3 DEF OpenCommit, JoinCommit, TapCommit
  <2> QED BY <1>1, <2>1
<1>4. ASSUME NEW t \in Tabs, Device(t) \/ \E r \in Requests : SubmitOffline(t, r)
               \/ SubmitOnline(t, r)
      PROVE  UNCHANGED applied
  BY <1>4 DEF Device, FlushStart, FlushNext, SubmitAnswered, FlushAnswered,
              SubmitOffline, SubmitOnline, server, tables
<1>5. ASSUME NEW c \in Clients, NetworkFails(c) PROVE UNCHANGED applied
  BY <1>5 DEF NetworkFails, tables
<1>6. ASSUME NEW m, TurnedAway(m) \/ \E w \in Workers : Arrive(w, m) PROVE UNCHANGED applied
  BY <1>6 DEF TurnedAway, Arrive, server, tables
<1>7. ASSUME NEW w \in Workers, Look(w) \/ OpenRefused(w) \/ Finish(w) \/ Dies(w)
      PROVE UNCHANGED applied
  BY <1>7 DEF Look, OpenRefused, Finish, Dies, tables
<1>8. UNCHANGED vars => UNCHANGED applied
  BY DEF vars, server, tables
<1> QED BY <1>2, <1>3, <1>4, <1>5, <1>6, <1>7, <1>8 DEF Next, Delivered, Handle

\* ... and so has what has been turned away.
LEMMA SpurnedGrows ==
  ASSUME [Next]_vars
  PROVE  spurned \subseteq spurned'
<1>1. ASSUME NEW t \in Tabs, Device(t) \/ \E r \in Requests : SubmitOffline(t, r)
               \/ SubmitOnline(t, r)
      PROVE  UNCHANGED spurned
  BY <1>1 DEF Device, FlushStart, FlushNext, SubmitAnswered, FlushAnswered,
              SubmitOffline, SubmitOnline, network
<1>2. ASSUME NEW c \in Clients, NetworkFails(c) PROVE UNCHANGED spurned
  BY <1>2 DEF NetworkFails
<1>3. ASSUME NEW m, TurnedAway(m) \/ \E w \in Workers : Arrive(w, m)
      PROVE  spurned \subseteq spurned'
  BY <1>3 DEF TurnedAway, Arrive
<1>4. ASSUME NEW w \in Workers, Handle(w) \/ Dies(w) PROVE UNCHANGED spurned
  BY <1>4 DEF Handle, Look, OpenCommit, OpenRefused, JoinCommit, Finish, TapCommit, Dies,
              network
<1>5. UNCHANGED vars => UNCHANGED spurned
  BY DEF vars, network
<1> QED BY <1>1, <1>2, <1>3, <1>4, <1>5 DEF Next, Delivered

LEMMA JudgedStart == Init => JudgedInv
<1> SUFFICES ASSUME Init PROVE JudgedInv
  OBVIOUS
<1> QED BY IntakeBounds, IntakeIds DEF Init, JudgedInv, Keyed, NoTask

\* An answer that says no more than is known.
LEMMA JudgedReply ==
  ASSUME IInv, JudgedInv, NEW c \in Clients \union {None}, NEW a \in Answers, Reply(c, a),
         UNCHANGED call, spurned \subseteq spurned', \A r \in Requests : applied'[r] >= applied[r],
         c # None /\ a = "ok" => applied'[call[c]] > 0,
         c # None /\ a = "refused" => call[c] \in Refusable,
         c # None /\ a = "limited" => call[c] \in spurned',
         applied' \in [Requests -> Nat]
  PROVE  \A d \in Clients :
           /\ answer'[d] = "ok" => applied'[call'[d]] > 0
           /\ answer'[d] = "refused" => call'[d] \in Refusable
           /\ answer'[d] = "limited" => call'[d] \in spurned'
<1> SUFFICES ASSUME NEW d \in Clients
             PROVE  /\ answer'[d] = "ok" => applied'[call[d]] > 0
                    /\ answer'[d] = "refused" => call[d] \in Refusable
                    /\ answer'[d] = "limited" => call[d] \in spurned'
  OBVIOUS
<1>0. None \notin Clients /\ answer \in [Clients -> Answers \union {"none"}]
      /\ applied \in [Requests -> Nat]
  BY IntakeIds DEF IInv, TypeOK
<1>1. CASE d = c
  <2>1. answer'[d] = a
    BY <1>0, <1>1 DEF Reply
  <2> QED BY <1>0, <1>1, <2>1
<1>2. CASE d # c
  <2>1. answer'[d] = answer[d]
    BY <1>0, <1>2 DEF Reply
  <2>2. answer[d] # "none" => call[d] \in Requests
    BY AnsweredHasCalled
  <2>3. /\ answer[d] = "ok" => applied[call[d]] > 0
        /\ answer[d] = "refused" => call[d] \in Refusable
        /\ answer[d] = "limited" => call[d] \in spurned
    BY DEF JudgedInv
  <2>4. answer[d] = "ok" => applied'[call[d]] > 0
    BY <1>0, <2>2, <2>3
  <2>5. answer[d] = "limited" => call[d] \in spurned'
    BY <2>3
  <2> QED BY <2>1, <2>3, <2>4, <2>5
<1> QED BY <1>1, <1>2

\* What the tabs do leaves the server as it is; a hung-up call has no answer.
LEMMA JudgedDevice ==
  ASSUME IInv, JudgedInv, NEW t \in Tabs,
         Device(t) \/ \E r \in Requests : SubmitOffline(t, r) \/ SubmitOnline(t, r)
  PROVE  JudgedInv'
<1>1. UNCHANGED <<spurned, server>>
  BY DEF Device, FlushStart, FlushNext, SubmitAnswered, FlushAnswered, SubmitOffline,
     SubmitOnline,
         network
<1>2. \A c \in Clients : answer'[c] = "none" \/ (answer'[c] = answer[c] /\ call'[c] = call[c])
  <2>1. ASSUME NEW c \in Clients, NEW r, Dial(c, r) \/ HangUp(c)
        PROVE  \A d \in Clients : answer'[d] = "none"
                 \/ (answer'[d] = answer[d] /\ call'[d] = call[d])
    BY <2>1 DEF Dial, HangUp, IInv, TypeOK
  <2>2. \/ \E c \in Clients : \E r : Dial(c, r) \/ HangUp(c)
        \/ UNCHANGED <<call, answer>>
    BY ClientsOfTabs DEF Device, FlushStart, FlushNext, SubmitAnswered, FlushAnswered,
       SubmitOffline,
       SubmitOnline
  <2> QED BY <2>1, <2>2
<1> QED BY <1>1, <1>2 DEF JudgedInv, server, tables, Keyed

LEMMA JudgedStep == IInv /\ JudgedInv /\ [Next]_vars => JudgedInv'
<1> SUFFICES ASSUME IInv, JudgedInv, [Next]_vars PROVE JudgedInv'
  OBVIOUS
<1>t. TypeOK /\ TypeOK'
  BY StepHolds DEF IInv
<1>a. \A r \in Requests : applied'[r] >= applied[r]
  BY AppliedGrows
<1>g. \A r \in Requests : applied[r] > 0 => applied'[r] > 0
  BY <1>a, <1>t DEF TypeOK
<1>R. Rounds \subseteq Requests
  BY DEF Requests
<1>k. /\ \A r \in Rounds : Keyed(r) # {} => applied[r] > 0
      /\ \A w \in Workers : task[w].at = "placed" => applied[task[w].req] > 0
           /\ task[w].req \in Requests
  BY DEF JudgedInv, IInv, IntakeInv, StagesInv, Requests
<1>1. ASSUME NEW t \in Tabs, Device(t) \/ \E r \in Requests : SubmitOffline(t, r)
               \/ SubmitOnline(t, r)
      PROVE  JudgedInv'
  BY <1>1, JudgedDevice
<1>2. ASSUME NEW c \in Clients, NetworkFails(c) PROVE JudgedInv'
  <2>1. Reply(c, "failed") /\ UNCHANGED <<call, spurned, applied, exists, key>>
    BY <1>2, IntakeIds DEF NetworkFails, Reply, tables
  <2>2. \A w \in Workers : task'[w].at = task[w].at /\ task'[w].req = task[w].req
    BY <1>2, <1>t DEF NetworkFails, Abandoned, TypeOK, Task
  <2>3. \A d \in Clients :
           /\ answer'[d] = "ok" => applied'[call'[d]] > 0
           /\ answer'[d] = "refused" => call'[d] \in Refusable
           /\ answer'[d] = "limited" => call'[d] \in spurned'
    BY <1>a, <1>t, <2>1, JudgedReply DEF TypeOK, Answers
  <2> QED BY <1>k, <2>1, <2>2, <2>3 DEF JudgedInv, Keyed
<1>3. ASSUME NEW m \in wire, TurnedAway(m) PROVE JudgedInv'
  <2>1. m.client \in Clients \union {None} /\ (m.client # None => call[m.client] = m.req)
    BY <1>t DEF IInv, IntakeInv, AnswersTheCall, TypeOK, Message
  <2>2. UNCHANGED <<call, applied, exists, key, task>>
    BY <1>3 DEF TurnedAway, server, tables
  <2>3. PICK a \in {"refused", "limited"} :
          /\ Reply(m.client, a)
          /\ spurned \subseteq spurned'
          /\ a = "refused" => m.req \in Refusable
          /\ a = "limited" => m.req \in spurned'
    BY <1>3 DEF TurnedAway
  <2>5. \A d \in Clients :
           /\ answer'[d] = "ok" => applied'[call'[d]] > 0
           /\ answer'[d] = "refused" => call'[d] \in Refusable
           /\ answer'[d] = "limited" => call'[d] \in spurned'
    BY <1>a, <1>t, <2>1, <2>2, <2>3, JudgedReply DEF TypeOK, Answers
  <2> QED BY <1>k, <2>2, <2>5 DEF JudgedInv, Keyed
<1>4. ASSUME NEW w \in Workers, NEW m \in wire, Arrive(w, m) PROVE JudgedInv'
  <2>1. UNCHANGED <<call, answer, spurned, applied, exists, key>>
    BY <1>4 DEF Arrive, device, tables
  <2>2. \A v \in Workers : task'[v].at = "placed" => applied[task'[v].req] > 0
    <3>1. PICK o \in exists \union {None}, s \in {"placed", "looking"} :
            /\ Stay(w, [req |-> m.req, client |-> m.client, at |-> s, order |-> o])
            /\ s = "placed" => m.req \in Rounds /\ Keyed(m.req) # {}
      <4>1. CASE m.req \in Rounds /\ Seen(m.req) # {}
        <5>1. PICK o \in Keyed(m.req) :
                Stay(w, [req |-> m.req, client |-> m.client, at |-> "placed", order |-> o])
          BY <1>4, <4>1 DEF Arrive, Seen, Stay
        <5> QED BY <4>1, <5>1 DEF Seen, Keyed
      <4>2. CASE ~(m.req \in Rounds /\ Seen(m.req) # {})
        <5>1. Stay(w, [req |-> m.req, client |-> m.client, at |-> "looking", order |-> None])
          BY <1>4, <4>2 DEF Arrive, Stay
        <5> QED BY <5>1
      <4> QED BY <4>1, <4>2
    <3>2. /\ task'[w] = [req |-> m.req, client |-> m.client, at |-> s, order |-> o]
          /\ \A v \in Workers \ {w} : task'[v] = task[v]
      BY <1>t, <3>1 DEF Stay, TypeOK
    <3> QED BY <1>k, <3>1, <3>2
  <2> QED BY <1>k, <2>1, <2>2 DEF JudgedInv, Keyed
<1>5. ASSUME NEW w \in Workers, Handle(w) \/ Dies(w) PROVE JudgedInv'
  <2>0. task[w] \in Task /\ task \in [Workers -> Task]
    BY <1>t DEF TypeOK
  <2>c. task[w].client \in Clients \union {None}
        /\ (task[w].client # None => call[task[w].client] = task[w].req)
    BY <2>0 DEF IInv, IntakeInv, AnswersTheCall, Task
  <2>1. CASE Look(w) \/ JoinCommit(w) \/ OpenCommit(w)
    <3>1. UNCHANGED <<call, answer, spurned>>
      BY <2>1 DEF Look, JoinCommit, OpenCommit, device, network
    <3>2. \A d \in Clients :
           /\ answer'[d] = "ok" => applied'[call'[d]] > 0
           /\ answer'[d] = "refused" => call'[d] \in Refusable
           /\ answer'[d] = "limited" => call'[d] \in spurned'
      <4>1. Reply(None, "ok")
        BY <3>1 DEF Reply
      <4> QED BY <1>a, <1>t, <3>1, <4>1, JudgedReply DEF TypeOK, Answers, JudgedInv
    <3>3. CASE Look(w)
      <4>1. UNCHANGED <<applied, exists, key>>
        BY <3>3 DEF Look, tables
      <4>2. task'[w].at # "placed" /\ \A v \in Workers \ {w} : task'[v] = task[v]
        BY <2>0, <3>3 DEF Look, Stay, Task
      <4> QED BY <1>k, <3>1, <3>2, <4>1, <4>2 DEF JudgedInv, Keyed
    <3>4. CASE JoinCommit(w) \/ OpenCommit(w)
      <4>1. task[w].req \in Rounds
        BY <3>4 DEF JoinCommit, OpenCommit, IInv, IntakeInv, StagesInv
      <4>2. PICK n : applied' = [applied EXCEPT ![task[w].req] = n] /\ n = applied[task[w].req] + 1
        BY <3>4 DEF JoinCommit, OpenCommit
      <4>3. applied'[task[w].req] > 0
        BY <1>t, <4>1, <4>2 DEF TypeOK, Requests
      <4>4. task'[w].req = task[w].req /\ \A v \in Workers \ {w} : task'[v] = task[v]
        <5>1. PICK h \in {[task[w] EXCEPT !.at = "placed"]} \union
                         {[task[w] EXCEPT !.at = "placed", !.order = o] : o \in Orders} : Stay(w, h)
          BY <3>4 DEF JoinCommit, OpenCommit
        <5>2. h.req = task[w].req
          BY <2>0 DEF Task
        <5> QED BY <2>0, <5>1, <5>2 DEF Stay
      <4>5. \A v \in Workers : task'[v].at = "placed" => applied'[task'[v].req] > 0
        BY <1>g, <1>k, <4>3, <4>4
      <4>6. \A r \in Rounds : Keyed(r)' # {} => Keyed(r) # {} \/ r = task[w].req
        <5>1. CASE JoinCommit(w)
          BY <5>1 DEF JoinCommit, Keyed
        <5>2. CASE OpenCommit(w)
          <6>1. PICK o \in Orders \ exists : exists' = exists \union {o}
                       /\ key' = [key EXCEPT ![o] = task[w].req]
            BY <5>2 DEF OpenCommit
          <6> QED BY <1>t, <6>1 DEF Keyed, TypeOK
        <5> QED BY <3>4, <5>1, <5>2
      <4>7. \A r \in Rounds : Keyed(r)' # {} => applied'[r] > 0
        BY <1>g, <1>k, <1>R, <4>3, <4>6
      <4> QED BY <1>k, <3>1, <3>2, <4>5, <4>7 DEF JudgedInv
    <3> QED BY <2>1, <3>3, <3>4
  <2>2. CASE OpenRefused(w) \/ Finish(w) \/ TapCommit(w) \/ Dies(w)
    <3>1. UNCHANGED <<call, spurned, exists, key>> /\ Done(w)
      BY <2>2 DEF OpenRefused, Finish, TapCommit, Dies, network, tables
    <3>2. PICK a \in {"failed", "ok"} : Reply(task[w].client, a)
                 /\ (a = "ok" => Finish(w) \/ TapCommit(w))
      BY <2>2 DEF OpenRefused, Finish, TapCommit, Dies
    <3>3. a = "ok" => applied'[task[w].req] > 0
      <4>1. CASE Finish(w)
        BY <1>k, <4>1 DEF Finish
      <4>2. CASE TapCommit(w)
        <5>1. task[w].req \in Requests /\ applied' = [applied EXCEPT ![task[w].req] = @ + 1]
          BY <4>2 DEF TapCommit, Requests
        <5> QED BY <1>t, <5>1 DEF TypeOK
      <4> QED BY <3>2, <4>1, <4>2
    <3>4. \A d \in Clients :
           /\ answer'[d] = "ok" => applied'[call'[d]] > 0
           /\ answer'[d] = "refused" => call'[d] \in Refusable
           /\ answer'[d] = "limited" => call'[d] \in spurned'
      BY <1>a, <1>t, <2>c, <3>1, <3>2, <3>3, JudgedReply DEF TypeOK, Answers
    <3>5. task'[w] = NoTask /\ \A v \in Workers \ {w} : task'[v] = task[v]
      BY <2>0, <3>1 DEF Done, Stay
    <3>6. \A v \in Workers : task'[v].at = "placed" => applied'[task'[v].req] > 0
      BY <1>g, <1>k, <3>5 DEF NoTask
    <3>7. \A r \in Rounds : applied[r] > 0 => applied'[r] > 0
      BY <1>g, <1>R
    <3> QED BY <1>k, <3>1, <3>4, <3>6, <3>7 DEF JudgedInv, Keyed
  <2> QED BY <1>5, <2>1, <2>2 DEF Handle
<1>6. CASE UNCHANGED vars
  BY <1>6 DEF vars, device, network, server, tables, JudgedInv, Keyed
<1> QED BY <1>1, <1>2, <1>3, <1>4, <1>5, <1>6 DEF Next, Delivered

\* What leaves the outbox has an answer.
LEMMA LeavesJudged ==
  ASSUME IInv, JudgedInv, [Next]_vars, NEW r \in outbox \ outbox'
  PROVE  Judged(r)
<1>1. CASE UNCHANGED outbox
  BY <1>1
<1>2. ASSUME NEW t \in Tabs, FlushAnswered(t)
      PROVE  Judged(r)
  <2>1. r = call[<<t, "flush">>] /\ answer[<<t, "flush">>] \in {"ok", "refused", "limited"}
    BY <1>2 DEF FlushAnswered, Final
  <2> QED BY <2>1, ClientsOfTabs DEF JudgedInv, Judged
<1>3. ASSUME NEW t \in Tabs, SubmitAnswered(t) \/ \E q \in Requests : SubmitOffline(t, q)
               \/ SubmitOnline(t, q)
      PROVE  outbox \subseteq outbox'
  BY <1>3 DEF SubmitAnswered, SubmitOffline, SubmitOnline, Enqueue
<1>4. ASSUME NEW t \in Tabs, FlushStart(t) \/ FlushNext(t) PROVE UNCHANGED outbox
  BY <1>4 DEF FlushStart, FlushNext
<1>5. ASSUME NEW c \in Clients, NetworkFails(c) PROVE UNCHANGED outbox
  BY <1>5 DEF NetworkFails
<1>6. ASSUME NEW m \in wire, TurnedAway(m) \/ \E w \in Workers : Arrive(w, m)
      PROVE UNCHANGED outbox
  BY <1>6 DEF TurnedAway, Arrive, device
<1>7. ASSUME NEW w \in Workers, Handle(w) \/ Dies(w) PROVE UNCHANGED outbox
  BY <1>7 DEF Handle, Look, OpenCommit, OpenRefused, JoinCommit, Finish, TapCommit, Dies, device
<1>8. UNCHANGED vars => UNCHANGED outbox
  BY DEF vars, device
<1> QED BY <1>1, <1>2, <1>3, <1>4, <1>5, <1>6, <1>7, <1>8 DEF Next, Device, Delivered

\* The places in the queue.
LEMMA PlacesCount ==
  ASSUME IInv
  PROVE  IsFiniteSet(Placed) /\ Cardinality(Placed) \in Nat
<1>1. IsFiniteSet(Placed)
  BY IntakeIds, FS_Subset DEF Placed
<1> QED BY <1>1, FS_CardinalityType

\* What is queued anew comes after everything else.
LEMMA Queued ==
  ASSUME IInv, DrainInv, NEW r \in Requests, r \notin Placed, Enqueue(r),
         UNCHANGED <<todo, applied, spurned>>,
         \A t \in Tabs : /\ Sending(t)' = Sending(t)
                         /\ Tapping(t)' = None \/ (Tapping(t)' = Tapping(t) /\ Tapping(t) # r)
  PROVE  PlacesInv' /\ ListingInv' /\ DrainedInOrder'
<1>0. PlacesInv /\ ListingInv /\ DrainedInOrder
  BY DEF DrainInv
<1>t. /\ queuedAt \in [Requests -> Nat] /\ outbox \subseteq Requests
      /\ \A t \in Tabs : Tapping(t) \in Requests \union {None}
           /\ Sending(t) \in Requests \union {None}
      /\ None \notin Requests
  BY ClientsOfTabs, IntakeIds DEF IInv, TypeOK, Tapping, Sending
<1>1. /\ outbox' = outbox \union {r}
      /\ queuedAt'[r] = 1 + Cardinality(Placed)
      /\ \A q \in Requests \ {r} : queuedAt'[q] = queuedAt[q]
  BY <1>t DEF Enqueue, Placed
<1>2. Placed' = Placed \union {r}
  BY <1>t, <1>1, PlacesCount DEF Placed
<1>3. Cardinality(Placed') = Cardinality(Placed) + 1 /\ Cardinality(Placed) \in Nat
  <2>1. Cardinality(Placed \union {r}) = Cardinality(Placed) + 1
    BY PlacesCount, FS_AddElement
  <2> QED BY <1>2, <2>1, PlacesCount
<1>4. \A q \in Requests : queuedAt[q] <= Cardinality(Placed)
  BY <1>0 DEF PlacesInv
<1>p. \A q \in Placed : q \in Requests /\ q # r /\ queuedAt'[q] = queuedAt[q]
        /\ queuedAt[q] < queuedAt'[r]
  BY <1>t, <1>1, <1>3, <1>4 DEF Placed
<1>l. \A t \in Tabs : Listed(t)' = Listed(t) /\ todo'[t] = todo[t]
  BY DEF Listed
<1>d. \A q \in Requests : Judged(q) => Judged(q)'
  BY DEF Judged
<1>s. \A t \in Tabs : /\ Listed(t) \subseteq Placed
                      /\ Sending(t) # None => Sending(t) \in Placed
                      /\ Tapping(t) # None => /\ Tapping(t) \notin Placed
                                              /\ \A u \in Tabs \ {t} : Tapping(u) # Tapping(t)
  BY <1>0 DEF PlacesInv
<1>o. outbox \subseteq Placed
  BY <1>0 DEF PlacesInv
<1>5. PlacesInv'
  <2>1. \A q \in Requests : queuedAt'[q] <= Cardinality(Placed')
    BY <1>t, <1>1, <1>3, <1>4
  <2>2. outbox' \subseteq Placed'
    BY <1>1, <1>2, <1>o
  <2>3. ASSUME NEW t \in Tabs
        PROVE  /\ Listed(t)' \subseteq Placed'
               /\ Sending(t)' # None => Sending(t)' \in Placed'
               /\ Tapping(t)' # None => /\ Tapping(t)' \notin Placed'
                                        /\ \A u \in Tabs \ {t} : Tapping(u)' # Tapping(t)'
    BY <1>2, <1>l, <1>s
  <2> QED BY <2>1, <2>2, <2>3 DEF PlacesInv
<1>6. ListingInv'
  <2> SUFFICES ASSUME NEW t \in Tabs
      PROVE  /\ \A i, j \in DOMAIN todo[t] : i < j => queuedAt'[todo[t][i]] < queuedAt'[todo[t][j]]
             /\ Sending(t) # None =>
                  /\ Sending(t) \in outbox' \/ Judged(Sending(t))'
                  /\ \A x \in Listed(t) : queuedAt'[Sending(t)] < queuedAt'[x]
             /\ \A x \in Listed(t) :
                  /\ x \in outbox' \/ Judged(x)'
                  /\ \A q \in outbox' : queuedAt'[q] < queuedAt'[x] =>
                       Judged(q)' \/ q \in Listed(t) \/ q = Sending(t)
    BY <1>l DEF ListingInv
  <2>1. \A i, j \in DOMAIN todo[t] : i < j => queuedAt'[todo[t][i]] < queuedAt'[todo[t][j]]
    <3>1. \A i \in DOMAIN todo[t] : todo[t][i] \in Placed
      BY <1>s DEF Listed
    <3> QED BY <1>0, <1>p, <3>1 DEF ListingInv
  <2>2. Sending(t) # None =>
          /\ Sending(t) \in outbox' \/ Judged(Sending(t))'
          /\ \A x \in Listed(t) : queuedAt'[Sending(t)] < queuedAt'[x]
    BY <1>0, <1>1, <1>d, <1>p, <1>s DEF ListingInv
  <2>3. ASSUME NEW x \in Listed(t)
        PROVE  /\ x \in outbox' \/ Judged(x)'
               /\ \A q \in outbox' : queuedAt'[q] < queuedAt'[x] =>
                    Judged(q)' \/ q \in Listed(t) \/ q = Sending(t)
    <3>1. x \in Placed /\ queuedAt'[x] < queuedAt'[r]
      BY <1>p, <1>s
    <3>2. queuedAt[x] \in Nat /\ queuedAt'[r] \in Nat /\ queuedAt'[x] = queuedAt[x]
      BY <1>1, <1>3, <1>p, <1>t, <3>1
    <3>3. x \in outbox' \/ Judged(x)'
      BY <1>0, <1>1, <1>d, <1>p, <3>1 DEF ListingInv
    <3>4. ASSUME NEW q \in outbox', queuedAt'[q] < queuedAt'[x]
          PROVE  Judged(q)' \/ q \in Listed(t) \/ q = Sending(t)
      <4>1. q # r
        BY <3>1, <3>2, <3>4
      <4>2. q \in outbox /\ q \in Requests /\ queuedAt'[q] = queuedAt[q]
        BY <1>1, <1>o, <1>p, <4>1
      <4>3. Judged(q) \/ q \in Listed(t) \/ q = Sending(t)
        BY <1>0, <3>2, <3>4, <4>2 DEF ListingInv
      <4> QED BY <1>d, <4>2, <4>3
    <3> QED BY <3>3, <3>4
  <2> QED BY <2>1, <2>2, <2>3
<1>7. DrainedInOrder'
  <2> SUFFICES ASSUME NEW t \in Tabs, NEW x \in Requests, Sending(t) = x,
                      NEW q \in outbox', queuedAt'[q] < queuedAt'[x]
               PROVE  Judged(q)'
    BY DEF DrainedInOrder, Sending, Judged
  <2>1. x \in Placed /\ queuedAt'[x] < queuedAt'[r]
    BY <1>p, <1>s, <1>t
  <2>2. queuedAt[x] \in Nat /\ queuedAt'[r] \in Nat /\ queuedAt'[x] = queuedAt[x]
    BY <1>1, <1>3, <1>p, <1>t, <2>1
  <2>3. q # r
    BY <2>1, <2>2
  <2>4. q \in outbox /\ q \in Requests /\ queuedAt'[q] = queuedAt[q]
    BY <1>1, <1>o, <1>p, <2>3
  <2>5. Judged(q)
    BY <1>0, <2>2, <2>4 DEF DrainedInOrder, Sending, Judged
  <2> QED BY <1>d, <2>4, <2>5
<1> QED BY <1>5, <1>6, <1>7

\* Steps that leave the queue as it is.
LEMMA SameQueue ==
  ASSUME IInv, DrainInv, UNCHANGED <<outbox, queuedAt, todo>>,
         \A r \in Requests : Judged(r) => Judged(r)',
         \A t \in Tabs : Sending(t)' = Sending(t),
         \A t \in Tabs : \/ Tapping(t)' = None
                         \/ Tapping(t)' = Tapping(t)
                         \/ Tapping(t)' \notin Placed /\ \A u \in Tabs \ {t} :
                              Tapping(u)' # Tapping(t)'
  PROVE  PlacesInv' /\ ListingInv' /\ DrainedInOrder'
<1>0. PlacesInv /\ ListingInv /\ DrainedInOrder
  BY DEF DrainInv
<1>t. /\ outbox \subseteq Requests /\ Placed \subseteq Requests
      /\ \A t \in Tabs : Sending(t) \in Requests \union {None}
  BY ClientsOfTabs DEF IInv, TypeOK, Sending, Placed
<1>1. Placed' = Placed /\ \A t \in Tabs : Listed(t)' = Listed(t)
  BY DEF Placed, Listed
<1>2. PlacesInv'
  <2>1. (\A r \in Requests : queuedAt'[r] <= Cardinality(Placed')) /\ outbox' \subseteq Placed'
    BY <1>0, <1>1 DEF PlacesInv
  <2>2. ASSUME NEW t \in Tabs
        PROVE  /\ Listed(t)' \subseteq Placed'
               /\ Sending(t)' # None => Sending(t)' \in Placed'
    BY <1>0, <1>1 DEF PlacesInv
  <2>3. ASSUME NEW t \in Tabs, Tapping(t)' # None
        PROVE  /\ Tapping(t)' \notin Placed'
               /\ \A u \in Tabs \ {t} : Tapping(u)' # Tapping(t)'
    <3>1. CASE Tapping(t)' = Tapping(t)
      <4>1. Tapping(t) \notin Placed /\ \A u \in Tabs \ {t} : Tapping(u) # Tapping(t)
        BY <1>0, <2>3, <3>1 DEF PlacesInv
      <4> QED BY <1>1, <2>3, <3>1, <4>1
    <3> QED BY <1>1, <2>3, <3>1
  <2> QED BY <2>1, <2>2, <2>3 DEF PlacesInv
<1>3. \A t \in Tabs : Listed(t) \subseteq Requests
  BY <1>0, <1>t DEF PlacesInv
<1>4. ListingInv'
  <2> SUFFICES ASSUME NEW t \in Tabs
      PROVE  /\ \A i, j \in DOMAIN todo[t] : i < j => queuedAt[todo[t][i]] < queuedAt[todo[t][j]]
             /\ Sending(t) # None =>
                  /\ Sending(t) \in outbox \/ Judged(Sending(t))'
                  /\ \A x \in Listed(t) : queuedAt[Sending(t)] < queuedAt[x]
             /\ \A x \in Listed(t) :
                  /\ x \in outbox \/ Judged(x)'
                  /\ \A q \in outbox : queuedAt[q] < queuedAt[x] =>
                       Judged(q)' \/ q \in Listed(t) \/ q = Sending(t)
    BY <1>1 DEF ListingInv
  <2> QED BY <1>0, <1>3, <1>t DEF ListingInv
<1>5. DrainedInOrder'
  <2> SUFFICES ASSUME NEW t \in Tabs, NEW x \in Requests, Sending(t) = x,
                      NEW q \in outbox, queuedAt[q] < queuedAt[x]
               PROVE  Judged(q)'
    BY DEF DrainedInOrder, Sending, Judged
  <2>1. Judged(q)
    BY <1>0 DEF DrainedInOrder, Sending, Judged
  <2> QED BY <1>t, <2>1
<1> QED BY <1>2, <1>4, <1>5

LEMMA HeadAndTail ==
  ASSUME NEW S, NEW s \in Seq(S), s # <<>>
  PROVE  /\ Head(s) = s[1] /\ 1 \in DOMAIN s /\ DOMAIN s \subseteq Nat \ {0}
         /\ DOMAIN Tail(s) \subseteq Nat \ {0}
         /\ \A i \in DOMAIN Tail(s) : i + 1 \in DOMAIN s /\ Tail(s)[i] = s[i + 1]
         /\ \A j \in DOMAIN s : j = 1 \/ (j - 1 \in DOMAIN Tail(s) /\ Tail(s)[j - 1] = s[j])
OBVIOUS

\* A flush that takes the first of what it has listed.
LEMMA Takes ==
  ASSUME IInv, DrainInv, UNCHANGED <<outbox, queuedAt, applied, spurned>>,
         NEW t \in Tabs, NEW s \in Seq(Requests), s # <<>>,
         todo' = [todo EXCEPT ![t] = Tail(s)], Sending(t)' = s[1],
         \A u \in Tabs : Tapping(u)' = Tapping(u),
         \A u \in Tabs \ {t} : Sending(u)' = Sending(u),
         \A i, j \in DOMAIN s : i < j => queuedAt[s[i]] < queuedAt[s[j]],
         \A i \in DOMAIN s : s[i] \in Placed /\ (s[i] \in outbox \/ Judged(s[i])),
         \A i \in DOMAIN s : \A q \in outbox :
            queuedAt[q] < queuedAt[s[i]] => Judged(q) \/ \E j \in DOMAIN s : q = s[j]
  PROVE  PlacesInv' /\ ListingInv' /\ DrainedInOrder'
<1>0. PlacesInv /\ ListingInv /\ DrainedInOrder
  BY DEF DrainInv
<1>t. /\ outbox \subseteq Requests /\ Placed \subseteq Requests /\ queuedAt \in [Requests -> Nat]
      /\ todo \in [Tabs -> Seq(Requests)]
  BY DEF IInv, TypeOK, Placed
<1>s. /\ 1 \in DOMAIN s /\ DOMAIN s \subseteq Nat \ {0}
      /\ DOMAIN Tail(s) \subseteq Nat \ {0}
      /\ \A i \in DOMAIN Tail(s) : i + 1 \in DOMAIN s /\ Tail(s)[i] = s[i + 1]
      /\ \A j \in DOMAIN s : j = 1 \/ (j - 1 \in DOMAIN Tail(s) /\ Tail(s)[j - 1] = s[j])
  BY HeadAndTail
<1>1. Placed' = Placed /\ \A r : Judged(r)' <=> Judged(r)
  BY DEF Placed, Judged
<1>2. /\ todo'[t] = Tail(s)
      /\ \A u \in Tabs \ {t} : todo'[u] = todo[u] /\ Listed(u)' = Listed(u)
  BY <1>t DEF Listed
<1>3. /\ \A x \in Listed(t)' : \E i \in DOMAIN s : i > 1 /\ x = s[i]
      /\ \A i \in DOMAIN s : i = 1 \/ s[i] \in Listed(t)'
  <2>1. Listed(t)' = {Tail(s)[i] : i \in DOMAIN Tail(s)}
    BY <1>2 DEF Listed
  <2>2. ASSUME NEW x \in Listed(t)' PROVE \E i \in DOMAIN s : i > 1 /\ x = s[i]
    <3>1. PICK i \in DOMAIN Tail(s) : x = Tail(s)[i]
      BY <2>1, <2>2
    <3>2. i + 1 \in DOMAIN s /\ i + 1 > 1 /\ x = s[i + 1]
      BY <1>s, <3>1
    <3> QED BY <3>2
  <2>3. ASSUME NEW i \in DOMAIN s PROVE i = 1 \/ s[i] \in Listed(t)'
    BY <1>s, <2>1
  <2> QED BY <2>2, <2>3
<1>4. PlacesInv'
  <2>1. (\A r \in Requests : queuedAt'[r] <= Cardinality(Placed')) /\ outbox' \subseteq Placed'
    BY <1>0, <1>1 DEF PlacesInv
  <2>2. ASSUME NEW u \in Tabs
        PROVE  /\ Tapping(u)' # None => /\ Tapping(u)' \notin Placed'
                                        /\ \A v \in Tabs \ {u} : Tapping(v)' # Tapping(u)'
    BY <1>0, <1>1 DEF PlacesInv
  <2>3. ASSUME NEW u \in Tabs
        PROVE  Listed(u)' \subseteq Placed' /\ (Sending(u)' # None => Sending(u)' \in Placed')
    <3>1. CASE u = t
      BY <1>1, <1>3, <1>s, <3>1
    <3>2. CASE u # t
      BY <1>0, <1>1, <1>2, <3>2 DEF PlacesInv
    <3> QED BY <3>1, <3>2
  <2> QED BY <2>1, <2>2, <2>3 DEF PlacesInv
<1>5. ListingInv'
  <2>1. ASSUME NEW u \in Tabs \ {t}
        PROVE  /\ \A i, j \in DOMAIN todo'[u] : i < j =>
                    queuedAt'[todo'[u][i]] < queuedAt'[todo'[u][j]]
               /\ Sending(u)' # None =>
                    /\ Sending(u)' \in outbox' \/ Judged(Sending(u))'
                    /\ \A x \in Listed(u)' : queuedAt'[Sending(u)'] < queuedAt'[x]
               /\ \A x \in Listed(u)' :
                    /\ x \in outbox' \/ Judged(x)'
                    /\ \A q \in outbox' : queuedAt'[q] < queuedAt'[x] =>
                         Judged(q)' \/ q \in Listed(u)' \/ q = Sending(u)'
    <3>1. (Judged(Sending(u))' <=> Judged(Sending(u)))
      BY <2>1 DEF Judged
    <3> QED BY <1>0, <1>1, <1>2, <2>1, <3>1 DEF ListingInv
  <2>2. \A i, j \in DOMAIN Tail(s) : i < j => queuedAt[Tail(s)[i]] < queuedAt[Tail(s)[j]]
    <3> SUFFICES ASSUME NEW i \in DOMAIN Tail(s), NEW j \in DOMAIN Tail(s), i < j
                 PROVE  queuedAt[Tail(s)[i]] < queuedAt[Tail(s)[j]]
      OBVIOUS
    <3>1. i + 1 < j + 1 /\ i + 1 \in DOMAIN s /\ j + 1 \in DOMAIN s
      BY <1>s
    <3>2. queuedAt[s[i + 1]] < queuedAt[s[j + 1]]
      BY <3>1
    <3> QED BY <1>s, <3>2
  <2>3. /\ s[1] \in outbox \/ Judged(s[1])
        /\ \A x \in Listed(t)' : queuedAt[s[1]] < queuedAt[x]
    BY <1>3, <1>s
  <2>4. ASSUME NEW x \in Listed(t)'
        PROVE  /\ x \in outbox \/ Judged(x)
               /\ \A q \in outbox : queuedAt[q] < queuedAt[x] =>
                    Judged(q) \/ q \in Listed(t)' \/ q = s[1]
    <3>1. PICK i \in DOMAIN s : x = s[i]
      BY <1>3, <2>4
    <3> QED BY <1>3, <3>1
  <2>5. Judged(Sending(t))' <=> Judged(s[1])
    BY DEF Judged
  <2> QED BY <1>1, <1>2, <2>1, <2>2, <2>3, <2>4, <2>5 DEF ListingInv
<1>6. DrainedInOrder'
  <2> SUFFICES ASSUME NEW u \in Tabs, NEW x \in Requests, Sending(u)' = x,
                      NEW q \in outbox, queuedAt[q] < queuedAt[x]
               PROVE  Judged(q)
    BY <1>1 DEF DrainedInOrder, Sending, Judged
  <2>1. CASE u # t
    BY <1>0, <2>1 DEF DrainedInOrder, Sending, Judged
  <2>2. CASE u = t
    <3>1. x = s[1]
      BY <2>2
    <3>2. ASSUME NEW j \in DOMAIN s, q = s[j] PROVE FALSE
      <4>1. CASE j = 1
        BY <1>t, <3>1, <3>2, <4>1
      <4>2. CASE j # 1
        <5>1. 1 < j
          BY <1>s, <4>2
        <5>2. queuedAt[s[1]] < queuedAt[s[j]]
          BY <1>s, <5>1
        <5>3. queuedAt[q] \in Nat /\ queuedAt[x] \in Nat
          BY <1>t
        <5> QED BY <3>1, <3>2, <5>2, <5>3
      <4> QED BY <4>1, <4>2
    <3> QED BY <1>s, <3>1, <3>2
  <2> QED BY <2>1, <2>2
<1> QED BY <1>4, <1>5, <1>6

LEMMA CallsOfTabs ==
  ASSUME IInv, NEW t \in Tabs, NEW x
  PROVE  /\ call' = [call EXCEPT ![<<t, "flush">>] = x] =>
              /\ Sending(t)' = x
              /\ \A u \in Tabs : Tapping(u)' = Tapping(u) /\ (u # t => Sending(u)' = Sending(u))
         /\ call' = [call EXCEPT ![<<t, "submit">>] = x] =>
              /\ Tapping(t)' = x
              /\ \A u \in Tabs : Sending(u)' = Sending(u) /\ (u # t => Tapping(u)' = Tapping(u))
BY ClientsOfTabs DEF IInv, TypeOK, Sending, Tapping

\* A flush that has its answer removes the request or stores it again.
LEMMA FlushJudged ==
  ASSUME IInv, DrainInv, NEW t \in Tabs, FlushAnswered(t)
  PROVE  PlacesInv' /\ ListingInv' /\ DrainedInOrder'
<1> DEFINE r == Sending(t)
           a == answer[<<t, "flush">>]
<1>0. PlacesInv /\ ListingInv /\ DrainedInOrder /\ JudgedInv
  BY DEF DrainInv
<1>t. /\ outbox \subseteq Requests /\ Placed \subseteq Requests /\ queuedAt \in [Requests -> Nat]
      /\ todo \in [Tabs -> Seq(Requests)]
      /\ None \notin Requests
  BY IntakeIds DEF IInv, TypeOK, Placed
<1>r. r \in Requests
  BY ClientsOfTabs, AnsweredHasCalled DEF FlushAnswered, Sending
<1>p. UNCHANGED <<applied, spurned, queuedAt>>
  BY DEF FlushAnswered, network, server, tables
<1>1. Placed' = Placed /\ \A x : Judged(x)' <=> Judged(x)
  BY <1>p DEF Placed, Judged
<1>2. /\ Sending(t)' = None
      /\ \A u \in Tabs : Tapping(u)' = Tapping(u) /\ (u # t => Sending(u)' = Sending(u))
  BY CallsOfTabs DEF FlushAnswered, HangUp
<1>3. /\ queuedAt' = queuedAt
      /\ todo' = [todo EXCEPT ![t] = Rest(t, a)]
      /\ outbox' = IF Final(a) THEN outbox \ {r} ELSE outbox \union {r}
  BY DEF FlushAnswered, Sending
<1>4. \A u \in Tabs \ {t} : todo'[u] = todo[u] /\ Listed(u)' = Listed(u)
  BY <1>3, <1>t DEF Listed
<1>5. /\ todo'[t] = todo[t] \/ todo'[t] = <<>>
      /\ Final(a) => todo'[t] = todo[t]
      /\ ~Final(a) => todo'[t] = <<>>
  BY <1>3, <1>t DEF Rest
<1>6. /\ Listed(t)' \subseteq Listed(t)
      /\ ~Final(a) => Listed(t)' = {}
  BY <1>5 DEF Listed
<1>7. r \in Placed /\ (r \in outbox \/ Judged(r))
  <2>1. Sending(t) # None
    BY <1>r, <1>t
  <2>2. Sending(t) \in Placed
    BY <1>0, <2>1 DEF PlacesInv
  <2>3. Sending(t) \in outbox \/ Judged(Sending(t))
    BY <1>0, <2>1 DEF ListingInv
  <2> QED BY <2>2, <2>3
<1>8. \A u \in Tabs \ {t} : Final(a) /\ (r = Sending(u) \/ r \in Listed(u)) => Judged(r)
  <2> SUFFICES ASSUME NEW u \in Tabs \ {t}, Final(a) PROVE Judged(r)
    OBVIOUS
  <2>1. a \in {"ok", "refused", "limited"}
    BY DEF Final
  <2> QED BY <1>0, <2>1, ClientsOfTabs DEF JudgedInv, Judged, Sending
<1>9. PlacesInv'
  <2>1. (\A q \in Requests : queuedAt'[q] <= Cardinality(Placed')) /\ outbox' \subseteq Placed'
    BY <1>0, <1>1, <1>3, <1>7 DEF PlacesInv
  <2>2. ASSUME NEW u \in Tabs
        PROVE  /\ Listed(u)' \subseteq Placed'
               /\ Sending(u)' # None => Sending(u)' \in Placed'
    <3>1. CASE u = t
      BY <1>0, <1>1, <1>2, <1>6, <3>1 DEF PlacesInv
    <3>2. CASE u # t
      BY <1>0, <1>1, <1>2, <1>4, <3>2 DEF PlacesInv
    <3> QED BY <3>1, <3>2
  <2>3. ASSUME NEW u \in Tabs
        PROVE  Tapping(u)' # None => /\ Tapping(u)' \notin Placed'
                                     /\ \A v \in Tabs \ {u} : Tapping(v)' # Tapping(u)'
    BY <1>0, <1>1, <1>2 DEF PlacesInv
  <2> QED BY <2>1, <2>2, <2>3 DEF PlacesInv
<1>10. ASSUME NEW u \in Tabs \ {t}
       PROVE  /\ \A i, j \in DOMAIN todo'[u] : i < j =>
                   queuedAt'[todo'[u][i]] < queuedAt'[todo'[u][j]]
              /\ Sending(u)' # None =>
                   /\ Sending(u)' \in outbox' \/ Judged(Sending(u))'
                   /\ \A x \in Listed(u)' : queuedAt'[Sending(u)'] < queuedAt'[x]
              /\ \A x \in Listed(u)' :
                   /\ x \in outbox' \/ Judged(x)'
                   /\ \A q \in outbox' : queuedAt'[q] < queuedAt'[x] =>
                        Judged(q)' \/ q \in Listed(u)' \/ q = Sending(u)'
  <2>1. (Judged(Sending(u))' <=> Judged(Sending(u))) /\ Sending(u)' = Sending(u)
    BY <1>2, <1>10, <1>p DEF Judged
  <2>2. \A i, j \in DOMAIN todo'[u] : i < j => queuedAt'[todo'[u][i]] < queuedAt'[todo'[u][j]]
    BY <1>0, <1>3, <1>4, <1>10 DEF ListingInv
  <2>3. ASSUME Sending(u) # None
        PROVE  /\ Sending(u) \in outbox' \/ Judged(Sending(u))
               /\ \A x \in Listed(u) : queuedAt[Sending(u)] < queuedAt[x]
    BY <1>0, <1>3, <1>8, <1>10, <2>3 DEF ListingInv
  <2>4. ASSUME NEW x \in Listed(u)
        PROVE  /\ x \in outbox' \/ Judged(x)
               /\ \A q \in outbox' : queuedAt[q] < queuedAt[x] =>
                    Judged(q) \/ q \in Listed(u) \/ q = Sending(u)
    <3>1. x \in outbox' \/ Judged(x)
      BY <1>0, <1>3, <1>8, <1>10, <2>4 DEF ListingInv
    <3>2. ASSUME NEW q \in outbox', queuedAt[q] < queuedAt[x]
          PROVE  Judged(q) \/ q \in Listed(u) \/ q = Sending(u)
      <4>1. q \in outbox \/ Judged(q)
        BY <1>3, <1>7
      <4> QED BY <1>0, <1>10, <2>4, <3>2, <4>1 DEF ListingInv
    <3> QED BY <3>1, <3>2
  <2> QED BY <1>1, <1>3, <1>4, <1>10, <2>1, <2>2, <2>3, <2>4
<1>11. /\ \A i, j \in DOMAIN todo'[t] : i < j => queuedAt'[todo'[t][i]] < queuedAt'[todo'[t][j]]
       /\ \A x \in Listed(t)' :
            /\ x \in outbox' \/ Judged(x)'
            /\ \A q \in outbox' : queuedAt'[q] < queuedAt'[x] =>
                 Judged(q)' \/ q \in Listed(t)' \/ q = Sending(t)'
  <2>1. CASE Final(a)
    <3>1. todo'[t] = todo[t] /\ Listed(t)' = Listed(t) /\ outbox' = outbox \ {r}
      BY <1>3, <1>5, <2>1 DEF Listed
    <3>2. \A x \in Listed(t) : x # r
      <4> SUFFICES ASSUME r \in Listed(t) PROVE FALSE
        OBVIOUS
      <4>1. queuedAt[r] < queuedAt[r] /\ queuedAt[r] \in Nat
        BY <1>0, <1>r, <1>t DEF ListingInv
      <4> QED BY <4>1
    <3> QED BY <1>0, <1>1, <1>3, <3>1, <3>2 DEF ListingInv
  <2>2. CASE ~Final(a)
    BY <1>5, <1>6, <2>2
  <2> QED BY <2>1, <2>2
<1>12. ListingInv'
  BY <1>2, <1>10, <1>11 DEF ListingInv
<1>13. DrainedInOrder'
  <2> SUFFICES ASSUME NEW u \in Tabs, NEW x \in Requests, Sending(u)' = x,
                      NEW q \in outbox', queuedAt[q] < queuedAt[x]
               PROVE  Judged(q)
    BY <1>1, <1>3 DEF DrainedInOrder, Sending, Judged
  <2>1. u # t /\ Sending(u) = x
    BY <1>2, <1>t
  <2>2. q \in outbox \/ Judged(q)
    BY <1>3, <1>7
  <2> QED BY <1>0, <2>1, <2>2 DEF DrainedInOrder, Sending, Judged
<1> QED BY <1>9, <1>12, <1>13

\* The listing of the outbox holds all of it, once each.
LEMMA ListingIsAll ==
  ASSUME IInv, outbox # {}, NEW q, Pending(q)
  PROVE  /\ q \in Seq(outbox) /\ q # <<>>
         /\ \A x \in outbox : \E i \in DOMAIN q : q[i] = x
         /\ \A i, j \in DOMAIN q : i < j => queuedAt[q[i]] < queuedAt[q[j]]
<1> DEFINE n == Cardinality(outbox)
<1>1. IsFiniteSet(outbox) /\ n \in Nat /\ n # 0
  <2>1. IsFiniteSet(outbox)
    BY IntakeIds, FS_Subset DEF IInv, TypeOK
  <2> QED BY <2>1, FS_CardinalityType, FS_EmptySet
<1>2. q \in [1 .. n -> outbox] /\ \A i, j \in 1 .. n : i < j => queuedAt[q[i]] < queuedAt[q[j]]
  BY DEF Pending
<1> HIDE DEF n
<1>3. \A i, j \in 1 .. n : q[i] = q[j] => i = j
  <2> SUFFICES ASSUME NEW i \in 1 .. n, NEW j \in 1 .. n, q[i] = q[j], i < j PROVE FALSE
    BY <1>1
  <2>1. queuedAt[q[i]] < queuedAt[q[j]] /\ q[i] \in outbox
    BY <1>2
  <2>2. queuedAt[q[i]] \in Nat
    BY <2>1 DEF IInv, TypeOK
  <2> QED BY <2>1, <2>2
<1>4. q \in Injection(1 .. n, outbox)
  BY <1>2, <1>3 DEF Injection, IsInjective
<1>5. Cardinality(1 .. n) = n
  BY <1>1, FS_Interval
<1>6. q \in Surjection(1 .. n, outbox)
  BY <1>1, <1>4, <1>5, FS_Injection DEF n
<1>7. \A x \in outbox : \E i \in 1 .. n : q[i] = x
  BY <1>6 DEF Surjection
<1>8. q \in Seq(outbox) /\ DOMAIN q = 1 .. n /\ q # <<>>
  BY <1>1, <1>2
<1> QED BY <1>2, <1>7, <1>8

LEMMA DrainStart == Init => DrainInv
<1> SUFFICES ASSUME Init PROVE DrainInv
  OBVIOUS
<1>1. /\ outbox = {} /\ \A t \in Tabs : Sending(t) = None /\ Tapping(t) = None /\ Listed(t) = {}
      /\ \A t \in Tabs : DOMAIN todo[t] = {}
  BY ClientsOfTabs DEF Init, Sending, Tapping, Listed
<1>2. Placed = {}
  BY DEF Init, Placed
<1>3. PlacesInv
  BY <1>1, <1>2, FS_EmptySet DEF Init, PlacesInv
<1>4. ListingInv
  BY <1>1 DEF ListingInv
<1>5. DrainedInOrder
  BY <1>1 DEF DrainedInOrder
<1> QED BY <1>3, <1>4, <1>5, JudgedStart DEF DrainInv

LEMMA DrainStep ==
  ASSUME IInv, DrainInv, [Next]_vars
  PROVE  DrainInv'
<1>0. PlacesInv /\ ListingInv /\ DrainedInOrder
  BY DEF DrainInv
<1>j. JudgedInv'
  BY JudgedStep DEF DrainInv
<1>t. TypeOK /\ None \notin Requests
  BY IntakeIds DEF IInv
<1>d. \A r \in Requests : Judged(r) => Judged(r)'
  <2>1. \A r \in Requests : applied'[r] >= applied[r]
    BY AppliedGrows
  <2>2. applied \in [Requests -> Nat] /\ applied' \in [Requests -> Nat]
    BY StepHolds DEF IInv, TypeOK
  <2>3. \A r \in Requests : applied[r] > 0 => applied'[r] > 0
    BY <2>1, <2>2
  <2>4. spurned \subseteq spurned'
    BY SpurnedGrows
  <2> QED BY <2>3, <2>4 DEF Judged
<1> SUFFICES PlacesInv' /\ ListingInv' /\ DrainedInOrder'
  BY <1>j DEF DrainInv
<1>1. ASSUME NEW t \in Tabs, NEW r \in Requests, SubmitOffline(t, r)
      PROVE  PlacesInv' /\ ListingInv' /\ DrainedInOrder'
  <2>1. r \notin Placed /\ \A u \in Tabs : Tapping(u) # r
    <3>1. queuedAt[r] = 0 /\ \A c \in Clients : call[c] # r
      BY <1>1 DEF SubmitOffline, Fresh
    <3>2. r \notin Placed
      BY <3>1 DEF Placed
    <3>3. \A u \in Tabs : Tapping(u) # r
      BY <3>1, ClientsOfTabs DEF Tapping
    <3> QED BY <3>2, <3>3
  <2>2. UNCHANGED <<call, todo, applied, spurned>> /\ Enqueue(r)
    BY <1>1 DEF SubmitOffline, network, server, tables
  <2>3. \A u \in Tabs : Sending(u)' = Sending(u) /\ Tapping(u)' = Tapping(u)
    BY <2>2 DEF Sending, Tapping
  <2> QED BY <2>1, <2>2, <2>3, Queued
<1>2. ASSUME NEW t \in Tabs, NEW r \in Requests, SubmitOnline(t, r)
      PROVE  PlacesInv' /\ ListingInv' /\ DrainedInOrder'
  <2>1. r \notin Placed /\ \A u \in Tabs : Tapping(u) # r
    <3>1. queuedAt[r] = 0 /\ \A c \in Clients : call[c] # r
      BY <1>2 DEF SubmitOnline, Fresh
    <3>2. r \notin Placed
      BY <3>1 DEF Placed
    <3>3. \A u \in Tabs : Tapping(u) # r
      BY <3>1, ClientsOfTabs DEF Tapping
    <3> QED BY <3>2, <3>3
  <2>2. call' = [call EXCEPT ![<<t, "submit">>] = r] /\ UNCHANGED <<outbox, queuedAt, todo>>
    BY <1>2 DEF SubmitOnline, Dial
  <2>3. Tapping(t)' = r /\ \A u \in Tabs : Sending(u)' = Sending(u)
          /\ (u # t => Tapping(u)' = Tapping(u))
    BY <2>2, CallsOfTabs
  <2> QED BY <1>d, <2>1, <2>2, <2>3, SameQueue
<1>3. ASSUME NEW t \in Tabs, FlushStart(t)
      PROVE  PlacesInv' /\ ListingInv' /\ DrainedInOrder'
  <2>1. PICK q : /\ Pending(q) /\ outbox # {}
                 /\ Dial(<<t, "flush">>, q[1])
                 /\ todo' = [todo EXCEPT ![t] = Tail(q)]
    BY <1>3 DEF FlushStart
  <2>2. /\ q \in Seq(outbox) /\ q # <<>>
        /\ \A x \in outbox : \E i \in DOMAIN q : q[i] = x
        /\ \A i, j \in DOMAIN q : i < j => queuedAt[q[i]] < queuedAt[q[j]]
    BY <2>1, ListingIsAll
  <2>3. q \in Seq(Requests) /\ \A i \in DOMAIN q : q[i] \in outbox
    BY <1>t, <2>2 DEF TypeOK
  <2>4. UNCHANGED <<outbox, queuedAt, applied, spurned>>
    BY <1>3 DEF FlushStart, server, tables
  <2>5. /\ Sending(t)' = q[1]
        /\ \A u \in Tabs : Tapping(u)' = Tapping(u) /\ (u # t => Sending(u)' = Sending(u))
    BY <2>1, CallsOfTabs DEF Dial
  <2>6. outbox \subseteq Placed
    BY <1>0 DEF PlacesInv
  <2> QED BY <2>1, <2>2, <2>3, <2>4, <2>5, <2>6, Takes
<1>4. ASSUME NEW t \in Tabs, FlushNext(t)
      PROVE  PlacesInv' /\ ListingInv' /\ DrainedInOrder'
  <2> DEFINE s == todo[t]
  <2>1. s \in Seq(Requests) /\ s # <<>> /\ Head(s) = s[1]
    BY <1>4, <1>t DEF FlushNext, TypeOK
  <2>2. call' = [call EXCEPT ![<<t, "flush">>] = s[1]] /\ todo' = [todo EXCEPT ![t] = Tail(s)]
    BY <1>4, <2>1 DEF FlushNext, Dial
  <2>3. UNCHANGED <<outbox, queuedAt, applied, spurned>> /\ Sending(t) = None
    BY <1>4 DEF FlushNext, server, tables, Free, Sending
  <2>4. /\ Sending(t)' = s[1]
        /\ \A u \in Tabs : Tapping(u)' = Tapping(u) /\ (u # t => Sending(u)' = Sending(u))
    BY <2>2, CallsOfTabs
  <2>5. \A i \in DOMAIN s : s[i] \in Listed(t)
    BY DEF Listed
  <2>6. \A i, j \in DOMAIN s : i < j => queuedAt[s[i]] < queuedAt[s[j]]
    BY <1>0 DEF ListingInv
  <2>7. \A i \in DOMAIN s : s[i] \in Placed /\ (s[i] \in outbox \/ Judged(s[i]))
    BY <1>0, <2>5 DEF PlacesInv, ListingInv
  <2>8. \A i \in DOMAIN s : \A q \in outbox :
          queuedAt[q] < queuedAt[s[i]] => Judged(q) \/ \E j \in DOMAIN s : q = s[j]
    <3> SUFFICES ASSUME NEW i \in DOMAIN s, NEW q \in outbox, queuedAt[q] < queuedAt[s[i]]
                 PROVE  Judged(q) \/ \E j \in DOMAIN s : q = s[j]
      OBVIOUS
    <3>1. Judged(q) \/ q \in Listed(t) \/ q = Sending(t)
      BY <1>0, <2>5 DEF ListingInv
    <3>2. q # None
      BY <1>t DEF TypeOK
    <3> QED BY <2>3, <3>1, <3>2 DEF Listed
  <2> HIDE DEF s
  <2> QED BY <2>1, <2>2, <2>3, <2>4, <2>6, <2>7, <2>8, Takes
<1>5. ASSUME NEW t \in Tabs, SubmitAnswered(t)
      PROVE  PlacesInv' /\ ListingInv' /\ DrainedInOrder'
  <2>1. /\ call' = [call EXCEPT ![<<t, "submit">>] = None]
        /\ UNCHANGED <<todo, applied, spurned>>
        /\ UNCHANGED <<outbox, queuedAt>> \/ Enqueue(Tapping(t))
    BY <1>5 DEF SubmitAnswered, HangUp, network, server, tables, Tapping
  <2>2. /\ Tapping(t)' = None
        /\ \A u \in Tabs : Sending(u)' = Sending(u) /\ (u # t => Tapping(u)' = Tapping(u))
    BY <2>1, CallsOfTabs
  <2>3. Tapping(t) \in Requests
    BY <1>5, ClientsOfTabs, AnsweredHasCalled DEF SubmitAnswered, Tapping
  <2>4. Tapping(t) \notin Placed /\ \A u \in Tabs \ {t} : Tapping(u) # Tapping(t)
    BY <1>0, <1>t, <2>3 DEF PlacesInv
  <2>5. CASE UNCHANGED <<outbox, queuedAt>>
    BY <1>d, <2>1, <2>2, <2>5, SameQueue
  <2>6. CASE Enqueue(Tapping(t))
    BY <2>1, <2>2, <2>3, <2>4, <2>6, Queued
  <2> QED BY <2>1, <2>5, <2>6
<1>6. ASSUME NEW t \in Tabs, FlushAnswered(t)
      PROVE  PlacesInv' /\ ListingInv' /\ DrainedInOrder'
  BY <1>6, FlushJudged
<1>7. CASE UNCHANGED <<call, outbox, queuedAt, todo>>
  <2>1. \A u \in Tabs : Sending(u)' = Sending(u) /\ Tapping(u)' = Tapping(u)
    BY <1>7 DEF Sending, Tapping
  <2> QED BY <1>7, <1>d, <2>1, SameQueue
<1>8. \/ \E t \in Tabs : \/ Device(t)
                         \/ \E r \in Requests : SubmitOffline(t, r) \/ SubmitOnline(t, r)
      \/ UNCHANGED <<call, outbox, queuedAt, todo>>
  <2>1. ASSUME NEW c \in Clients, NetworkFails(c)
        PROVE UNCHANGED <<call, outbox, queuedAt, todo>>
    BY <2>1 DEF NetworkFails
  <2>2. ASSUME NEW m, TurnedAway(m) \/ \E w \in Workers : Arrive(w, m)
        PROVE  UNCHANGED <<call, outbox, queuedAt, todo>>
    BY <2>2 DEF TurnedAway, Arrive, device
  <2>3. ASSUME NEW w \in Workers, Handle(w) \/ Dies(w)
        PROVE  UNCHANGED <<call, outbox, queuedAt, todo>>
    BY <2>3 DEF Handle, Look, OpenCommit, OpenRefused, JoinCommit, Finish, TapCommit, Dies,
       device
  <2>4. UNCHANGED vars => UNCHANGED <<call, outbox, queuedAt, todo>>
    BY DEF vars, device
  <2> QED BY <2>1, <2>2, <2>3, <2>4 DEF Next, Delivered
<1> QED BY <1>1, <1>2, <1>3, <1>4, <1>5, <1>6, <1>7, <1>8 DEF Device

\* However requests are queued, sent again, lost and turned away, by however many
\* tabs: a request leaves the outbox only with an answer of its own or carried out,
\* and the outbox is drained in the order it was filled (offline.ts:116-118).
THEOREM QueueKeepsItsFaith == Spec => QueueKeepsFaith
<1>1. Init => IInv /\ DrainInv
  BY InitHolds, DrainStart
<1>2. IInv /\ DrainInv /\ [Next]_vars => (IInv /\ DrainInv)'
  BY StepHolds, DrainStep
<1>3. IInv /\ DrainInv /\ [Next]_vars =>
        [\A r \in outbox \ outbox' : Judged(r)]_vars
  BY LeavesJudged DEF DrainInv
<1>4. DrainInv => DrainedInOrder
  BY DEF DrainInv
<1> QED BY <1>1, <1>2, <1>3, <1>4, PTL DEF Spec, QueueKeepsFaith, LeavesWhenJudged

-----------------------------------------------------------------------------
\* One tab: a request is in one place.

\* With one tab no two clients wait for one request.
LEMMA OneCaller ==
  ASSUME IInv, OneTab, InOnePlace, NEW c \in Clients, NEW d \in Clients,
         call[c] = call[d], call[c] # None
  PROVE  c = d
<1>1. PICK t \in Tabs : c \in {<<t, "submit">>, <<t, "flush">>}
             /\ d \in {<<t, "submit">>, <<t, "flush">>}
  BY DEF Clients, OneTab
<1>2. ~(Tapping(t) = Sending(t) /\ Sending(t) # None)
  BY DEF InOnePlace
<1> QED BY <1>1, <1>2 DEF Tapping, Sending

\* What is carried out now was on its way nowhere else.
LEMMA CarriedOutOnce ==
  ASSUME IInv, OneTab, InOnePlace, NEW w \in Workers, task[w] # NoTask, task[w].at # "placed",
         UNCHANGED <<call, outbox, todo, wire>>,
         applied' = [applied EXCEPT ![task[w].req] = @ + 1],
         \A v \in Workers \ {w} : task'[v] = task[v],
         \/ task'[w] = NoTask
         \/ task'[w].at = "placed" /\ task'[w].client = task[w].client,
         \A c \in Clients : answer'[c] # "failed"
  PROVE  InOnePlace'
<1> DEFINE r == task[w].req
           c == task[w].client
<1>t. /\ applied \in [Requests -> Nat] /\ outbox \subseteq Requests /\ wire \subseteq Message
      /\ task \in [Workers -> Task]
  BY DEF IInv, TypeOK
<1>0. task[w] \in Task /\ task[w].at # "idle"
  BY <1>t DEF IInv, IntakeInv, StagesInv
<1>1. r \in Requests /\ c \in Clients /\ call[c] = r /\ applied[r] = 0 /\ c # None
  <2>1. r \in Requests
    BY <1>0 DEF IInv, IntakeInv, StagesInv, Task, Stages, Requests
  <2>2. c # None /\ applied[r] = 0
    BY DEF InOnePlace
  <2>3. c \in Clients /\ call[c] = r
    BY <1>0, <2>2 DEF Task, IInv, IntakeInv, AnswersTheCall
  <2> QED BY <2>1, <2>2, <2>3
<1>2. applied'[r] = 1 /\ \A q \in Requests \ {r} : applied'[q] = applied[q]
  BY <1>t, <1>1
<1>n. r # None
  BY <1>1, IntakeIds
<1>3. ASSUME NEW m \in wire PROVE m.client # None /\ applied'[m.req] = 0
  <2>1. m.client # None /\ applied[m.req] = 0 /\ m.req \in Requests /\ m.client \in Clients
    BY <1>t DEF InOnePlace, Message
  <2>2. call[m.client] = m.req /\ m.client # c
    BY <2>1 DEF IInv, IntakeInv, AnswersTheCall
  <2>3. m.req # r
    BY <1>1, <1>n, <2>1, <2>2, OneCaller
  <2> QED BY <1>2, <2>1, <2>3
<1>4. ASSUME NEW v \in Workers, task'[v] # NoTask
      PROVE  task'[v].client # None /\ (task'[v].at # "placed" => applied'[task'[v].req] = 0)
  <2>1. CASE v = w
    BY <1>1, <1>4, <2>1
  <2>2. CASE v # w
    <3>1. /\ task'[v] = task[v] /\ task[v].client # None
          /\ task[v].at # "placed" => applied[task[v].req] = 0
      BY <1>4, <2>2 DEF InOnePlace
    <3>2. task[v] \in Task /\ task[v].at # "idle"
      BY <1>t, <1>4, <3>1 DEF IInv, IntakeInv, StagesInv
    <3>3. task[v].req \in Requests /\ task[v].client \in Clients
            /\ call[task[v].client] = task[v].req
      <4>1. task[v].req \in Requests
        BY <3>2 DEF IInv, IntakeInv, StagesInv, Task, Stages, Requests
      <4> QED BY <3>1, <3>2, <4>1 DEF Task, IInv, IntakeInv, AnswersTheCall
    <3>4. task[v].client # c
      BY <1>1, <2>2 DEF IInv, IntakeInv, AnswersTheCall
    <3>5. task[v].req # r
      BY <1>1, <1>n, <3>3, <3>4, OneCaller
    <3> QED BY <1>2, <3>1, <3>3, <3>5
  <2> QED BY <2>1, <2>2
<1>5. ASSUME NEW t \in Tabs
      PROVE  /\ Tapping(t)' \notin outbox' /\ Sending(t)' \notin Listed(t)'
             /\ \A i, j \in DOMAIN todo'[t] : i # j => todo'[t][i] # todo'[t][j]
             /\ Listed(t)' \subseteq outbox'
             /\ Sending(t)' # None => Sending(t)' \in outbox'
  <2>1. Tapping(t)' = Tapping(t) /\ Sending(t)' = Sending(t) /\ Listed(t)' = Listed(t)
    BY DEF Tapping, Sending, Listed
  <2> QED BY <2>1 DEF InOnePlace
<1>6. ASSUME NEW q \in outbox, \A t \in Tabs : Sending(t)' # q PROVE applied'[q] = 0
  <2>1. applied[q] = 0 /\ \A t \in Tabs : Sending(t) # q
    BY <1>6 DEF Sending, InOnePlace
  <2>2. PICK t \in Tabs : c = <<t, "submit">> \/ c = <<t, "flush">>
    BY <1>1 DEF Clients
  <2>3. q # r
    <3>1. CASE c = <<t, "submit">>
      <4>1. Tapping(t) = r /\ Tapping(t) \notin outbox
        BY <1>1, <3>1 DEF InOnePlace, Tapping
      <4> QED BY <1>6, <4>1
    <3>2. CASE c = <<t, "flush">>
      <4>1. Sending(t) = r
        BY <1>1, <3>2 DEF Sending
      <4> QED BY <2>1, <4>1
    <3> QED BY <2>2, <3>1, <3>2
  <2> QED BY <1>t, <1>2, <2>1, <2>3
<1>7. ASSUME NEW q \in Rounds PROVE applied'[q] <= 1
  BY <1>2 DEF InOnePlace, Requests
<1> QED BY <1>3, <1>4, <1>5, <1>6, <1>7 DEF InOnePlace

\* Steps of a server that carry nothing out, and of the network.
LEMMA NothingCarriedOut ==
  ASSUME IInv, InOnePlace, UNCHANGED <<call, outbox, todo, applied>>, wire' \subseteq wire,
         \A w \in Workers :
            \/ task'[w] = NoTask
            \/ task'[w].client # None /\ (task'[w].at = "placed" \/ applied[task'[w].req] = 0),
         \A c \in Clients : answer'[c] # "failed"
  PROVE  InOnePlace'
<1>1. \A t \in Tabs : Tapping(t)' = Tapping(t) /\ Sending(t)' = Sending(t) /\ Listed(t)' = Listed(t)
  BY DEF Tapping, Sending, Listed
<1> QED BY <1>1 DEF InOnePlace

\* The one tab takes up a request that is queued.
LEMMA SendsOnce ==
  ASSUME IInv, OneTab, InOnePlace, NEW t \in Tabs, Sending(t) = None,
         NEW s \in Seq(outbox), s # <<>>, \A i, j \in DOMAIN s : i # j => s[i] # s[j],
         Dial(<<t, "flush">>, s[1]), todo' = [todo EXCEPT ![t] = Tail(s)],
         UNCHANGED <<outbox, applied, task>>
  PROVE  InOnePlace'
<1>t. /\ todo \in [Tabs -> Seq(Requests)] /\ None \notin outbox
      /\ answer \in [Clients -> Answers \union {"none"}]
  BY IntakeIds DEF IInv, TypeOK
<1>s. /\ 1 \in DOMAIN s /\ DOMAIN s \subseteq Nat \ {0}
      /\ DOMAIN Tail(s) \subseteq Nat \ {0}
      /\ \A i \in DOMAIN Tail(s) : i + 1 \in DOMAIN s /\ Tail(s)[i] = s[i + 1]
      /\ \A i \in DOMAIN s : s[i] \in outbox
  BY HeadAndTail
<1>1. /\ Sending(t)' = s[1]
      /\ \A u \in Tabs : u = t /\ Tapping(u)' = Tapping(u)
  BY CallsOfTabs DEF Dial, OneTab
<1>2. todo'[t] = Tail(s)
  BY <1>t
<1>3. \A q \in outbox : applied[q] = 0
  <2>1. \A q \in outbox : \A u \in Tabs : Sending(u) # q
    BY <1>t DEF OneTab
  <2> QED BY <2>1 DEF InOnePlace
<1>4. \A m \in wire' : m.client # None /\ applied[m.req] = 0
  <2>1. wire' = wire \union {[req |-> s[1], client |-> <<t, "flush">>]} /\ <<t, "flush">> # None
    BY ClientsOfTabs, IntakeIds DEF Dial
  <2> QED BY <1>3, <1>s, <2>1 DEF InOnePlace
<1>5. \A c \in Clients : answer'[c] # "failed"
  BY <1>t DEF Dial, InOnePlace
<1>6. ASSUME NEW u \in Tabs
      PROVE  /\ Tapping(u)' \notin outbox' /\ Sending(u)' \notin Listed(u)'
             /\ \A i, j \in DOMAIN todo'[u] : i # j => todo'[u][i] # todo'[u][j]
             /\ Listed(u)' \subseteq outbox'
             /\ Sending(u)' # None => Sending(u)' \in outbox'
  <2>1. u = t /\ Tapping(t)' \notin outbox
    BY <1>1 DEF InOnePlace
  <2>2. Listed(t)' = {Tail(s)[i] : i \in DOMAIN Tail(s)}
    BY <1>2 DEF Listed
  <2>3. \A i, j \in DOMAIN Tail(s) : i # j => Tail(s)[i] # Tail(s)[j]
    <3> SUFFICES ASSUME NEW i \in DOMAIN Tail(s), NEW j \in DOMAIN Tail(s), i # j
                 PROVE  Tail(s)[i] # Tail(s)[j]
      OBVIOUS
    <3>1. i + 1 # j + 1 /\ i + 1 \in DOMAIN s /\ j + 1 \in DOMAIN s
      BY <1>s
    <3> QED BY <1>s, <3>1
  <2>4. \A i \in DOMAIN Tail(s) : Tail(s)[i] # s[1] /\ Tail(s)[i] \in outbox
    <3> SUFFICES ASSUME NEW i \in DOMAIN Tail(s)
                 PROVE Tail(s)[i] # s[1] /\ Tail(s)[i] \in outbox
      OBVIOUS
    <3>1. i + 1 # 1 /\ i + 1 \in DOMAIN s
      BY <1>s
    <3> QED BY <1>s, <3>1
  <2> QED BY <1>1, <1>2, <1>s, <2>1, <2>2, <2>3, <2>4
<1>7. /\ \A w \in Workers :
           task[w] # NoTask =>
             /\ task[w].client # None
             /\ task[w].at # "placed" => applied[task[w].req] = 0
      /\ \A r \in Rounds : applied[r] <= 1
  BY DEF InOnePlace
<1> QED BY <1>3, <1>4, <1>5, <1>6, <1>7 DEF InOnePlace

LEMMA OnceStart == Init => OnceInv
<1> SUFFICES ASSUME Init PROVE InOnePlace
  BY DEF OnceInv
<1>1. \A t \in Tabs : Sending(t) = None /\ Tapping(t) = None
  BY ClientsOfTabs DEF Init, Sending, Tapping
<1>2. \A t \in Tabs : DOMAIN todo[t] = {}
  BY DEF Init
<1>3. \A t \in Tabs : Listed(t) = {}
  BY <1>2 DEF Listed
<1> QED BY <1>1, <1>2, <1>3 DEF Init, InOnePlace, Requests

LEMMA OnceStep ==
  ASSUME IInv, JudgedInv, OnceInv, OneTab, [Next]_vars
  PROVE  OnceInv'
<1>t. /\ TypeOK /\ TypeOK' /\ None \notin outbox
      /\ wire \subseteq Message /\ task \in [Workers -> Task]
      /\ losses \in Nat /\ deaths \in Nat
  BY StepHolds, IntakeIds DEF IInv, TypeOK
<1>1. ASSUME NEW c \in Clients, NetworkFails(c) PROVE ~Calm'
  <2>1. losses' = losses + 1 /\ deaths' = deaths
    BY <1>1 DEF NetworkFails
  <2> QED BY <1>t, <2>1 DEF Calm
<1>2. ASSUME NEW w \in Workers, Dies(w) PROVE ~Calm'
  <2>1. deaths' = deaths + 1 /\ losses' = losses
    BY <1>2 DEF Dies, network
  <2> QED BY <1>t, <2>1 DEF Calm
<1>3. \/ \E c \in Clients : NetworkFails(c)
      \/ \E w \in Workers : Dies(w)
      \/ UNCHANGED <<losses, deaths>>
  <2>1. ASSUME NEW t \in Tabs, Device(t) \/ \E r \in Requests : SubmitOffline(t, r)
                 \/ SubmitOnline(t, r)
        PROVE  UNCHANGED <<losses, deaths>>
    BY <2>1 DEF Device, FlushStart, FlushNext, SubmitAnswered, FlushAnswered,
                SubmitOffline, SubmitOnline, network, server
  <2>2. ASSUME NEW m, TurnedAway(m) \/ \E w \in Workers : Arrive(w, m)
        PROVE UNCHANGED <<losses, deaths>>
    BY <2>2 DEF TurnedAway, Arrive, server
  <2>3. ASSUME NEW w \in Workers, Handle(w) PROVE UNCHANGED <<losses, deaths>>
    BY <2>3 DEF Handle, Look, OpenCommit, OpenRefused, JoinCommit, Finish, TapCommit, network
  <2>4. UNCHANGED vars => UNCHANGED <<losses, deaths>>
    BY DEF vars, network, server
  <2> QED BY <2>1, <2>2, <2>3, <2>4 DEF Next, Delivered
<1> SUFFICES ASSUME UNCHANGED <<losses, deaths>>, InOnePlace PROVE InOnePlace'
  <2>1. Calm' => UNCHANGED <<losses, deaths>>
    BY <1>1, <1>2, <1>3
  <2>2. UNCHANGED <<losses, deaths>> => (Calm' <=> Calm)
    BY DEF Calm
  <2>3. OnceInv' <=> (Calm' => InOnePlace')
    BY DEF OnceInv
  <2> QED BY <2>1, <2>2, <2>3 DEF OnceInv
<1>f. \A r \in Requests : Fresh(r) => /\ applied[r] = 0 /\ r \notin outbox /\ r # None
                                      /\ \A u \in Tabs : Tapping(u) # r /\ Sending(u) # r
  <2> SUFFICES ASSUME NEW r \in Requests, Fresh(r)
               PROVE  /\ applied[r] = 0 /\ r \notin outbox /\ r # None
                      /\ \A u \in Tabs : Tapping(u) # r /\ Sending(u) # r
    OBVIOUS
  <2>1. applied[r] = 0 /\ r \notin outbox /\ \A c \in Clients : call[c] # r
    BY DEF Fresh
  <2> QED BY <2>1, IntakeIds, ClientsOfTabs DEF Tapping, Sending
<1>b. /\ \A m \in wire : m.client # None /\ applied[m.req] = 0
      /\ \A w \in Workers :
           task[w] # NoTask =>
             /\ task[w].client # None
             /\ task[w].at # "placed" => applied[task[w].req] = 0
      /\ \A c \in Clients : answer[c] # "failed"
  BY DEF InOnePlace
<1>w. \A w \in Workers : task[w] # NoTask => task[w].client # None
        /\ (task[w].at = "placed" \/ applied[task[w].req] = 0)
  BY <1>b
<1>4. ASSUME NEW t \in Tabs, NEW r \in Requests, SubmitOffline(t, r) PROVE InOnePlace'
  <2>1. UNCHANGED <<call, answer, todo, wire, task, applied>> /\ outbox' = outbox \union {r}
    BY <1>4 DEF SubmitOffline, Enqueue, network, server, tables
  <2>2. applied[r] = 0 /\ \A u \in Tabs : Tapping(u) # r
    BY <1>4, <1>f DEF SubmitOffline
  <2>3. \A u \in Tabs : Tapping(u)' = Tapping(u) /\ Sending(u)' = Sending(u)
          /\ Listed(u)' = Listed(u)
    BY <2>1 DEF Tapping, Sending, Listed
  <2> QED BY <2>1, <2>2, <2>3 DEF InOnePlace
<1>5. ASSUME NEW t \in Tabs, NEW r \in Requests, SubmitOnline(t, r) PROVE InOnePlace'
  <2>1. UNCHANGED <<outbox, todo, task, applied>> /\ Dial(<<t, "submit">>, r)
    BY <1>5 DEF SubmitOnline, server, tables
  <2>2. applied[r] = 0 /\ r \notin outbox
    BY <1>5, <1>f DEF SubmitOnline
  <2>3. /\ Tapping(t)' = r
        /\ \A u \in Tabs : u = t /\ Sending(u)' = Sending(u) /\ Listed(u)' = Listed(u)
    BY <2>1, CallsOfTabs DEF Dial, OneTab, Listed
  <2>4. wire' = wire \union {[req |-> r, client |-> <<t, "submit">>]} /\ <<t, "submit">> # None
    BY <2>1, ClientsOfTabs, IntakeIds DEF Dial
  <2>5. \A c \in Clients : answer'[c] # "failed"
    BY <1>b, <1>t, <2>1 DEF Dial, TypeOK
  <2>6. \A m \in wire' : m.client # None /\ applied[m.req] = 0
    BY <1>b, <2>2, <2>4
  <2>7. \A u \in Tabs :
          /\ Tapping(u)' \notin outbox' /\ Sending(u)' \notin Listed(u)'
          /\ \A i, j \in DOMAIN todo'[u] : i # j => todo'[u][i] # todo'[u][j]
          /\ Listed(u)' \subseteq outbox'
          /\ Sending(u)' # None => Sending(u)' \in outbox'
    BY <2>1, <2>2, <2>3 DEF InOnePlace
  <2>8. \A q \in outbox : (\A u \in Tabs : Sending(u)' # q) => applied[q] = 0
    BY <2>3 DEF InOnePlace
  <2>9. \A q \in Rounds : applied[q] <= 1
    BY DEF InOnePlace
  <2> QED BY <1>b, <2>1, <2>5, <2>6, <2>7, <2>8, <2>9 DEF InOnePlace
<1>6. ASSUME NEW t \in Tabs, FlushStart(t) PROVE InOnePlace'
  <2>1. PICK q : /\ Pending(q) /\ outbox # {}
                 /\ Dial(<<t, "flush">>, q[1])
                 /\ todo' = [todo EXCEPT ![t] = Tail(q)]
    BY <1>6 DEF FlushStart
  <2>2. /\ q \in Seq(outbox) /\ q # <<>>
        /\ \A i, j \in DOMAIN q : i < j => queuedAt[q[i]] < queuedAt[q[j]]
    BY <2>1, ListingIsAll
  <2>3. \A i, j \in DOMAIN q : i # j => q[i] # q[j]
    <3>1. ASSUME NEW i \in DOMAIN q, NEW j \in DOMAIN q, i < j PROVE q[i] # q[j]
      <4>1. queuedAt[q[i]] < queuedAt[q[j]] /\ q[i] \in outbox
        BY <2>2, <3>1
      <4>2. queuedAt[q[i]] \in Nat
        BY <1>t, <4>1 DEF TypeOK
      <4> QED BY <4>1, <4>2
    <3>2. DOMAIN q \subseteq Nat
      BY <2>2
    <3>3. \A i, j \in DOMAIN q : i # j => i < j \/ j < i
      BY <3>2
    <3> QED BY <3>1, <3>3
  <2>4. UNCHANGED <<outbox, applied, task>> /\ Sending(t) = None
    BY <1>6 DEF FlushStart, server, tables, Free, Sending
  <2> QED BY <2>1, <2>2, <2>3, <2>4, SendsOnce
<1>7. ASSUME NEW t \in Tabs, FlushNext(t) PROVE InOnePlace'
  <2> DEFINE s == todo[t]
  <2>1. s \in Seq(Requests) /\ s # <<>> /\ Head(s) = s[1]
    BY <1>7, <1>t DEF FlushNext, TypeOK
  <2>2. \A i \in DOMAIN s : s[i] \in outbox
    BY DEF InOnePlace, Listed
  <2>3. s \in Seq(outbox)
    <3>1. DOMAIN s = 1 .. Len(s) /\ Len(s) \in Nat
      BY <2>1
    <3>2. s \in [1 .. Len(s) -> outbox]
      <4>1. s = [i \in 1 .. Len(s) |-> s[i]]
        BY <2>1
      <4> HIDE DEF s
      <4> QED BY <2>2, <3>1, <4>1
    <3> HIDE DEF s
    <3> QED BY <3>1, <3>2
  <2>4. \A i, j \in DOMAIN s : i # j => s[i] # s[j]
    BY DEF InOnePlace
  <2>5. Dial(<<t, "flush">>, s[1]) /\ todo' = [todo EXCEPT ![t] = Tail(s)]
    BY <1>7, <2>1 DEF FlushNext
  <2>6. UNCHANGED <<outbox, applied, task>> /\ Sending(t) = None
    BY <1>7 DEF FlushNext, server, tables, Free, Sending
  <2> HIDE DEF s
  <2> QED BY <2>1, <2>3, <2>4, <2>5, <2>6, SendsOnce
<1>8. ASSUME NEW t \in Tabs, SubmitAnswered(t) PROVE InOnePlace'
  <2>1. Final(answer[<<t, "submit">>])
    <3>1. answer[<<t, "submit">>] \in Answers
      BY <1>8, <1>t, ClientsOfTabs DEF SubmitAnswered, TypeOK
    <3> QED BY <1>b, <3>1, ClientsOfTabs DEF Answers, Final
  <2>2. UNCHANGED <<outbox, todo, wire, task, applied>> /\ HangUp(<<t, "submit">>)
    BY <1>8, <2>1 DEF SubmitAnswered, network, server, tables
  <2>3. /\ Tapping(t)' = None
        /\ \A u \in Tabs : u = t /\ Sending(u)' = Sending(u) /\ Listed(u)' = Listed(u)
    BY <2>2, CallsOfTabs DEF HangUp, OneTab, Listed
  <2>4. \A c \in Clients : answer'[c] # "failed"
    BY <1>b, <1>t, <2>2 DEF HangUp, TypeOK
  <2> QED BY <1>t, <2>2, <2>3, <2>4 DEF InOnePlace
<1>9. ASSUME NEW t \in Tabs, FlushAnswered(t) PROVE InOnePlace'
  <2>1. Final(answer[<<t, "flush">>])
    <3>1. answer[<<t, "flush">>] \in Answers
      BY <1>9, <1>t, ClientsOfTabs DEF FlushAnswered, TypeOK
    <3> QED BY <1>b, <3>1, ClientsOfTabs DEF Answers, Final
  <2>2. /\ UNCHANGED <<todo, wire, task, applied>> /\ HangUp(<<t, "flush">>)
        /\ outbox' = outbox \ {Sending(t)}
    BY <1>9, <1>t, <2>1 DEF FlushAnswered, Rest, TypeOK, network, server, tables, Sending
  <2>3. /\ Sending(t)' = None
        /\ \A u \in Tabs : u = t /\ Tapping(u)' = Tapping(u) /\ Listed(u)' = Listed(u)
    BY <2>2, CallsOfTabs DEF HangUp, OneTab, Listed
  <2>4. \A c \in Clients : answer'[c] # "failed"
    BY <1>b, <1>t, <2>2 DEF HangUp, TypeOK
  <2>5. \A u \in Tabs :
          /\ Tapping(u)' \notin outbox' /\ Sending(u)' \notin Listed(u)'
          /\ \A i, j \in DOMAIN todo'[u] : i # j => todo'[u][i] # todo'[u][j]
          /\ Listed(u)' \subseteq outbox'
          /\ Sending(u)' # None => Sending(u)' \in outbox'
    BY <1>t, <2>2, <2>3 DEF InOnePlace
  <2>6. \A q \in outbox' : applied[q] = 0
    BY <2>2, <2>3 DEF InOnePlace
  <2> QED BY <1>b, <2>2, <2>4, <2>5, <2>6 DEF InOnePlace
<1>10. ASSUME NEW m \in wire, TurnedAway(m) PROVE InOnePlace'
  <2>1. UNCHANGED <<call, outbox, todo, applied, task>> /\ wire' \subseteq wire
    BY <1>10 DEF TurnedAway, server, tables
  <2>2. PICK a \in {"refused", "limited"} : Reply(m.client, a)
    BY <1>10 DEF TurnedAway
  <2>3. \A c \in Clients : answer'[c] # "failed"
    BY <1>b, <1>t, <2>2 DEF Reply, TypeOK
  <2> QED BY <1>w, <2>1, <2>3, NothingCarriedOut
<1>11. ASSUME NEW w \in Workers, NEW m \in wire, Arrive(w, m) PROVE InOnePlace'
  <2>1. UNCHANGED <<call, answer, outbox, todo, applied>> /\ wire' \subseteq wire
    BY <1>11 DEF Arrive, device, tables
  <2>2. task'[w].client = m.client /\ task'[w].req = m.req /\ \A v \in Workers \ {w} :
          task'[v] = task[v]
    BY <1>11, <1>t DEF Arrive, Stay
  <2> QED BY <1>b, <1>w, <2>1, <2>2, NothingCarriedOut
<1>12. ASSUME NEW w \in Workers, Look(w) PROVE InOnePlace'
  <2>1. UNCHANGED <<call, answer, outbox, todo, applied, wire>>
    BY <1>12 DEF Look, device, network, tables
  <2>2. task[w] \in Task /\ task[w].at = "looking" /\ task[w] # NoTask
    <3>1. task[w].at = "looking"
      BY <1>12 DEF Look
    <3>2. NoTask.at = "idle"
      BY DEF NoTask
    <3> QED BY <1>t, <3>1, <3>2
  <2>3. task'[w].client = task[w].client /\ task'[w].req = task[w].req /\ \A v \in Workers \ {w} :
          task'[v] = task[v]
    BY <1>12, <1>t, <2>2 DEF Look, Stay, Task
  <2> QED BY <1>b, <1>w, <2>1, <2>2, <2>3, NothingCarriedOut
<1>13. ASSUME NEW w \in Workers, OpenCommit(w) \/ JoinCommit(w) PROVE InOnePlace'
  <2>1. UNCHANGED <<call, answer, outbox, todo, wire>>
          /\ applied' = [applied EXCEPT ![task[w].req] = @ + 1]
    BY <1>13 DEF OpenCommit, JoinCommit, device, network
  <2>2. task[w] \in Task /\ task[w].at \in {"opening", "joining"} /\ task[w] # NoTask
    <3>1. task[w].at \in {"opening", "joining"}
      BY <1>13 DEF OpenCommit, JoinCommit
    <3>2. NoTask.at = "idle"
      BY DEF NoTask
    <3> QED BY <1>t, <3>1, <3>2
  <2>3. PICK h \in {[task[w] EXCEPT !.at = "placed"]} \union
                   {[task[w] EXCEPT !.at = "placed", !.order = o] : o \in Orders} : Stay(w, h)
    BY <1>13 DEF JoinCommit, OpenCommit
  <2>4. h.at = "placed" /\ h.client = task[w].client
    BY <2>2 DEF Task
  <2>5. task'[w].at = "placed" /\ task'[w].client = task[w].client /\ \A v \in Workers \ {w} :
          task'[v] = task[v]
    BY <1>t, <2>3, <2>4 DEF Stay
  <2> QED BY <1>b, <2>1, <2>2, <2>5, CarriedOutOnce
<1>14. ASSUME NEW w \in Workers, TapCommit(w) PROVE InOnePlace'
  <2>1. UNCHANGED <<call, outbox, todo, wire>> /\ applied' = [applied EXCEPT ![task[w].req] = @ + 1]
    BY <1>14 DEF TapCommit, network
  <2>2. task[w].at = "looking" /\ task[w] # NoTask
    BY <1>14 DEF TapCommit, NoTask
  <2>3. task'[w] = NoTask /\ \A v \in Workers \ {w} : task'[v] = task[v]
    BY <1>14, <1>t DEF TapCommit, Done, Stay
  <2>4. \A c \in Clients : answer'[c] # "failed"
    BY <1>b, <1>14, <1>t DEF TapCommit, Reply, TypeOK
  <2> QED BY <2>1, <2>2, <2>3, <2>4, CarriedOutOnce
<1>15. ASSUME NEW w \in Workers, Finish(w) PROVE InOnePlace'
  <2>1. UNCHANGED <<call, outbox, todo, wire, applied>>
    BY <1>15 DEF Finish, network
  <2>3. task'[w] = NoTask /\ \A v \in Workers \ {w} : task'[v] = task[v]
    BY <1>15, <1>t DEF Finish, Done, Stay
  <2>4. \A c \in Clients : answer'[c] # "failed"
    BY <1>b, <1>15, <1>t DEF Finish, Reply, TypeOK
  <2> QED BY <1>w, <2>1, <2>3, <2>4, NothingCarriedOut
<1>16. ASSUME NEW w \in Workers, OpenRefused(w) PROVE FALSE
  <2>1. task[w].at = "opening" /\ Keyed(task[w].req) # {}
    BY <1>16 DEF OpenRefused, KeyInserts
  <2>2. task[w].req \in Rounds /\ task[w] # NoTask
    BY <2>1 DEF IInv, IntakeInv, StagesInv, NoTask
  <2>3. applied[task[w].req] > 0 /\ applied[task[w].req] = 0
    BY <1>b, <2>1, <2>2 DEF JudgedInv
  <2> QED BY <2>3
<1>17. CASE UNCHANGED vars
  <2>1. UNCHANGED <<call, answer, outbox, todo, wire, applied, task>>
    BY <1>17 DEF vars, device, network, server, tables
  <2> QED BY <1>b, <1>w, <2>1, NothingCarriedOut
<1>18. ASSUME NEW w \in Workers, Dies(w) PROVE FALSE
  <2>1. deaths' = deaths + 1
    BY <1>18 DEF Dies
  <2> QED BY <1>t, <2>1
<1>19. ASSUME NEW c \in Clients, NetworkFails(c) PROVE FALSE
  <2>1. losses' = losses + 1
    BY <1>19 DEF NetworkFails
  <2> QED BY <1>t, <2>1
<1> QED BY <1>4, <1>5, <1>6, <1>7, <1>8, <1>9, <1>10, <1>11, <1>12, <1>13, <1>14, <1>15,
           <1>16, <1>17, <1>18, <1>19 DEF Next, Delivered, Handle, Device

\* However rounds and taps overlap and are turned away: a device with one tab has
\* no round billed twice while no call and no handler has failed.
THEOREM TwiceOnlyByFailure ==
  ASSUME OneTab
  PROVE  Spec => []TwiceNeedsFailure
<1>1. Init => IInv /\ JudgedInv /\ OnceInv
  BY InitHolds, JudgedStart, OnceStart
<1>2. IInv /\ JudgedInv /\ OnceInv /\ [Next]_vars => (IInv /\ JudgedInv /\ OnceInv)'
  BY StepHolds, JudgedStep, OnceStep
<1>3. IInv /\ OnceInv => TwiceNeedsFailure
  <2> SUFFICES ASSUME IInv, OnceInv, NEW r \in Rounds, applied[r] > 1, ~(losses + deaths > 0)
               PROVE  FALSE
    BY DEF TwiceNeedsFailure
  <2>1. losses + deaths = 0 /\ applied[r] \in Nat
    BY DEF IInv, TypeOK, Requests
  <2>2. applied[r] <= 1
    BY <2>1 DEF OnceInv, Calm, InOnePlace
  <2> QED BY <2>1, <2>2
<1> QED BY <1>1, <1>2, <1>3, PTL DEF Spec
=============================================================================
