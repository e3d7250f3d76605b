---------------------------- MODULE Daemon_proofs ----------------------------
(* What callers of the login are told and join, for any callers, any       *)
(* number of authorizations and any number of lives of the daemon.  One    *)
(* inductive invariant carries all of it:                                  *)
(*   TypeOK            the port has one holder, a connection that brings a *)
(*                     flow up has one in hand                             *)
(*   Named             what was stored, told or is about to be told of a   *)
(*                     flow is the name of who began it                    *)
(*   InHand            a flow being brought up is its bringer's own, and   *)
(*                     where it stands fits where the bringer stands       *)
(*   CurrentStands     the flow that is joined was begun, by the daemon    *)
(*   JoinsTheWaiting   the property itself, which is its own strengthening *)
EXTENDS Daemon, TLAPS

Named ==
  /\ \A s \in stored : s.name = starter[s.opened] /\ stage[s.opened] # "none"
  /\ \A t \in told : t.label = starter[t.flow] /\ stage[t.flow] # "none"
  /\ \A c \in Callers : reply[c].ask = "login" =>
       /\ reply[c].flow \in Flows /\ stage[reply[c].flow] # "none"
       /\ reply[c].label = starter[reply[c].flow]

InHand ==
  /\ \A c \in Callers : work[c] # NoFlow => starter[work[c]] = c
  /\ \A c \in Callers : at[c] = "begun" => stage[work[c]] = "begun"
  /\ \A c \in Callers : at[c] = "spawned" => stage[work[c]] \notin {"none", "begun"}

CurrentStands ==
  current # NoFlow => InDaemon(current) /\ stage[current] \notin {"none", "begun"}

IInv == TypeOK /\ Named /\ InHand /\ CurrentStands /\ JoinsTheWaiting

-----------------------------------------------------------------------------
(* One lemma for each action, one step for each part of the invariant.     *)

LEMMA KeepsAskShutdown ==
  ASSUME IInv, NEW c \in Callers, AskShutdown(c)
  PROVE  IInv'
<1>1. TypeOK'
  BY FlowAssumption, LifeAssumption DEF IInv, TypeOK, AskShutdown, Flows, NoFlow,
     Names, Stages, Holding, Places, Loops, Running, flowVars, Reply, Answers,
     Waiting
<1>2. Named'
  BY FlowAssumption DEF IInv, Named, AskShutdown, Flows, NoFlow, flowVars, Reply,
     Answers, Running
<1>3. InHand'
  BY DEF IInv, InHand, AskShutdown, NoFlow, flowVars, Reply, Answers, Running
<1>4. CurrentStands'
  BY DEF IInv, CurrentStands, AskShutdown, NoFlow, InDaemon, flowVars, Reply,
     Answers, Running
<1>5. JoinsTheWaiting'
  BY FlowAssumption DEF IInv, JoinsTheWaiting, AskShutdown, Flows, NoFlow, Waiting,
     SenderIsGone, flowVars, Reply, Answers, Running, InDaemon, Remembered
<1>6. QED BY <1>1, <1>2, <1>3, <1>4, <1>5 DEF IInv

LEMMA KeepsJoin ==
  ASSUME IInv, Running, NEW c \in Callers, Join(c), UNCHANGED lifeVars
  PROVE  IInv'
<1>1. TypeOK'
  BY FlowAssumption, LifeAssumption DEF IInv, TypeOK, Join, Running, lifeVars,
     Flows, NoFlow, Names, Stages, Holding, Places, Loops, flowVars, Reply, Answers,
     Waiting
<1>2. Named'
  BY FlowAssumption, LifeAssumption DEF IInv, TypeOK, Named, InHand, CurrentStands,
     Join, Running, lifeVars, Flows, NoFlow, flowVars, Reply, Answers, Names,
     Stages, Holding, Places, Loops, InDaemon, Waiting
<1>3. InHand'
  BY DEF IInv, InHand, Join, Running, lifeVars, NoFlow, flowVars, Reply, Answers
<1>4. CurrentStands'
  BY DEF IInv, CurrentStands, Join, Running, lifeVars, NoFlow, InDaemon, flowVars,
     Reply, Answers
<1>5. JoinsTheWaiting'
  BY FlowAssumption DEF IInv, JoinsTheWaiting, Join, Running, lifeVars, Flows,
     NoFlow, Waiting, SenderIsGone, flowVars, Reply, Answers, InDaemon, Remembered
<1>6. QED BY <1>1, <1>2, <1>3, <1>4, <1>5 DEF IInv

LEMMA KeepsBegin ==
  ASSUME IInv, Running, NEW c \in Callers, Begin(c), UNCHANGED lifeVars
  PROVE  IInv'
<1>1. TypeOK'
  BY FlowAssumption, LifeAssumption DEF IInv, TypeOK, Begin, Running, lifeVars,
     Flows, NoFlow, Names, Stages, Holding, Places, Loops, Moves, Waiting
<1>2. Named'
  BY FlowAssumption DEF IInv, Named, Begin, Running, lifeVars, Flows, NoFlow, Moves
<1>3. InHand'
  BY FlowAssumption, LifeAssumption DEF IInv, TypeOK, InHand, Begin, Running,
     lifeVars, NoFlow, Flows, Moves, Names, Stages, Holding, Places, Loops, Waiting
<1>4. CurrentStands'
  BY FlowAssumption DEF IInv, CurrentStands, Begin, Running, lifeVars, NoFlow,
     InDaemon, Flows, Moves
<1>5. JoinsTheWaiting'
  BY FlowAssumption, LifeAssumption DEF IInv, TypeOK, JoinsTheWaiting, Begin,
     Running, lifeVars, Flows, NoFlow, Waiting, SenderIsGone, Moves, Names, Stages,
     Holding, Places, Loops, InDaemon, Remembered
<1>6. QED BY <1>1, <1>2, <1>3, <1>4, <1>5 DEF IInv

LEMMA KeepsCancel ==
  ASSUME IInv, Running, NEW c \in Callers, Cancel(c), UNCHANGED lifeVars
  PROVE  IInv'
<1>1. TypeOK'
  BY FlowAssumption, LifeAssumption DEF IInv, TypeOK, Cancel, Running, lifeVars,
     Flows, NoFlow, Names, Stages, Holding, Places, Loops, Waiting, Reply, Answers
<1>2. Named'
  BY FlowAssumption DEF IInv, Named, Cancel, Running, lifeVars, Flows, NoFlow,
     Waiting, Reply, Answers
<1>3. InHand'
  BY FlowAssumption DEF IInv, InHand, Cancel, Running, lifeVars, NoFlow, Flows,
     Waiting, Reply, Answers
<1>4. CurrentStands'
  BY FlowAssumption DEF IInv, CurrentStands, Cancel, Running, lifeVars, NoFlow,
     InDaemon, Flows, Waiting, Reply, Answers
<1>5. JoinsTheWaiting'
  BY FlowAssumption DEF IInv, JoinsTheWaiting, Cancel, Running, lifeVars, Flows,
     NoFlow, Waiting, SenderIsGone, Reply, Answers, InDaemon, Remembered
<1>6. QED BY <1>1, <1>2, <1>3, <1>4, <1>5 DEF IInv

LEMMA KeepsBind ==
  ASSUME IInv, Running, NEW c \in Callers, Bind(c), UNCHANGED lifeVars
  PROVE  IInv'
<1>1. TypeOK'
  BY FlowAssumption, LifeAssumption DEF IInv, TypeOK, Bind, Running, lifeVars,
     Flows, NoFlow, Names, Stages, Holding, Places, Loops, PortIsFree, Moves,
     Waiting
<1>2. Named'
  BY FlowAssumption DEF IInv, Named, Bind, Running, lifeVars, Flows, PortIsFree,
     Moves, Holding, Waiting
<1>3. InHand'
  BY FlowAssumption, LifeAssumption DEF IInv, TypeOK, InHand, Bind, Running,
     lifeVars, NoFlow, PortIsFree, Moves, Flows, Names, Stages, Holding, Places,
     Loops, Waiting
<1>4. CurrentStands'
  BY FlowAssumption DEF IInv, CurrentStands, Bind, Running, lifeVars, NoFlow,
     InDaemon, PortIsFree, Moves, Flows, Holding, Waiting
<1>5. JoinsTheWaiting'
  BY FlowAssumption DEF IInv, JoinsTheWaiting, Bind, Running, lifeVars, Flows,
     NoFlow, Waiting, SenderIsGone, PortIsFree, Moves, InDaemon, Remembered, Holding
<1>6. QED BY <1>1, <1>2, <1>3, <1>4, <1>5 DEF IInv

LEMMA KeepsBindFails ==
  ASSUME IInv, Running, NEW c \in Callers, BindFails(c), UNCHANGED lifeVars
  PROVE  IInv'
<1>1. TypeOK'
  BY FlowAssumption, LifeAssumption DEF IInv, TypeOK, BindFails, Running, lifeVars,
     Flows, NoFlow, Names, Stages, Holding, Places, Loops, Reply, PortIsFree,
     Answers, Moves, Waiting
<1>2. Named'
  BY FlowAssumption DEF IInv, Named, BindFails, Running, lifeVars, Flows, NoFlow,
     Reply, PortIsFree, Answers, Moves, Holding, Waiting
<1>3. InHand'
  BY FlowAssumption, LifeAssumption DEF IInv, TypeOK, InHand, BindFails, Running,
     lifeVars, NoFlow, Reply, PortIsFree, Answers, Moves, Flows, Names, Stages,
     Holding, Places, Loops, Waiting
<1>4. CurrentStands'
  BY FlowAssumption DEF IInv, CurrentStands, BindFails, Running, lifeVars, NoFlow,
     InDaemon, Reply, PortIsFree, Answers, Moves, Flows, Holding, Waiting
<1>5. JoinsTheWaiting'
  <2>1. /\ stage' = [stage EXCEPT ![work[c]] = "gone"] /\ work[c] \in Flows
        /\ work' = [work EXCEPT ![c] = NoFlow]
        /\ UNCHANGED <<starter, current, asked, stale>>
    BY FlowAssumption DEF IInv, TypeOK, BindFails, Moves, NoFlow, Flows
  <2>2. current # work[c]
    BY DEF IInv, TypeOK, InHand, CurrentStands, BindFails, NoFlow, Flows
  <2>3. current \notin {NoFlow} \cup stale => stage'[current] \notin {"cleared", "gone"}
    BY <2>1, <2>2 DEF IInv, TypeOK, JoinsTheWaiting
  <2>4. ASSUME NEW f \in Flows, stage'[f] \in Waiting, SenderIsGone(f)'
        PROVE  f \in asked \/ stale # {}
    <3>1. f # work[c] BY <2>1, <2>4 DEF IInv, TypeOK, Waiting
    <3>2. stage[f] \in Waiting BY <2>1, <2>4, <3>1 DEF IInv, TypeOK
    <3>3. SenderIsGone(f)
      BY <2>1, <2>4, <3>1 DEF IInv, TypeOK, SenderIsGone, Remembered, InDaemon
    <3>4. QED BY <3>2, <3>3 DEF IInv, JoinsTheWaiting
  <2>5. QED BY <2>1, <2>3, <2>4 DEF JoinsTheWaiting
<1>6. QED BY <1>1, <1>2, <1>3, <1>4, <1>5 DEF IInv

LEMMA KeepsRemember ==
  ASSUME IInv, Running, NEW c \in Callers, Remember(c), UNCHANGED lifeVars
  PROVE  IInv'
<1>1. TypeOK'
  <2>1. /\ work[c] \in Flows /\ at[c] = "spawned"
        /\ current' = work[c] /\ work' = [work EXCEPT ![c] = NoFlow]
        /\ at' = [at EXCEPT ![c] = "answering"]
        /\ reply' = [reply EXCEPT ![c] = Reply("login", work[c], c)]
        /\ stale' \subseteq Flows
        /\ UNCHANGED <<stage, starter, asked, told, stored, lifeVars>>
    BY FlowAssumption DEF IInv, TypeOK, Remember, Answers, NoFlow, Flows
  <2>2. QED
    BY <2>1, LifeAssumption DEF IInv, TypeOK, Reply, Names, Places, NoFlow, Flows, lifeVars,
       Running
<1>2. Named'
  BY FlowAssumption, LifeAssumption DEF IInv, TypeOK, Named, InHand, Remember,
     Running, lifeVars, Flows, NoFlow, Reply, Answers, Names, Stages, Holding,
     Places, Loops, Waiting
<1>3. InHand'
  BY FlowAssumption, LifeAssumption DEF IInv, TypeOK, InHand, Remember, Running,
     lifeVars, NoFlow, Reply, Answers, Flows, Names, Stages, Holding, Places, Loops,
     Waiting
<1>4. CurrentStands'
  BY FlowAssumption, LifeAssumption DEF IInv, TypeOK, InHand, CurrentStands,
     Remember, Running, lifeVars, NoFlow, InDaemon, Reply, Answers, Flows, Names,
     Stages, Holding, Places, Loops, Waiting
<1>5. JoinsTheWaiting'
  <2>1. /\ work[c] \in Flows /\ stage[work[c]] \notin {"none", "begun"}
        /\ current' = work[c] /\ work' = [work EXCEPT ![c] = NoFlow]
        /\ stale' = IF stage[work[c]] \in {"cleared", "gone"} THEN stale \cup {work[c]}
                    ELSE stale
        /\ UNCHANGED <<stage, starter, asked>>
    BY FlowAssumption DEF IInv, TypeOK, InHand, Remember, NoFlow, Flows
  <2>2. current' \notin {NoFlow} \cup stale' => stage'[current'] \notin {"cleared", "gone"}
    BY <2>1
  <2>3. ASSUME NEW f \in Flows, stage'[f] \in Waiting, SenderIsGone(f)'
        PROVE  f \in asked' \/ stale' # {}
    <3>1. f # work[c] BY <2>1, <2>3 DEF SenderIsGone
    <3>2. CASE SenderIsGone(f) BY <2>1, <2>3, <3>2 DEF IInv, JoinsTheWaiting
    <3>3. CASE ~SenderIsGone(f)
      <4>1. stage[work[c]] \notin Holding
        BY <2>1, <2>3, <3>1 DEF IInv, TypeOK, Holding
      <4>2. stage[work[c]] = "gone" BY <2>1, <4>1 DEF IInv, TypeOK, Stages, Holding, Waiting
      <4>3. QED BY <2>1, <4>2
    <3>4. QED BY <3>2, <3>3
  <2>4. QED BY <2>2, <2>3 DEF JoinsTheWaiting
<1>6. QED BY <1>1, <1>2, <1>3, <1>4, <1>5 DEF IInv

LEMMA KeepsAskOther ==
  ASSUME IInv, NEW c \in Callers, AskOther(c)
  PROVE  IInv'
<1>1. TypeOK'
  BY FlowAssumption, LifeAssumption DEF IInv, TypeOK, AskOther, Flows, NoFlow,
     Names, Stages, Holding, Places, Loops, Running, flowVars, connVars, Release,
     Waiting
<1>2. Named'
  BY FlowAssumption DEF IInv, Named, AskOther, Flows, flowVars, connVars, Running,
     Release
<1>3. InHand'
  BY DEF IInv, InHand, AskOther, NoFlow, flowVars, connVars, Running, Release
<1>4. CurrentStands'
  BY DEF IInv, CurrentStands, AskOther, NoFlow, InDaemon, flowVars, connVars,
     Running, Release
<1>5. JoinsTheWaiting'
  BY FlowAssumption DEF IInv, JoinsTheWaiting, AskOther, Flows, NoFlow, Waiting,
     SenderIsGone, flowVars, connVars, Running, Release, InDaemon, Remembered
<1>6. QED BY <1>1, <1>2, <1>3, <1>4, <1>5 DEF IInv

LEMMA KeepsAnswer ==
  ASSUME IInv, NEW c \in Callers, Answer(c)
  PROVE  IInv'
<1>1. TypeOK'
  BY FlowAssumption, LifeAssumption DEF IInv, TypeOK, Named, InHand, CurrentStands,
     JoinsTheWaiting, Answer, Flows, NoFlow, Names, Stages, Holding, Places, Loops,
     Running, flowVars, Silent, Release, InDaemon, Waiting, SenderIsGone, Reply,
     Remembered
<1>2. Named'
  BY FlowAssumption DEF IInv, Named, Answer, Flows, flowVars, Silent, Release,
     NoFlow, Reply
<1>3. InHand'
  BY DEF IInv, InHand, Answer, NoFlow, flowVars, Silent, Release, Reply
<1>4. CurrentStands'
  BY DEF IInv, CurrentStands, Answer, NoFlow, InDaemon, flowVars, Silent, Release,
     Reply
<1>5. JoinsTheWaiting'
  BY FlowAssumption DEF IInv, JoinsTheWaiting, Answer, Flows, NoFlow, Waiting,
     SenderIsGone, flowVars, Silent, Release, InDaemon, Remembered, Reply
<1>6. QED BY <1>1, <1>2, <1>3, <1>4, <1>5 DEF IInv

LEMMA KeepsWriteBreaks ==
  ASSUME IInv, NEW c \in Callers, WriteBreaks(c)
  PROVE  IInv'
<1>1. TypeOK'
  BY FlowAssumption, LifeAssumption DEF IInv, TypeOK, WriteBreaks, Flows, NoFlow,
     Names, Stages, Holding, Places, Loops, Running, flowVars, Silent, lifeVars,
     Waiting, Reply
<1>2. Named'
  BY FlowAssumption DEF IInv, Named, WriteBreaks, Flows, flowVars, Silent, lifeVars,
     NoFlow, Reply
<1>3. InHand'
  BY DEF IInv, InHand, WriteBreaks, NoFlow, flowVars, Silent, lifeVars, Reply
<1>4. CurrentStands'
  BY DEF IInv, CurrentStands, WriteBreaks, NoFlow, InDaemon, flowVars, Silent,
     lifeVars, Reply
<1>5. JoinsTheWaiting'
  BY FlowAssumption DEF IInv, JoinsTheWaiting, WriteBreaks, Flows, NoFlow, Waiting,
     SenderIsGone, flowVars, Silent, lifeVars, InDaemon, Remembered, Reply
<1>6. QED BY <1>1, <1>2, <1>3, <1>4, <1>5 DEF IInv

LEMMA KeepsAccept ==
  ASSUME IInv, NEW f \in Flows, Accept(f), UNCHANGED lifeVars
  PROVE  IInv'
<1>1. TypeOK'
  BY FlowAssumption, LifeAssumption DEF IInv, TypeOK, Accept, lifeVars, Flows,
     NoFlow, Names, Stages, Holding, Places, Loops, Running, connVars, Moves,
     Waiting
<1>2. Named'
  BY FlowAssumption DEF IInv, Named, Accept, lifeVars, Flows, connVars, Moves
<1>3. InHand'
  BY DEF IInv, InHand, Accept, lifeVars, NoFlow, connVars, Moves
<1>4. CurrentStands'
  BY DEF IInv, CurrentStands, Accept, lifeVars, NoFlow, InDaemon, connVars, Moves
<1>5. JoinsTheWaiting'
  BY FlowAssumption DEF IInv, JoinsTheWaiting, Accept, lifeVars, Flows, NoFlow,
     Waiting, SenderIsGone, connVars, Moves, InDaemon, Remembered
<1>6. QED BY <1>1, <1>2, <1>3, <1>4, <1>5 DEF IInv

LEMMA KeepsNotTheCallback ==
  ASSUME IInv, NEW f \in Flows, NotTheCallback(f), UNCHANGED lifeVars
  PROVE  IInv'
<1>1. TypeOK'
  BY FlowAssumption, LifeAssumption DEF IInv, TypeOK, NotTheCallback, lifeVars,
     Flows, NoFlow, Names, Stages, Holding, Places, Loops, Running, connVars, Moves,
     Waiting
<1>2. Named'
  BY FlowAssumption DEF IInv, Named, NotTheCallback, lifeVars, Flows, connVars,
     Moves
<1>3. InHand'
  BY DEF IInv, InHand, NotTheCallback, lifeVars, NoFlow, connVars, Moves
<1>4. CurrentStands'
  BY DEF IInv, CurrentStands, NotTheCallback, lifeVars, NoFlow, InDaemon, connVars,
     Moves
<1>5. JoinsTheWaiting'
  BY FlowAssumption DEF IInv, JoinsTheWaiting, NotTheCallback, lifeVars, Flows,
     NoFlow, Waiting, SenderIsGone, connVars, Moves, InDaemon, Remembered
<1>6. QED BY <1>1, <1>2, <1>3, <1>4, <1>5 DEF IInv

LEMMA KeepsCallback ==
  ASSUME IInv, NEW f \in Flows, NEW g \in Flows, Callback(f, g), UNCHANGED lifeVars
  PROVE  IInv'
<1>1. TypeOK'
  <2>1. /\ stage[f] \in Holding
        /\ \E s \in Holding : stage' = [stage EXCEPT ![f] = s]
        /\ asked' \subseteq Flows
        /\ UNCHANGED <<starter, current, stale, stored, connVars, lifeVars>>
    BY DEF IInv, TypeOK, Callback, Decides, Moves, Holding, Waiting
  <2>2. QED BY <2>1 DEF IInv, TypeOK, Stages, Holding, Waiting, connVars, lifeVars, Running
<1>2. Named'
  BY FlowAssumption, LifeAssumption DEF IInv, TypeOK, Named, Callback, lifeVars,
     Flows, connVars, HandedOut, Moves, Decides, NoFlow, Names, Stages, Holding,
     Places, Loops, Running, Waiting
<1>3. InHand'
  BY FlowAssumption, LifeAssumption DEF IInv, TypeOK, InHand, Callback, lifeVars,
     NoFlow, connVars, HandedOut, Moves, Decides, Flows, Names, Stages, Holding,
     Places, Loops, Running, Waiting
<1>4. CurrentStands'
  BY FlowAssumption, LifeAssumption DEF IInv, TypeOK, CurrentStands, Callback,
     lifeVars, NoFlow, InDaemon, connVars, HandedOut, Moves, Decides, Flows, Names,
     Stages, Holding, Places, Loops, Running, Waiting
<1>5. JoinsTheWaiting'
  BY FlowAssumption, LifeAssumption DEF IInv, TypeOK, JoinsTheWaiting, Callback,
     lifeVars, Flows, NoFlow, Waiting, SenderIsGone, connVars, HandedOut, Moves,
     Decides, Names, Stages, Holding, Places, Loops, Running, InDaemon, Remembered
<1>6. QED BY <1>1, <1>2, <1>3, <1>4, <1>5 DEF IInv

LEMMA KeepsStore ==
  ASSUME IInv, NEW f \in Flows, Store(f), UNCHANGED lifeVars
  PROVE  IInv'
<1>1. TypeOK'
  BY FlowAssumption, LifeAssumption DEF IInv, TypeOK, Store, lifeVars, Flows,
     NoFlow, Names, Stages, Holding, Places, Loops, Running, connVars, Decides,
     Waiting, Moves
<1>2. Named'
  BY FlowAssumption DEF IInv, Named, Store, lifeVars, Flows, connVars, Decides,
     Moves
<1>3. InHand'
  BY DEF IInv, InHand, Store, lifeVars, NoFlow, connVars, Decides, Moves
<1>4. CurrentStands'
  BY DEF IInv, CurrentStands, Store, lifeVars, NoFlow, InDaemon, connVars, Decides,
     Moves
<1>5. JoinsTheWaiting'
  BY FlowAssumption, LifeAssumption DEF IInv, TypeOK, JoinsTheWaiting, Store,
     lifeVars, Flows, NoFlow, Waiting, SenderIsGone, connVars, Decides, Names,
     Stages, Holding, Places, Loops, Running, InDaemon, Remembered, Moves
<1>6. QED BY <1>1, <1>2, <1>3, <1>4, <1>5 DEF IInv

LEMMA KeepsFails ==
  ASSUME IInv, NEW f \in Flows, Fails(f), UNCHANGED lifeVars
  PROVE  IInv'
<1>1. TypeOK'
  BY FlowAssumption, LifeAssumption DEF IInv, TypeOK, Fails, lifeVars, Flows,
     NoFlow, Names, Stages, Holding, Places, Loops, Running, connVars, Waiting,
     Decides, Moves
<1>2. Named'
  BY FlowAssumption DEF IInv, Named, Fails, lifeVars, Flows, connVars, Waiting,
     Decides, Moves
<1>3. InHand'
  BY DEF IInv, InHand, Fails, lifeVars, NoFlow, connVars, Waiting, Decides, Moves
<1>4. CurrentStands'
  BY DEF IInv, CurrentStands, Fails, lifeVars, NoFlow, InDaemon, connVars, Waiting,
     Decides, Moves
<1>5. JoinsTheWaiting'
  BY FlowAssumption, LifeAssumption DEF IInv, TypeOK, JoinsTheWaiting, Fails,
     lifeVars, Flows, NoFlow, Waiting, SenderIsGone, connVars, Decides, Names,
     Stages, Holding, Places, Loops, Running, InDaemon, Remembered, Moves
<1>6. QED BY <1>1, <1>2, <1>3, <1>4, <1>5 DEF IInv

LEMMA KeepsCancelled ==
  ASSUME IInv, NEW f \in Flows, Cancelled(f), UNCHANGED lifeVars
  PROVE  IInv'
<1>1. TypeOK'
  BY FlowAssumption, LifeAssumption DEF IInv, TypeOK, Cancelled, lifeVars, Flows,
     NoFlow, Names, Stages, Holding, Places, Loops, Running, connVars, Waiting,
     Decides, SenderIsGone, Moves, InDaemon, Remembered
<1>2. Named'
  BY FlowAssumption DEF IInv, Named, Cancelled, lifeVars, Flows, connVars, Waiting,
     Decides, SenderIsGone, Moves, InDaemon, Remembered
<1>3. InHand'
  BY DEF IInv, InHand, Cancelled, lifeVars, NoFlow, connVars, Waiting, Decides,
     SenderIsGone, Moves, InDaemon, Remembered
<1>4. CurrentStands'
  BY DEF IInv, CurrentStands, Cancelled, lifeVars, NoFlow, InDaemon, connVars,
     Waiting, Decides, SenderIsGone, Moves, Remembered
<1>5. JoinsTheWaiting'
  BY FlowAssumption, LifeAssumption DEF IInv, TypeOK, JoinsTheWaiting, Cancelled,
     lifeVars, Flows, NoFlow, Waiting, SenderIsGone, connVars, Decides, Names,
     Stages, Holding, Places, Loops, Running, InDaemon, Remembered, Moves
<1>6. QED BY <1>1, <1>2, <1>3, <1>4, <1>5 DEF IInv

LEMMA KeepsTimeOut ==
  ASSUME IInv, NEW f \in Flows, TimeOut(f), UNCHANGED lifeVars
  PROVE  IInv'
<1>1. TypeOK'
  BY FlowAssumption, LifeAssumption DEF IInv, TypeOK, TimeOut, lifeVars, Flows,
     NoFlow, Names, Stages, Holding, Places, Loops, Running, connVars, Waiting,
     InDaemon, Decides, Moves
<1>2. Named'
  BY FlowAssumption DEF IInv, Named, TimeOut, lifeVars, Flows, connVars, Waiting,
     InDaemon, Decides, Moves
<1>3. InHand'
  BY DEF IInv, InHand, TimeOut, lifeVars, NoFlow, connVars, Waiting, InDaemon,
     Decides, Moves
<1>4. CurrentStands'
  BY DEF IInv, CurrentStands, TimeOut, lifeVars, NoFlow, InDaemon, connVars,
     Waiting, Decides, Moves
<1>5. JoinsTheWaiting'
  BY FlowAssumption, LifeAssumption DEF IInv, TypeOK, JoinsTheWaiting, TimeOut,
     lifeVars, Flows, NoFlow, Waiting, SenderIsGone, connVars, InDaemon, Decides,
     Names, Stages, Holding, Places, Loops, Running, Remembered, Moves
<1>6. QED BY <1>1, <1>2, <1>3, <1>4, <1>5 DEF IInv

LEMMA KeepsClear ==
  ASSUME IInv, NEW f \in Flows, Clear(f), UNCHANGED lifeVars
  PROVE  IInv'
<1>1. TypeOK'
  BY FlowAssumption, LifeAssumption DEF IInv, TypeOK, Clear, lifeVars, Flows,
     NoFlow, Names, Stages, Holding, Places, Loops, Running, connVars, InDaemon,
     Moves, Waiting
<1>2. Named'
  BY FlowAssumption DEF IInv, Named, Clear, lifeVars, Flows, NoFlow, connVars,
     InDaemon, Moves
<1>3. InHand'
  BY DEF IInv, InHand, Clear, lifeVars, NoFlow, connVars, InDaemon, Moves
<1>4. CurrentStands'
  BY DEF IInv, CurrentStands, Clear, lifeVars, NoFlow, InDaemon, connVars, Moves
<1>5. JoinsTheWaiting'
  BY FlowAssumption, LifeAssumption DEF IInv, TypeOK, JoinsTheWaiting, Clear,
     lifeVars, Flows, NoFlow, Waiting, SenderIsGone, connVars, InDaemon, Moves,
     Names, Stages, Holding, Places, Loops, Running, Remembered
<1>6. QED BY <1>1, <1>2, <1>3, <1>4, <1>5 DEF IInv

LEMMA KeepsDropListener ==
  ASSUME IInv, NEW f \in Flows, DropListener(f), UNCHANGED lifeVars
  PROVE  IInv'
<1>1. TypeOK'
  BY FlowAssumption, LifeAssumption DEF IInv, TypeOK, DropListener, lifeVars, Flows,
     NoFlow, Names, Stages, Holding, Places, Loops, Running, connVars, InDaemon,
     Moves, Waiting
<1>2. Named'
  BY FlowAssumption DEF IInv, Named, DropListener, lifeVars, Flows, connVars,
     InDaemon, Moves
<1>3. InHand'
  BY DEF IInv, InHand, DropListener, lifeVars, NoFlow, connVars, InDaemon, Moves
<1>4. CurrentStands'
  BY DEF IInv, CurrentStands, DropListener, lifeVars, NoFlow, InDaemon, connVars,
     Moves
<1>5. JoinsTheWaiting'
  BY FlowAssumption, LifeAssumption DEF IInv, TypeOK, InHand, CurrentStands,
     JoinsTheWaiting, DropListener, lifeVars, Flows, NoFlow, Waiting, SenderIsGone,
     connVars, InDaemon, Moves, Names, Stages, Holding, Places, Loops, Running,
     Remembered
<1>6. QED BY <1>1, <1>2, <1>3, <1>4, <1>5 DEF IInv

LEMMA KeepsCliLogin ==
  ASSUME IInv, CliLogin, UNCHANGED lifeVars
  PROVE  IInv'
<1>1. TypeOK'
  BY FlowAssumption, LifeAssumption DEF IInv, TypeOK, InHand, CliLogin, lifeVars,
     Flows, NoFlow, Names, Stages, Holding, Places, Loops, Running, PortIsFree,
     Moves, Waiting
<1>2. Named'
  BY FlowAssumption, LifeAssumption DEF IInv, TypeOK, Named, CliLogin, lifeVars,
     Flows, PortIsFree, Moves, NoFlow, Names, Stages, Holding, Places, Loops,
     Running, Waiting
<1>3. InHand'
  BY FlowAssumption, LifeAssumption DEF IInv, TypeOK, InHand, CliLogin, lifeVars,
     NoFlow, Flows, PortIsFree, Moves, Names, Stages, Holding, Places, Loops,
     Running, Waiting
<1>4. CurrentStands'
  BY FlowAssumption, LifeAssumption DEF IInv, TypeOK, CurrentStands, CliLogin,
     lifeVars, NoFlow, InDaemon, Flows, PortIsFree, Moves, Names, Stages, Holding,
     Places, Loops, Running, Waiting
<1>5. JoinsTheWaiting'
  BY FlowAssumption, LifeAssumption DEF IInv, TypeOK, InHand, CurrentStands,
     JoinsTheWaiting, CliLogin, lifeVars, Flows, NoFlow, Waiting, SenderIsGone,
     PortIsFree, Moves, Names, Stages, Holding, Places, Loops, Running, InDaemon,
     Remembered
<1>6. QED BY <1>1, <1>2, <1>3, <1>4, <1>5 DEF IInv

LEMMA KeepsCliKilled ==
  ASSUME IInv, CliKilled, UNCHANGED lifeVars
  PROVE  IInv'
<1>1. TypeOK'
  BY FlowAssumption, LifeAssumption DEF IInv, TypeOK, CliKilled, lifeVars, Flows,
     NoFlow, Names, Stages, Holding, Places, Loops, Running, connVars, InDaemon,
     Moves, Waiting
<1>2. Named'
  BY FlowAssumption DEF IInv, Named, CliKilled, lifeVars, Flows, connVars, Holding,
     InDaemon, Moves, Waiting
<1>3. InHand'
  BY FlowAssumption DEF IInv, InHand, CliKilled, lifeVars, NoFlow, Flows, connVars,
     Holding, InDaemon, Moves, Waiting
<1>4. CurrentStands'
  BY FlowAssumption DEF IInv, CurrentStands, CliKilled, lifeVars, NoFlow, InDaemon,
     Flows, connVars, Holding, Moves, Waiting
<1>5. JoinsTheWaiting'
  BY FlowAssumption, LifeAssumption DEF IInv, TypeOK, InHand, CurrentStands,
     JoinsTheWaiting, CliKilled, lifeVars, Flows, NoFlow, Waiting, SenderIsGone,
     connVars, Holding, InDaemon, Moves, Names, Stages, Places, Loops, Running,
     Remembered
<1>6. QED BY <1>1, <1>2, <1>3, <1>4, <1>5 DEF IInv

LEMMA KeepsServe ==
  ASSUME IInv, Serve
  PROVE  IInv'
<1>1. TypeOK'
  BY FlowAssumption, LifeAssumption DEF IInv, TypeOK, Serve, Flows, NoFlow, Names,
     Stages, Holding, Places, Loops, Running, flowVars, connVars, Waiting
<1>2. Named'
  BY FlowAssumption DEF IInv, Named, Serve, Flows, flowVars, connVars
<1>3. InHand'
  BY DEF IInv, InHand, Serve, NoFlow, flowVars, connVars
<1>4. CurrentStands'
  BY DEF IInv, CurrentStands, Serve, NoFlow, InDaemon, flowVars, connVars
<1>5. JoinsTheWaiting'
  BY FlowAssumption DEF IInv, JoinsTheWaiting, Serve, Flows, NoFlow, Waiting,
     SenderIsGone, flowVars, connVars, InDaemon, Remembered
<1>6. QED BY <1>1, <1>2, <1>3, <1>4, <1>5 DEF IInv

LEMMA KeepsExit ==
  ASSUME IInv, Exit
  PROVE  IInv'
<1>1. TypeOK'
  BY FlowAssumption, LifeAssumption DEF IInv, TypeOK, Exit, Flows, NoFlow, Names,
     Stages, Holding, Places, Loops, Running, FlowsDie, Waiting, Silent, InDaemon,
     Reply
<1>2. Named'
  BY FlowAssumption, LifeAssumption DEF IInv, TypeOK, Named, Exit, Flows, FlowsDie,
     NoFlow, Names, Stages, Holding, Places, Loops, Running, Silent, InDaemon,
     Waiting, Reply
<1>3. InHand'
  BY FlowAssumption DEF IInv, InHand, Exit, NoFlow, FlowsDie, Flows, Holding,
     Silent, InDaemon, Waiting, Reply
<1>4. CurrentStands'
  BY FlowAssumption DEF IInv, CurrentStands, Exit, NoFlow, InDaemon, FlowsDie,
     Flows, Holding, Silent, Waiting, Reply
<1>5. JoinsTheWaiting'
  BY FlowAssumption DEF IInv, JoinsTheWaiting, Exit, Flows, NoFlow, Waiting,
     SenderIsGone, FlowsDie, InDaemon, Remembered, Holding, Silent, Reply
<1>6. QED BY <1>1, <1>2, <1>3, <1>4, <1>5 DEF IInv

LEMMA KeepsStart ==
  ASSUME IInv, Start
  PROVE  IInv'
<1>1. TypeOK'
  BY FlowAssumption, LifeAssumption DEF IInv, TypeOK, Start, Flows, NoFlow, Names,
     Stages, Holding, Places, Loops, Running, flowVars, connVars, Waiting
<1>2. Named'
  BY FlowAssumption DEF IInv, Named, Start, Flows, flowVars, connVars
<1>3. InHand'
  BY DEF IInv, InHand, Start, NoFlow, flowVars, connVars
<1>4. CurrentStands'
  BY DEF IInv, CurrentStands, Start, NoFlow, InDaemon, flowVars, connVars
<1>5. JoinsTheWaiting'
  BY FlowAssumption DEF IInv, JoinsTheWaiting, Start, Flows, NoFlow, Waiting,
     SenderIsGone, flowVars, connVars, InDaemon, Remembered
<1>6. QED BY <1>1, <1>2, <1>3, <1>4, <1>5 DEF IInv

-----------------------------------------------------------------------------
LEMMA Begins == Init => IInv
<1>1. SUFFICES ASSUME Init PROVE IInv OBVIOUS
<1>2. TypeOK
  <2>1. /\ stage \in [Flows -> Stages] /\ starter \in [Flows -> Names]
        /\ current \in Flows \cup {NoFlow} /\ asked \subseteq Flows /\ stale \subseteq Flows
        /\ told \subseteq [flow : Flows, label : Names]
        /\ stored \subseteq [name : Names, opened : Flows]
    BY <1>1 DEF Init, FlowInit, Stages, Names
  <2>2. /\ at \in [Callers -> Places] /\ work \in [Callers -> Flows \cup {NoFlow}]
        /\ \A c \in Callers : at[c] \in {"begun", "spawned"} <=> work[c] # NoFlow
    BY <1>1 DEF Init, FlowInit, Places
  <2>3. reply \in [Callers -> [ask : {"none", "login", "shutdown", "other"},
                             flow : Flows \cup {NoFlow}, label : Names]]
    BY <1>1 DEF Init, FlowInit, Silent, Reply, Names
  <2>4. /\ requested \in BOOLEAN /\ permit \in BOOLEAN /\ promised \in BOOLEAN
        /\ loop \in Loops /\ Running
    BY <1>1 DEF Init, Loops, Running
  <2>5. starts \in 1..MaxStarts BY <1>1, LifeAssumption DEF Init
  <2>6. \A f, g \in Flows : {stage[f], stage[g]} \subseteq Holding => f = g
    BY <1>1 DEF Init, FlowInit, Holding, Waiting
  <2>7. QED BY <2>1, <2>2, <2>3, <2>4, <2>5, <2>6 DEF TypeOK
<1>3. Named BY <1>1 DEF Init, FlowInit, Named, Silent, Reply
<1>4. InHand BY <1>1 DEF Init, FlowInit, InHand
<1>5. CurrentStands BY <1>1 DEF Init, FlowInit, CurrentStands
<1>6. JoinsTheWaiting BY <1>1 DEF Init, FlowInit, JoinsTheWaiting, Waiting
<1>7. QED BY <1>2, <1>3, <1>4, <1>5, <1>6 DEF IInv

LEMMA Stutters == ASSUME IInv, UNCHANGED vars PROVE IInv'
BY DEF IInv, TypeOK, Named, InHand, CurrentStands, JoinsTheWaiting, vars, flowVars, connVars,
       lifeVars, Holding, Waiting, SenderIsGone, Remembered, InDaemon, Running

LEMMA Steps == ASSUME IInv, [Next]_vars PROVE IInv'
<1>1. CASE \E c \in Callers : Connection(c)
  <2>1. PICK c \in Callers : Connection(c) BY <1>1
  <2>2. CASE AskOther(c) BY <2>2, KeepsAskOther
  <2>3. CASE AskShutdown(c) BY <2>3, KeepsAskShutdown
  <2>4. CASE AskLogin(c)
    <3>1. Running /\ UNCHANGED lifeVars BY <2>4 DEF AskLogin
    <3>2. CASE Handle(c)
      BY <3>1, <3>2, KeepsJoin, KeepsBegin, KeepsCancel DEF Handle
    <3>3. CASE BringUp(c)
      BY <3>1, <3>3, KeepsBind, KeepsBindFails, KeepsRemember DEF BringUp
    <3>4. QED BY <2>4, <3>2, <3>3 DEF AskLogin
  <2>5. CASE Answer(c) BY <2>5, KeepsAnswer
  <2>6. CASE WriteBreaks(c) BY <2>6, KeepsWriteBreaks
  <2>7. QED BY <2>1, <2>2, <2>3, <2>4, <2>5, <2>6 DEF Connection
<1>2. CASE \E f \in Flows : Task(f) /\ UNCHANGED lifeVars
  <2>1. PICK f \in Flows : Task(f) /\ UNCHANGED lifeVars BY <1>2
  <2>2. CASE Accept(f) BY <2>1, <2>2, KeepsAccept
  <2>3. CASE NotTheCallback(f) BY <2>1, <2>3, KeepsNotTheCallback
  <2>4. CASE Store(f) BY <2>1, <2>4, KeepsStore
  <2>5. CASE Fails(f) BY <2>1, <2>5, KeepsFails
  <2>6. CASE Ends(f)
    BY <2>1, <2>6, KeepsCancelled, KeepsTimeOut, KeepsClear, KeepsDropListener DEF Ends
  <2>7. CASE \E g \in Flows : Callback(f, g) BY <2>1, <2>7, KeepsCallback
  <2>8. QED BY <2>1, <2>2, <2>3, <2>4, <2>5, <2>6, <2>7 DEF Task
<1>3. CASE CliLogin /\ UNCHANGED lifeVars BY <1>3, KeepsCliLogin
<1>4. CASE CliKilled /\ UNCHANGED lifeVars BY <1>4, KeepsCliKilled
<1>5. CASE Serve BY <1>5, KeepsServe
<1>6. CASE Stop BY <1>6, KeepsExit DEF Stop
<1>7. CASE Killed BY <1>7, KeepsExit DEF Killed
<1>8. CASE Start BY <1>8, KeepsStart
<1>9. CASE UNCHANGED vars BY <1>9, Stutters
<1>10. QED BY <1>1, <1>2, <1>3, <1>4, <1>5, <1>6, <1>7, <1>8, <1>9 DEF Next

-----------------------------------------------------------------------------
(* The invariant of every behaviour.                                       *)
THEOREM DaemonInvariant == Spec => []IInv
<1>1. Init => IInv BY Begins
<1>2. IInv /\ [Next]_vars => IInv' BY Steps
<1>3. QED BY <1>1, <1>2, PTL DEF Spec

(* daemon_login.rs, one fixed port: whatever callers, tasks and commands   *)
(* interleave, one flow at most holds it.  A stopped daemon keeps nothing. *)
THEOREM OneFlowHoldsThePort == Spec => []TypeOK
<1>1. IInv => TypeOK BY DEF IInv
<1>2. QED BY <1>1, DaemonInvariant, PTL

(* daemon_login.rs `start`: whoever joins a flow is told the name its      *)
(* account will have, and not the one the joiner asked for.                *)
THEOREM AccountsAreNamedAsTold == Spec => []NamedAsTold
<1>1. IInv => NamedAsTold BY DEF IInv, TypeOK, Named, NamedAsTold
<1>2. QED BY <1>1, DaemonInvariant, PTL

(* daemon_login.rs `start`, `cancel` and the task's end: a login joins the *)
(* flow that waits on the port, save for one that was over before it was   *)
(* remembered.                                                             *)
THEOREM LoginsJoinTheWaitingFlow == Spec => []JoinsTheWaiting
<1>1. IInv => JoinsTheWaiting BY DEF IInv
<1>2. QED BY <1>1, DaemonInvariant, PTL
=============================================================================
