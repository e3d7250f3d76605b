------------------------------ MODULE LoginFlow ------------------------------
(* The authorization flow, in the daemon (auth/daemon_login.rs) and in the *)
(* CLI (auth/login.rs): one fixed callback port, a flow that waits on it   *)
(* in a task of its own, and callers of the control socket that start a    *)
(* flow, join the one in flight or cancel it.  A flow is known by its      *)
(* number: the number stands for its URL and for the state its callback    *)
(* must carry.  What a caller asks the account to be called is the         *)
(* caller's own name.  The browser is the environment: any tab whose URL   *)
(* was handed out may come back while a flow listens, and a connection may *)
(* open and say nothing.                                                   *)
EXTENDS Integers

CONSTANTS
  Callers,    \* connections to the control socket
  Cli,        \* the `login` command, which runs a flow of its own
  MaxFlows    \* how many authorizations are begun

ASSUME FlowAssumption == Cli \notin Callers /\ MaxFlows \in Nat \ {0}

Flows  == 1..MaxFlows
NoFlow == 0
Names  == Callers \cup {Cli}

VARIABLES
  stage,     \* where each flow stands
  starter,   \* who began it, and so what its account will be called
  current,   \* LoginFlow.current: the flow a caller joins
  asked,     \* flows that `login.cancel` took while they waited
  stale,     \* flows remembered after their own task had cleared
  at,        \* where the handling of each connection stands
  work,      \* the flow a connection is bringing up
  reply,     \* the answer a connection is about to write
  told,      \* the URLs people hold, with the name each was told
  stored     \* the accounts added, each with the URL that was opened for it

flowVars == <<stage, starter, current, asked, stale, stored>>
connVars == <<at, work, reply, told>>

Stages  == {"none", "begun", "listening", "reading", "exchanging", "decided",
            "cleared", "gone"}
Waiting == {"listening", "reading", "exchanging"}
Holding == Waiting \cup {"decided", "cleared"}
Places  == {"open", "begun", "spawned", "answering"}

Reply(ask, f, label) == [ask |-> ask, flow |-> f, label |-> label]
Silent               == Reply("none", NoFlow, Cli)

(* A listener still held by a task that has decided: not the code.         *)
PortIsIdle  == \A f \in Flows : stage[f] \notin Waiting

PortIsFree  == \A f \in Flows : stage[f] \notin Holding
HandedOut   == {t.flow : t \in told}
InDaemon(f) == starter[f] # Cli

(* The mutex of `current` is taken and let go within each of these.        *)
Answers(c, r) == /\ at' = [at EXCEPT ![c] = "answering"]
                 /\ reply' = [reply EXCEPT ![c] = r]

Moves(f, s) == stage' = [stage EXCEPT ![f] = s]

(* The outcome of the task is known.                                       *)
Decides(f)  == Moves(f, "decided") /\ asked' = asked \ {f}

FlowInit ==
  /\ stage = [f \in Flows |-> "none"]
  /\ starter = [f \in Flows |-> Cli]
  /\ current = NoFlow
  /\ asked = {} /\ stale = {} /\ told = {} /\ stored = {}
  /\ at = [c \in Callers |-> "open"]
  /\ work = [c \in Callers |-> NoFlow]
  /\ reply = [c \in Callers |-> Silent]

-----------------------------------------------------------------------------
(* LoginFlow::start, from the control socket's `login`.                    *)

(* A name a joiner asked for instead of the flow's: not the code.          *)
JoinUnderOwnName(c) ==
  /\ at[c] = "open"
  /\ current # NoFlow
  /\ Answers(c, Reply("login", current, c))
  /\ UNCHANGED <<flowVars, work, told>>

Join(c) ==
  /\ at[c] = "open"
  /\ current # NoFlow
  /\ Answers(c, Reply("login", current, starter[current]))
  /\ UNCHANGED <<flowVars, work, told>>

(* Nothing is in flight: flow::begin mints a state.                        *)
Begin(c) ==
  /\ at[c] = "open"
  /\ current = NoFlow
  /\ \E f \in Flows :
       /\ stage[f] = "none" /\ \A g \in 1..(f - 1) : stage[g] # "none"
       /\ Moves(f, "begun")
       /\ starter' = [starter EXCEPT ![f] = c]
       /\ work' = [work EXCEPT ![c] = f]
  /\ at' = [at EXCEPT ![c] = "begun"]
  /\ UNCHANGED <<current, asked, stale, stored, reply, told>>

(* The port is taken here, and the task that waits on it is spawned.       *)
Bind(c) ==
  /\ at[c] = "begun"
  /\ PortIsFree
  /\ Moves(work[c], "listening")
  /\ at' = [at EXCEPT ![c] = "spawned"]
  /\ UNCHANGED <<starter, current, asked, stale, stored, work, reply, told>>

BindFails(c) ==
  /\ at[c] = "begun"
  /\ ~PortIsFree
  /\ Moves(work[c], "gone")
  /\ Answers(c, Reply("other", NoFlow, Cli))
  /\ work' = [work EXCEPT ![c] = NoFlow]
  /\ UNCHANGED <<starter, current, asked, stale, stored, told>>

(* The task has been running since Bind and may have cleared already.      *)
(* What `current` held is dropped with its sender, which its task reads as *)
(* a cancel.                                                               *)
Remember(c) ==
  LET f == work[c]
  IN  /\ at[c] = "spawned"
      /\ current' = f
      /\ stale' = IF stage[f] \in {"cleared", "gone"} THEN stale \cup {f} ELSE stale
      /\ Answers(c, Reply("login", f, c))
      /\ work' = [work EXCEPT ![c] = NoFlow]
      /\ UNCHANGED <<stage, starter, asked, stored, told>>

(* `login.cancel` takes the flow and sends.                                *)
Cancel(c) ==
  /\ at[c] = "open"
  /\ current' = NoFlow
  /\ asked' = asked \cup {f \in Flows : f = current /\ stage[f] \in Waiting}
  /\ Answers(c, Reply("other", NoFlow, Cli))
  /\ UNCHANGED <<stage, starter, stale, stored, work, told>>

-----------------------------------------------------------------------------
(* The task: accept_callback and complete, raced with the cancel and the   *)
(* timer.                                                                  *)

Remembered(f)   == \A c \in Callers : work[c] # f
SenderIsGone(f) == InDaemon(f) /\ Remembered(f) /\ current # f

(* A connection is accepted and its first line awaited; one at a time.     *)
Accept(f) == /\ stage[f] = "listening"
             /\ Moves(f, "reading")
             /\ UNCHANGED <<starter, current, asked, stale, stored, connVars>>

(* No line, or a path that is not the callback's (404): the next one.      *)
NotTheCallback(f) == /\ stage[f] = "reading"
                     /\ Moves(f, "listening")
                     /\ UNCHANGED <<starter, current, asked, stale, stored, connVars>>

(* The tab with the URL of g comes back.  The state is checked before the  *)
(* code is spent, and another flow's ends this one.                        *)
Callback(f, g) ==
  /\ stage[f] = "reading"
  /\ g \in HandedOut
  /\ IF g = f THEN Moves(f, "exchanging") /\ UNCHANGED asked ELSE Decides(f)
  /\ UNCHANGED <<starter, current, stale, stored, connVars>>

(* The exchange answered, and the grant is added under the flow's label.   *)
Store(f) ==
  /\ stage[f] = "exchanging"
  /\ stored' = stored \cup {[name |-> starter[f], opened |-> f]}
  /\ Decides(f)
  /\ UNCHANGED <<starter, current, stale, connVars>>

(* accept fails, the browser says error=, the exchange or the add fails.   *)
Fails(f) ==
  /\ stage[f] \in Waiting
  /\ Decides(f)
  /\ UNCHANGED <<starter, current, stale, stored, connVars>>

(* The receiver resolves when the cancel is sent and when it is dropped.   *)
Cancelled(f) ==
  /\ stage[f] \in Waiting
  /\ SenderIsGone(f)
  /\ Decides(f)
  /\ UNCHANGED <<starter, current, stale, stored, connVars>>

(* A timer that only bounds the wait for a connection: not the code.       *)
TimeOutOfAccept(f) ==
  /\ stage[f] = "listening"
  /\ InDaemon(f)
  /\ Decides(f)
  /\ UNCHANGED <<starter, current, stale, stored, connVars>>

(* FLOW_TIMEOUT runs over the whole of complete_from_listener; the CLI has *)
(* none.                                                                   *)
TimeOut(f) ==
  /\ stage[f] \in Waiting
  /\ InDaemon(f)
  /\ Decides(f)
  /\ UNCHANGED <<starter, current, stale, stored, connVars>>

(* The task that lets the port go without clearing: not the code.          *)
LeaveRemembered(f) ==
  /\ stage[f] = "decided"
  /\ InDaemon(f)
  /\ Moves(f, "cleared")
  /\ UNCHANGED <<starter, current, asked, stale, stored, connVars>>

Clear(f) ==
  /\ stage[f] = "decided"
  /\ InDaemon(f)
  /\ Moves(f, "cleared")
  /\ current' = NoFlow
  /\ UNCHANGED <<starter, asked, stale, stored, connVars>>

(* The task returns and its listener goes with it; the CLI's never         *)
(* remembered anything.                                                    *)
DropListener(f) ==
  /\ stage[f] = (IF InDaemon(f) THEN "cleared" ELSE "decided")
  /\ Moves(f, "gone")
  /\ UNCHANGED <<starter, current, asked, stale, stored, connVars>>

-----------------------------------------------------------------------------
(* auth/login.rs `run`: begin, bind, open the URL, wait.                   *)
CliLogin ==
  \E f \in Flows :
    /\ stage[f] = "none" /\ \A g \in 1..(f - 1) : stage[g] # "none"
    /\ starter' = [starter EXCEPT ![f] = Cli]
    /\ IF PortIsFree
       THEN Moves(f, "listening") /\ told' = told \cup {[flow |-> f, label |-> Cli]}
       ELSE Moves(f, "gone") /\ UNCHANGED told
    /\ UNCHANGED <<current, asked, stale, stored, at, work, reply>>

(* Ctrl-C in the terminal of the CLI.                                      *)
CliKilled ==
  \E f \in Flows :
    /\ ~InDaemon(f) /\ stage[f] \in Holding
    /\ Moves(f, "gone")
    /\ UNCHANGED <<starter, current, asked, stale, stored, connVars>>

(* The daemon's process is gone, and every task of it.                     *)
FlowsDie ==
  /\ stage' = [f \in Flows |->
       IF InDaemon(f) /\ stage[f] \in Holding \cup {"begun"} THEN "gone" ELSE stage[f]]
  /\ current' = NoFlow
  /\ at' = [c \in Callers |-> "open"]
  /\ work' = [c \in Callers |-> NoFlow]
  /\ reply' = [c \in Callers |-> Silent]
  /\ asked' = {} /\ stale' = {}
  /\ UNCHANGED <<starter, told, stored>>

Handle(c) == Join(c) \/ Begin(c) \/ Cancel(c)
BringUp(c) == Bind(c) \/ BindFails(c) \/ Remember(c)
Ends(f)   == Cancelled(f) \/ TimeOut(f) \/ Clear(f) \/ DropListener(f)
Task(f)   == \/ Accept(f) \/ NotTheCallback(f) \/ Store(f) \/ Fails(f) \/ Ends(f)
             \/ \E g \in Flows : Callback(f, g)
=============================================================================
