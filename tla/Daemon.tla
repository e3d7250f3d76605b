------------------------------- MODULE Daemon -------------------------------
(* The daemon's life as its control socket sees it: control/mod.rs         *)
(* `handle_connection`, daemon.rs `Shutdown` and the run loop of           *)
(* main.rs, with the login flow inside.  A connection carries request      *)
(* after request; a stop is recorded by the handler of `shutdown` and      *)
(* releases the run loop only after an answer has been flushed.  The       *)
(* socket is served before the run loop waits.  A supervisor may start a   *)
(* new process, which remembers nothing.                                   *)
EXTENDS LoginFlow

CONSTANTS
  Stoppers,    \* the callers that may ask for a stop
  MaxStarts    \* how many times the daemon is started

ASSUME LifeAssumption == Stoppers \subseteq Callers /\ MaxStarts \in Nat \ {0}

VARIABLES
  requested,   \* Shutdown.requested
  permit,      \* the permit Shutdown.released stores
  promised,    \* someone has read that this process is stopping
  loop,        \* the run loop
  starts

lifeVars == <<requested, permit, promised, loop, starts>>
vars     == <<flowVars, connVars, lifeVars>>

Loops   == {"starting", "serving", "stopped"}
Running == loop # "stopped"

Init == /\ FlowInit
        /\ requested = FALSE /\ permit = FALSE /\ promised = FALSE
        /\ loop = "starting" /\ starts = 1

-----------------------------------------------------------------------------
(* handle_connection                                                       *)

AskShutdown(c) == /\ Running /\ at[c] = "open" /\ c \in Stoppers
                  /\ Answers(c, Reply("shutdown", NoFlow, Cli))
                  /\ requested' = TRUE
                  /\ UNCHANGED <<flowVars, work, told, permit, promised, loop, starts>>

AskLogin(c) == Running /\ (Handle(c) \/ BringUp(c)) /\ UNCHANGED lifeVars

(* notify_waiters, which nobody hears before the loop waits: not the code. *)
WakeWhoWaits == permit' = (requested /\ loop = "serving")

(* notify_one stores a permit when nobody waits yet.  The flag is the      *)
(* daemon's, not the connection's.                                         *)
Release == permit' = (permit \/ requested)

(* `status`, or a line that does not parse: written, flushed, released.    *)
AskOther(c) == /\ Running /\ at[c] = "open"
               /\ Release
               /\ UNCHANGED <<flowVars, connVars, requested, loop, starts, promised>>

(* The line is written and flushed, whoever reads it holds a URL or knows  *)
(* of the stop, and only then is the flag looked at.                       *)
Answer(c) ==
  /\ at[c] = "answering"
  /\ at' = [at EXCEPT ![c] = "open"]
  /\ reply' = [reply EXCEPT ![c] = Silent]
  /\ told' = IF reply[c].ask = "login"
             THEN told \cup {[flow |-> reply[c].flow, label |-> reply[c].label]}
             ELSE told
  /\ promised' = (promised \/ reply[c].ask = "shutdown")
  /\ Release
  /\ UNCHANGED <<flowVars, work, requested, loop, starts>>

(* The peer is gone: `?` ends the connection before it looks at the flag.  *)
WriteBreaks(c) ==
  /\ at[c] = "answering"
  /\ at' = [at EXCEPT ![c] = "open"]
  /\ reply' = [reply EXCEPT ![c] = Silent]
  /\ UNCHANGED <<flowVars, work, told, lifeVars>>

-----------------------------------------------------------------------------
(* The run loop                                                            *)

Serve == /\ loop = "starting"
         /\ loop' = "serving"
         /\ UNCHANGED <<flowVars, connVars, requested, permit, promised, starts>>

(* The process ends and takes with it every answer not yet written.        *)
Exit == /\ FlowsDie
        /\ loop' = "stopped"
        /\ requested' = FALSE /\ permit' = FALSE /\ promised' = FALSE
        /\ UNCHANGED starts

Stop   == loop = "serving" /\ permit /\ Exit

(* A crash, or Ctrl-C once axum has drained the turns in flight.           *)
Killed == Running /\ Exit

Start == /\ loop = "stopped" /\ starts < MaxStarts
         /\ loop' = "starting" /\ starts' = starts + 1
         /\ UNCHANGED <<flowVars, connVars, requested, permit, promised>>

-----------------------------------------------------------------------------
Connection(c) == \/ AskOther(c) \/ AskShutdown(c) \/ AskLogin(c)
                 \/ Answer(c) \/ WriteBreaks(c)

Next == \/ \E c \in Callers : Connection(c)
        \/ \E f \in Flows : Task(f) /\ UNCHANGED lifeVars
        \/ CliLogin /\ UNCHANGED lifeVars
        \/ CliKilled /\ UNCHANGED lifeVars
        \/ Serve \/ Stop \/ Killed \/ Start

Spec == Init /\ [][Next]_vars

(* The runtime polls its tasks, its timer elapses, and a write to a socket *)
(* ends one way or the other.  Nobody is obliged to ask, to open a tab, to *)
(* say something on a connection.                                          *)
Fairness ==
  /\ \A c \in Callers : WF_vars(\/ Answer(c) \/ WriteBreaks(c)
                                \/ (Running /\ BringUp(c) /\ UNCHANGED lifeVars))
  /\ \A f \in Flows : WF_vars(Ends(f) /\ UNCHANGED lifeVars)
  /\ WF_vars(Serve) /\ WF_vars(Stop)

FairSpec == Spec /\ Fairness

-----------------------------------------------------------------------------
TypeOK ==
  /\ stage \in [Flows -> Stages]
  /\ starter \in [Flows -> Names]
  /\ current \in Flows \cup {NoFlow}
  /\ asked \subseteq Flows /\ stale \subseteq Flows
  /\ at \in [Callers -> Places]
  /\ work \in [Callers -> Flows \cup {NoFlow}]
  /\ reply \in [Callers -> [ask : {"none", "login", "shutdown", "other"},
                            flow : Flows \cup {NoFlow}, label : Names]]
  /\ told \subseteq [flow : Flows, label : Names]
  /\ stored \subseteq [name : Names, opened : Flows]
  /\ requested \in BOOLEAN /\ permit \in BOOLEAN /\ promised \in BOOLEAN
  /\ loop \in Loops /\ starts \in 1..MaxStarts
  /\ \A f, g \in Flows : {stage[f], stage[g]} \subseteq Holding => f = g
  /\ \A c \in Callers : at[c] \in {"begun", "spawned"} <=> work[c] # NoFlow
  /\ ~Running => /\ ~requested /\ ~permit /\ current = NoFlow
                 /\ \A c \in Callers : at[c] = "open"

(* An account that appears has the name everyone holding its URL was told, *)
(* the callers who joined the flow included.                               *)
NamedAsTold ==
  \A s \in stored : \A t \in told : t.flow = s.opened => t.label = s.name

(* What callers join is the flow that waits on the port: a flow whose task *)
(* has let go is not joined, and one that still waits is not forgotten     *)
(* unless someone cancelled it.  The exception is a flow that was over     *)
(* before its starter remembered it.                                       *)
JoinsTheWaiting ==
  /\ current \notin {NoFlow} \cup stale => stage[current] \notin {"cleared", "gone"}
  /\ \A f \in Flows : stage[f] \in Waiting /\ SenderIsGone(f)
                        => f \in asked \/ stale # {}

(* An abandoned flow releases the port, whatever the browser or another    *)
(* client of the port does or does not say.                                *)
PortComesFree ==
  \A f \in Flows : stage[f] \in Holding /\ InDaemon(f) ~> stage[f] \notin Holding

(* A daemon that has told someone it is stopping stops, even if the answer *)
(* went out before the run loop reached its wait.                          *)
AnsweredStopHappens == promised ~> ~Running

(* Every caller who asked for the stop has been answered when the run loop *)
(* ends for it (daemon.rs, control/mod.rs).                                *)
StopIsAnswered ==
  [][Stop => \A c \in Callers : ~(at[c] = "answering" /\ reply[c].ask = "shutdown")]_vars
=============================================================================
