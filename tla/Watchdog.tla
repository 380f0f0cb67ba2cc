------------------------------- MODULE Watchdog -------------------------------
(***************************************************************************)
(* The watchdog: watchdog_ip.py.                                           *)
(*                                                                         *)
(* watchdog_main races the host's next command against a one-cycle tick    *)
(* (get_event | tick_event); config_intake stores a new timeout.  Every    *)
(* latency is one cycle, as the template has it.  Within one instant of    *)
(* the simulation the order of events decides who wins the race, so the    *)
(* tick's firing and the resumption of the process that waited for it are  *)
(* two steps, and a host may act before, between and after them.           *)
(***************************************************************************)
EXTENDS Integers, Sequences, FiniteSets

CONSTANTS
  Timeouts,         \* what the host configures
  DefaultTimeout,   \* default_timeout_cycles
  MaxCommands,      \* how many commands the host sends
  MaxConfigs,       \* how many timeouts it configures
  None

ASSUME WatchdogAssumption ==
  /\ Timeouts \subseteq Nat /\ DefaultTimeout \in Nat
  /\ MaxCommands \in Nat /\ MaxConfigs \in Nat

Kinds == {"ARM", "KICK", "DISARM"}
Command == [id : 1 .. MaxCommands, kind : Kinds]
ASSUME NoneAssumption == None \notin Command \cup Nat

VARIABLES
  sent, configs,          \* how much the host has asked for
  hostQ, configQ,         \* _host_q, _config_q
  mainPc, timer,          \* watchdog_main: its place, and the timeout it waits for
  waiting, got,           \* get_event: untriggered, or triggered with a command
  raced,                  \* the tick has fired and the race's condition is scheduled
  hand,                   \* the command whose latency is being paid
  armed, expired, countdown, configured,
  intakePc, intakeTimer, newTimeout,       \* config_intake
  acked,                  \* the commands whose accepted event succeeded
  reload, age             \* history: the last value loaded, the cycles counted since

hostVars   == <<sent, configs>>
waitVars   == <<mainPc, timer, waiting, got, raced, hand>>
statusVars == <<armed, expired>>
countVars  == <<countdown, reload, age>>
intakeVars == <<configQ, intakePc, intakeTimer, newTimeout, configured>>
vars == <<hostVars, hostQ, waitVars, statusVars, countVars, intakeVars, acked>>

Dwells == {"RESET", "ARMING", "KICKING", "DISARMING", "EXPIRING", "CLEARING"}

Init ==
  /\ sent = 0 /\ configs = 0 /\ hostQ = <<>> /\ configQ = <<>>
  /\ mainPc = "RESET" /\ timer = "set" /\ waiting = FALSE /\ got = None
  /\ raced = FALSE /\ hand = None
  /\ armed = FALSE /\ expired = FALSE
  /\ countdown = 0 /\ configured = DefaultTimeout /\ reload = 0 /\ age = 0
  /\ intakePc = "IDLE" /\ intakeTimer = "off" /\ newTimeout = None
  /\ acked = {}

-----------------------------------------------------------------------------
(* The host.  A put reaches a waiting get at once.                          *)

Send(kind) ==
  /\ sent < MaxCommands
  /\ sent' = sent + 1
  /\ LET c == [id |-> sent + 1, kind |-> kind] IN
     IF waiting THEN got' = c /\ waiting' = FALSE /\ UNCHANGED hostQ
                ELSE hostQ' = Append(hostQ, c) /\ UNCHANGED <<got, waiting>>
  /\ UNCHANGED <<configs, mainPc, timer, raced, hand, statusVars, countVars, intakeVars, acked>>

ConfigureTimeout(cycles) ==
  /\ configs < MaxConfigs
  /\ configs' = configs + 1 /\ configQ' = Append(configQ, cycles)
  /\ UNCHANGED <<sent, hostQ, waitVars, statusVars, countVars, intakePc, intakeTimer,
                 newTimeout, configured, acked>>

Host == (\E kind \in Kinds : Send(kind)) \/ (\E cycles \in Timeouts : ConfigureTimeout(cycles))

-----------------------------------------------------------------------------
(* watchdog_main                                                            *)

MainFrame == UNCHANGED <<hostVars, intakeVars>>

Ack(c) == acked' = acked \cup {c}
\* Fault: a running countdown is not written to.
LoadIfIdle(cycles) ==
  countdown' = (IF countdown > 0 THEN countdown ELSE cycles) /\ reload' = cycles /\ age' = 0

Load(cycles) == countdown' = cycles /\ reload' = cycles /\ age' = 0

\* self._host_q.get(): triggered at once when the store holds a command.
GetNext ==
  IF hostQ = <<>> THEN waiting' = TRUE /\ got' = None /\ UNCHANGED hostQ
                  ELSE waiting' = FALSE /\ got' = Head(hostQ) /\ hostQ' = Tail(hostQ)

\* The end of a latency, and the way into the next state.
Elapses(from) == mainPc = from /\ timer = "due"
Dwell(in, c) == mainPc' = in /\ timer' = "set" /\ hand' = c
Rest(in) == mainPc' = in /\ timer' = "off" /\ hand' = None
\* Fault: the race waits for a command only.
RaceWithoutTick == mainPc' = "ARMED" /\ timer' = "off" /\ hand' = None
Race == mainPc' = "ARMED" /\ timer' = "set" /\ hand' = None

Reset ==
  /\ Elapses("RESET") /\ Rest("DISARMED")
  /\ UNCHANGED <<hostQ, waiting, got, raced, statusVars, countVars, acked>> /\ MainFrame

TakeDisarmed ==
  /\ mainPc = "DISARMED" /\ hostQ # <<>>
  /\ hostQ' = Tail(hostQ)
  /\ \/ Head(hostQ).kind = "ARM" /\ Dwell("ARMING", Head(hostQ)) /\ UNCHANGED acked
     \/ Head(hostQ).kind # "ARM" /\ Ack(Head(hostQ)) /\ UNCHANGED <<mainPc, timer, hand>>
  /\ UNCHANGED <<waiting, got, raced, statusVars, countVars>> /\ MainFrame

Arm ==
  /\ Elapses("ARMING") /\ Race
  /\ armed' = TRUE /\ Load(configured) /\ Ack(hand) /\ GetNext
  /\ UNCHANGED <<raced, expired>> /\ MainFrame

\* The command wins the race: a tick that has not fired is dropped.  One that
\* fires in the same instant after the put is dropped too.
TakeArmed ==
  /\ mainPc = "ARMED" /\ got # None /\ ~raced
  /\ \/ got.kind = "KICK" /\ GetNext /\ Dwell("KICKING", got) /\ UNCHANGED acked
     \/ /\ got.kind = "DISARM" /\ Dwell("DISARMING", got)
        /\ got' = None /\ UNCHANGED <<hostQ, waiting, acked>>
     \/ got.kind = "ARM" /\ GetNext /\ Ack(got) /\ Race
  /\ UNCHANGED <<raced, statusVars, countVars>> /\ MainFrame

Kick ==
  /\ Elapses("KICKING") /\ Race
  /\ Load(configured) /\ Ack(hand)
  /\ UNCHANGED <<hostQ, waiting, got, raced, statusVars>> /\ MainFrame

TickFires ==
  /\ mainPc = "ARMED" /\ timer = "due" /\ got = None
  /\ raced' = TRUE /\ timer' = "off"
  /\ UNCHANGED <<hostQ, mainPc, waiting, got, hand, statusVars, countVars, acked>> /\ MainFrame

\* Fault: the get stays in the store's list of waiting gets.
CancelNothing == UNCHANGED <<waiting, got>>
\* get_event.cancel() does nothing to a get that a put has triggered: the
\* command it took out of the store goes with it.
Cancel == waiting' = FALSE /\ got' = None

\* Fault: off by one.
RunsOnAboveOne(cycles) == cycles > 1
RunsOn(cycles) == cycles > 0

TakeTick ==
  /\ mainPc = "ARMED" /\ raced /\ raced' = FALSE
  /\ countdown' = countdown - 1
  /\ \/ RunsOn(countdown') /\ Race /\ UNCHANGED <<waiting, got>>
     \/ ~RunsOn(countdown') /\ Dwell("EXPIRING", None) /\ Cancel
  /\ UNCHANGED <<hostQ, reload, age, statusVars, acked>> /\ MainFrame

Disarm ==
  /\ Elapses("DISARMING") /\ Rest("DISARMED")
  /\ armed' = FALSE /\ countdown' = 0 /\ Ack(hand)
  /\ UNCHANGED <<hostQ, waiting, got, raced, expired, reload, age>> /\ MainFrame

Expire ==
  /\ Elapses("EXPIRING") /\ Rest("EXPIRED")
  /\ armed' = FALSE /\ expired' = TRUE
  /\ UNCHANGED <<hostQ, waiting, got, raced, countVars, acked>> /\ MainFrame

Clears(kind) == kind = "DISARM"

\* Fault: only a DISARM is taken out of the queue, so the others hold it up.
TakeExpiredDisarmOnly ==
  /\ mainPc = "EXPIRED" /\ hostQ # <<>>
  /\ hostQ' = Tail(hostQ)
  /\ Head(hostQ).kind = "DISARM" /\ Dwell("CLEARING", Head(hostQ)) /\ UNCHANGED acked
  /\ UNCHANGED <<waiting, got, raced, statusVars, countVars>> /\ MainFrame

TakeExpired ==
  /\ mainPc = "EXPIRED" /\ hostQ # <<>>
  /\ hostQ' = Tail(hostQ)
  /\ \/ Clears(Head(hostQ).kind) /\ Dwell("CLEARING", Head(hostQ)) /\ UNCHANGED acked
     \/ ~Clears(Head(hostQ).kind) /\ Ack(Head(hostQ)) /\ UNCHANGED <<mainPc, timer, hand>>
  /\ UNCHANGED <<waiting, got, raced, statusVars, countVars>> /\ MainFrame

Clear ==
  /\ Elapses("CLEARING") /\ Rest("DISARMED")
  /\ expired' = FALSE /\ Ack(hand)
  /\ UNCHANGED <<hostQ, waiting, got, raced, armed, countVars>> /\ MainFrame

WatchdogMain ==
  \/ Reset \/ TakeDisarmed \/ Arm \/ TakeArmed \/ Kick \/ TickFires \/ TakeTick
  \/ Disarm \/ Expire \/ TakeExpired \/ Clear

-----------------------------------------------------------------------------
(* config_intake                                                            *)

IntakeFrame == UNCHANGED <<hostVars, hostQ, waitVars, statusVars, countVars, acked>>

TakeConfig ==
  /\ intakePc = "IDLE" /\ configQ # <<>>
  /\ newTimeout' = Head(configQ) /\ configQ' = Tail(configQ)
  /\ intakePc' = "ACCEPT_CONFIG" /\ intakeTimer' = "set"
  /\ UNCHANGED configured /\ IntakeFrame

AcceptConfig ==
  /\ intakePc = "ACCEPT_CONFIG" /\ intakeTimer = "due"
  /\ intakePc' = "APPLY_TIMEOUT" /\ intakeTimer' = "set"
  /\ UNCHANGED <<configQ, newTimeout, configured>> /\ IntakeFrame

ApplyTimeout ==
  /\ intakePc = "APPLY_TIMEOUT" /\ intakeTimer = "due"
  /\ configured' = newTimeout /\ newTimeout' = None
  /\ intakePc' = "IDLE" /\ intakeTimer' = "off"
  /\ UNCHANGED configQ /\ IntakeFrame

ConfigIntake == TakeConfig \/ AcceptConfig \/ ApplyTimeout

-----------------------------------------------------------------------------
\* The simulation's clock moves on when nothing is left to do at this instant.
Instant ==
  \/ timer = "due" \/ intakeTimer = "due" \/ raced
  \/ mainPc \in {"DISARMED", "EXPIRED"} /\ hostQ # <<>>
  \/ mainPc = "ARMED" /\ got # None
  \/ intakePc = "IDLE" /\ configQ # <<>>

Advance(t) == IF t = "set" THEN "due" ELSE t

Cycle ==
  /\ ~Instant /\ "set" \in {timer, intakeTimer}
  /\ timer' = Advance(timer) /\ intakeTimer' = Advance(intakeTimer)
  /\ age' = IF mainPc = "ARMED" THEN age + 1 ELSE age
  /\ UNCHANGED <<hostVars, hostQ, mainPc, waiting, got, raced, hand, statusVars, countdown, reload,
                 configQ, intakePc, newTimeout, configured, acked>>

Next == Host \/ WatchdogMain \/ ConfigIntake \/ Cycle

Spec == Init /\ [][Next]_vars

\* The simulator runs every event of an instant, then the next instant's.
FairSpec == Spec /\ WF_vars(WatchdogMain) /\ WF_vars(ConfigIntake) /\ WF_vars(Cycle)

-----------------------------------------------------------------------------
(* What the watchdog promises.                                              *)

\* Every variable keeps its type; a latency is being paid just in the states
\* that have one, and the get is live just while a command may interrupt.
TypeOK ==
  /\ sent \in 0 .. MaxCommands /\ configs \in 0 .. MaxConfigs
  /\ hostQ \in Seq(Command) /\ configQ \in Seq(Timeouts)
  /\ mainPc \in Dwells \cup {"DISARMED", "ARMED", "EXPIRED"}
  /\ timer \in {"off", "set", "due"} /\ (timer = "off" <=> mainPc \in {"DISARMED", "EXPIRED"} \/ raced)
  /\ waiting \in BOOLEAN /\ got \in Command \cup {None}
  /\ raced \in BOOLEAN /\ (raced => mainPc = "ARMED")
  /\ waiting => got = None /\ hostQ = <<>>
  /\ waiting \/ got # None <=> mainPc \in {"ARMED", "KICKING"}
  /\ hand \in Command \cup {None}
  /\ hand # None <=> mainPc \in {"ARMING", "KICKING", "DISARMING", "CLEARING"}
  /\ armed \in BOOLEAN /\ (armed <=> mainPc \in {"ARMED", "KICKING", "DISARMING", "EXPIRING"})
  /\ expired \in BOOLEAN /\ (expired <=> mainPc \in {"EXPIRED", "CLEARING"})
  /\ countdown \in Int /\ configured \in Nat /\ reload \in Nat /\ age \in Nat
  /\ intakePc \in {"IDLE", "ACCEPT_CONFIG", "APPLY_TIMEOUT"}
  /\ intakeTimer \in {"off", "set", "due"} /\ (intakeTimer = "off" <=> intakePc = "IDLE")
  /\ newTimeout \in Timeouts \cup {None} /\ (newTimeout = None <=> intakePc = "IDLE")
  /\ acked \subseteq Command

\* The watchdog never expires before its timeout has passed without a reload,
\* whatever commands and configurations arrive in the instants of its ticks.
\* Every variable keeps its type.
NeverExpiresEarly ==
  /\ TypeOK
  /\ mainPc = "ARMED" /\ timer = "set" => countdown + age >= reload
  /\ mainPc = "EXPIRING" => age >= reload

Ids(commands) == { c.id : c \in commands }
Elements(s) == { s[i] : i \in DOMAIN s }
Missing == (1 .. sent) \ Ids(acked \cup Elements(hostQ) \cup ({hand, got} \ {None}))

\* A command can be lost in one place only: the step in which the last tick
\* turns into an expiry.  A get left behind would swallow the DISARM that is
\* to clear the latch.
LosesOnlyAtExpiry ==
  [][Missing' # Missing => mainPc = "ARMED" /\ mainPc' = "EXPIRING"]_vars

\* An acknowledgement means the command has taken effect: an acknowledged
\* DISARM left the watchdog quiet, and a KICK acknowledged while armed left the
\* whole configured timeout on the countdown.
AckMeansEffect ==
  [][\A c \in acked' \ acked :
       /\ c.kind = "DISARM" => ~armed' /\ ~expired'
       /\ c.kind = "KICK" /\ armed => countdown' = configured]_vars

\* A host that has stopped kicking is noticed: an armed watchdog ends.
ArmedEnds == armed ~> ~armed

\* No command waits for ever, in whichever state it finds the watchdog.
QueueIsServed == hostQ # <<>> ~> hostQ = <<>>

=============================================================================
