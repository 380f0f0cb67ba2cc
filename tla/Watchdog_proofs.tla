---------------------------- MODULE Watchdog_proofs ----------------------------
(***************************************************************************)
(* Proofs about the watchdog: for any timeouts, default and number of      *)
(* commands, what it promises about its expiry and about the commands it   *)
(* is sent.                                                                *)
(***************************************************************************)
EXTENDS Watchdog, SequenceTheorems, TLAPS

USE WatchdogAssumption, NoneAssumption

LEMMA TypeInit == Init => TypeOK
<1> SUFFICES ASSUME Init PROVE TypeOK
  OBVIOUS
<1>1. hostQ \in Seq(Command) /\ configQ \in Seq(Timeouts) /\ acked \subseteq Command
  BY DEF Init
<1>2. /\ sent \in 0 .. MaxCommands /\ configs \in 0 .. MaxConfigs
      /\ countdown \in Int /\ configured \in Nat /\ reload \in Nat /\ age \in Nat
  BY DEF Init
<1>3. /\ mainPc = "RESET" /\ timer = "set" /\ waiting = FALSE /\ got = None
      /\ raced = FALSE /\ hand = None /\ armed = FALSE /\ expired = FALSE
      /\ intakePc = "IDLE" /\ intakeTimer = "off" /\ newTimeout = None
  BY DEF Init
<1> QED BY <1>1, <1>2, <1>3 DEF TypeOK, Dwells

\* What the queue gives is a command.
LEMMA HeadAndTail ==
  ASSUME NEW S, NEW s \in Seq(S), s # <<>>
  PROVE  Head(s) \in S /\ Tail(s) \in Seq(S)
OBVIOUS

\* The get that follows a command or a reload.
LEMMA GetNextType ==
  ASSUME hostQ \in Seq(Command), GetNext
  PROVE  /\ hostQ' \in Seq(Command)
         /\ waiting' \in BOOLEAN /\ got' \in Command \cup {None}
         /\ waiting' => got' = None /\ hostQ' = <<>>
         /\ waiting' \/ got' # None
<1>1. CASE hostQ = <<>>
  BY <1>1 DEF GetNext
<1>2. CASE hostQ # <<>>
  <2>1. Head(hostQ) \in Command /\ Tail(hostQ) \in Seq(Command)
    BY <1>2, HeadAndTail
  <2> QED BY <1>2, <2>1 DEF GetNext
<1> QED BY <1>1, <1>2

\* Every action keeps the types.
LEMMA TypeNext == TypeOK /\ [Next]_vars => TypeOK'
<1> SUFFICES ASSUME TypeOK, [Next]_vars PROVE TypeOK'
  OBVIOUS
<1> USE DEF TypeOK, Dwells, hostVars, waitVars, statusVars, countVars, intakeVars,
            MainFrame, IntakeFrame, Elapses, Dwell, Rest, Race, Load, Ack
<1>1. ASSUME NEW kind \in Kinds, Send(kind) PROVE TypeOK'
  <2> DEFINE c == [id |-> sent + 1, kind |-> kind]
  <2>1. c \in Command /\ sent' \in 0 .. MaxCommands
    BY <1>1 DEF Send, Command
  <2>2. CASE waiting
    BY <1>1, <2>1, <2>2 DEF Send
  <2>3. CASE ~waiting
    <3>1. Append(hostQ, c) \in Seq(Command)
      BY <2>1
    <3> QED BY <1>1, <2>1, <2>3, <3>1 DEF Send
  <2> QED BY <2>2, <2>3
<1>2. ASSUME NEW cycles \in Timeouts, ConfigureTimeout(cycles) PROVE TypeOK'
  BY <1>2 DEF ConfigureTimeout
<1>3. CASE Reset
  BY <1>3 DEF Reset
<1>4. CASE TakeDisarmed
  <2>1. Head(hostQ) \in Command /\ Tail(hostQ) \in Seq(Command)
    BY <1>4, HeadAndTail DEF TakeDisarmed
  <2>2. CASE Head(hostQ).kind = "ARM" /\ Dwell("ARMING", Head(hostQ)) /\ UNCHANGED acked
    BY <1>4, <2>1, <2>2 DEF TakeDisarmed
  <2>3. CASE Ack(Head(hostQ)) /\ UNCHANGED <<mainPc, timer, hand>>
    BY <1>4, <2>1, <2>3 DEF TakeDisarmed
  <2> QED BY <1>4, <2>2, <2>3 DEF TakeDisarmed
<1>5. CASE Arm
  <2>1. GetNext /\ hand \in Command
    BY <1>5 DEF Arm
  <2> QED BY <1>5, <2>1, GetNextType DEF Arm
<1>6. CASE TakeArmed
  <2>1. CASE got.kind = "KICK" /\ GetNext /\ Dwell("KICKING", got) /\ UNCHANGED acked
    BY <1>6, <2>1, GetNextType DEF TakeArmed
  <2>2. CASE /\ got.kind = "DISARM" /\ Dwell("DISARMING", got)
             /\ got' = None /\ UNCHANGED <<hostQ, waiting, acked>>
    BY <1>6, <2>2 DEF TakeArmed
  <2>3. CASE got.kind = "ARM" /\ GetNext /\ Ack(got) /\ Race
    BY <1>6, <2>3, GetNextType DEF TakeArmed
  <2> QED BY <1>6, <2>1, <2>2, <2>3 DEF TakeArmed
<1>7. CASE Kick
  BY <1>7 DEF Kick
<1>8. CASE TickFires
  BY <1>8 DEF TickFires
<1>9. CASE TakeTick
  <2>1. countdown' \in Int
    BY <1>9 DEF TakeTick
  <2>2. CASE Race /\ UNCHANGED <<waiting, got>>
    BY <1>9, <2>1, <2>2 DEF TakeTick
  <2>3. CASE Dwell("EXPIRING", None) /\ Cancel
    BY <1>9, <2>1, <2>3 DEF TakeTick, Cancel
  <2> QED BY <1>9, <2>2, <2>3 DEF TakeTick
<1>10. CASE Disarm
  <2>1. hand \in Command /\ acked' \subseteq Command /\ ~waiting /\ got = None
    BY <1>10 DEF Disarm
  <2>2. /\ mainPc' = "DISARMED" /\ timer' = "off" /\ hand' = None /\ armed' = FALSE
        /\ expired' = FALSE /\ raced' = FALSE /\ countdown' = 0
    BY <1>10 DEF Disarm
  <2>3. /\ hostQ' = hostQ /\ waiting' = waiting /\ got' = got /\ reload' = reload /\ age' = age
        /\ sent' = sent /\ configs' = configs /\ configQ' = configQ /\ intakePc' = intakePc
        /\ intakeTimer' = intakeTimer /\ newTimeout' = newTimeout /\ configured' = configured
    BY <1>10 DEF Disarm
  <2>4. armed' \in BOOLEAN /\ (armed' <=> mainPc' \in {"ARMED", "KICKING", "DISARMING", "EXPIRING"})
    BY <2>2
  <2>5. expired' \in BOOLEAN /\ (expired' <=> mainPc' \in {"EXPIRED", "CLEARING"})
    BY <2>2
  <2>6. timer' = "off" <=> mainPc' \in {"DISARMED", "EXPIRED"} \/ raced'
    BY <2>2
  <2>7. raced' \in BOOLEAN /\ (raced' => mainPc' = "ARMED")
    BY <2>2
  <2>8. hand' # None <=> mainPc' \in {"ARMING", "KICKING", "DISARMING", "CLEARING"}
    BY <2>2
  <2>9. waiting' \/ got' # None <=> mainPc' \in {"ARMED", "KICKING"}
    BY <2>1, <2>2, <2>3
  <2> QED BY <2>1, <2>2, <2>3, <2>4, <2>5, <2>6, <2>7, <2>8, <2>9
<1>11. CASE Expire
  BY <1>11 DEF Expire
<1>12. CASE TakeExpired
  <2>1. Head(hostQ) \in Command /\ Tail(hostQ) \in Seq(Command)
    BY <1>12, HeadAndTail DEF TakeExpired
  <2>2. CASE Dwell("CLEARING", Head(hostQ)) /\ UNCHANGED acked
    BY <1>12, <2>1, <2>2 DEF TakeExpired
  <2>3. CASE Ack(Head(hostQ)) /\ UNCHANGED <<mainPc, timer, hand>>
    BY <1>12, <2>1, <2>3 DEF TakeExpired
  <2> QED BY <1>12, <2>2, <2>3 DEF TakeExpired
<1>13. CASE Clear
  BY <1>13 DEF Clear
<1>14. CASE TakeConfig
  <2>1. Head(configQ) \in Timeouts /\ Tail(configQ) \in Seq(Timeouts)
    BY <1>14, HeadAndTail DEF TakeConfig
  <2> QED BY <1>14, <2>1 DEF TakeConfig
<1>15. CASE AcceptConfig
  BY <1>15 DEF AcceptConfig
<1>16. CASE ApplyTimeout
  BY <1>16 DEF ApplyTimeout
<1>17. CASE Cycle
  BY <1>17 DEF Cycle, Advance
<1>18. CASE UNCHANGED vars
  BY <1>18 DEF vars
<1> QED
  BY <1>1, <1>2, <1>3, <1>4, <1>5, <1>6, <1>7, <1>8, <1>9, <1>10, <1>11, <1>12, <1>13, <1>14,
     <1>15, <1>16, <1>17, <1>18 DEF Next, Host, WatchdogMain, ConfigIntake

-----------------------------------------------------------------------------
(* The countdown.                                                           *)

\* Between the cycle that ends a tick and the step that takes it, a cycle is
\* counted that the countdown has not been lowered for yet.
Early ==
  /\ mainPc = "ARMED" /\ timer = "set" => countdown + age >= reload
  /\ mainPc = "ARMED" /\ timer # "set" => countdown + age >= reload + 1
  /\ mainPc = "EXPIRING" => age >= reload

LEMMA EarlyNext == TypeOK /\ Early /\ [Next]_vars => Early'
<1> SUFFICES ASSUME TypeOK, Early, [Next]_vars PROVE Early'
  OBVIOUS
<1>t. /\ countdown \in Int /\ configured \in Nat /\ reload \in Nat /\ age \in Nat
      /\ timer = "off" <=> mainPc \in {"DISARMED", "EXPIRED"} \/ raced
      /\ timer \in {"off", "set", "due"}
  BY DEF TypeOK
<1> USE DEF Early, MainFrame, IntakeFrame, hostVars, waitVars, statusVars, countVars, intakeVars,
            Elapses, Dwell, Rest, Race, Load
<1>1. ASSUME NEW kind \in Kinds, Send(kind) PROVE Early'
  BY <1>1 DEF Send
<1>2. ASSUME NEW cycles \in Timeouts, ConfigureTimeout(cycles) PROVE Early'
  BY <1>2 DEF ConfigureTimeout
<1>3. CASE Reset \/ Disarm \/ Expire \/ Clear
  BY <1>3 DEF Reset, Disarm, Expire, Clear
<1>4. CASE TakeDisarmed
  BY <1>4 DEF TakeDisarmed
<1>5. CASE Arm \/ Kick
  <2>1. mainPc' = "ARMED" /\ timer' = "set" /\ countdown' = configured /\ reload' = configured
        /\ age' = 0
    BY <1>5 DEF Arm, Kick
  <2> QED BY <1>t, <2>1
<1>6. CASE TakeArmed
  <2>1. mainPc = "ARMED" /\ timer' = "set" /\ UNCHANGED countVars
        /\ mainPc' \in {"KICKING", "DISARMING", "ARMED"}
    BY <1>6 DEF TakeArmed
  <2> QED BY <1>t, <2>1
<1>7. CASE TickFires
  BY <1>7 DEF TickFires
<1>8. CASE TakeTick
  <2>1. /\ mainPc = "ARMED" /\ timer # "set"
        /\ countdown' = countdown - 1 /\ reload' = reload /\ age' = age /\ timer' = "set"
        /\ mainPc' = "ARMED" \/ (mainPc' = "EXPIRING" /\ ~(countdown' > 0))
    BY <1>8, <1>t DEF TakeTick, RunsOn
  <2> QED BY <1>t, <2>1
<1>9. CASE TakeExpired
  BY <1>9 DEF TakeExpired
<1>10. CASE ConfigIntake
  BY <1>10 DEF ConfigIntake, TakeConfig, AcceptConfig, ApplyTimeout
<1>11. CASE Cycle
  <2>1. ~raced
    BY <1>11 DEF Cycle, Instant
  <2>2. /\ mainPc' = mainPc /\ countdown' = countdown /\ reload' = reload
        /\ timer = "due" => FALSE
        /\ age' = IF mainPc = "ARMED" THEN age + 1 ELSE age
    BY <1>11 DEF Cycle, Instant
  <2> QED BY <1>t, <2>1, <2>2
<1>12. CASE UNCHANGED vars
  BY <1>12 DEF vars
<1> QED
  BY <1>1, <1>2, <1>3, <1>4, <1>5, <1>6, <1>7, <1>8, <1>9, <1>10, <1>11, <1>12
  DEF Next, Host, WatchdogMain

\* The watchdog never expires before the timeout last loaded has passed: every
\* tick that is taken off the countdown is a cycle that went by.
THEOREM ExpiryIsNotEarly == Spec => []NeverExpiresEarly
<1>1. Init => TypeOK /\ Early
  BY TypeInit DEF Init, Early
<1>2. TypeOK /\ Early /\ [Next]_vars => (TypeOK /\ Early)'
  BY TypeNext, EarlyNext
<1>3. TypeOK /\ Early => NeverExpiresEarly
  BY DEF Early, NeverExpiresEarly
<1> QED BY <1>1, <1>2, <1>3, PTL DEF Spec

-----------------------------------------------------------------------------
(* Commands.                                                                *)

\* A latency is paid for the command it belongs to.
HandFits ==
  /\ mainPc = "ARMING" => hand.kind = "ARM"
  /\ mainPc = "KICKING" => hand.kind = "KICK"
  /\ mainPc \in {"DISARMING", "CLEARING"} => hand.kind = "DISARM"

LEMMA HandNext == TypeOK /\ HandFits /\ [Next]_vars => HandFits'
<1> SUFFICES ASSUME TypeOK, HandFits, [Next]_vars PROVE HandFits'
  OBVIOUS
<1> USE DEF HandFits, MainFrame, IntakeFrame, hostVars, waitVars, statusVars, countVars,
            intakeVars, Elapses, Dwell, Rest, Race
<1>1. ASSUME NEW kind \in Kinds, Send(kind) PROVE HandFits'
  BY <1>1 DEF Send
<1>2. ASSUME NEW cycles \in Timeouts, ConfigureTimeout(cycles) PROVE HandFits'
  BY <1>2 DEF ConfigureTimeout
<1>3. CASE Reset \/ Arm \/ Kick \/ TickFires \/ TakeTick \/ Disarm \/ Expire \/ Clear
  BY <1>3 DEF Reset, Arm, Kick, TickFires, TakeTick, Disarm, Expire, Clear
<1>4. CASE TakeDisarmed
  BY <1>4 DEF TakeDisarmed
<1>5. CASE TakeArmed
  BY <1>5 DEF TakeArmed
<1>6. CASE TakeExpired
  BY <1>6 DEF TakeExpired, Clears
<1>7. CASE ConfigIntake
  BY <1>7 DEF ConfigIntake, TakeConfig, AcceptConfig, ApplyTimeout
<1>8. CASE Cycle
  BY <1>8 DEF Cycle
<1>9. CASE UNCHANGED vars
  BY <1>9 DEF vars
<1> QED
  BY <1>1, <1>2, <1>3, <1>4, <1>5, <1>6, <1>7, <1>8, <1>9 DEF Next, Host, WatchdogMain

\* Only the end of a latency acknowledges a command that moves the watchdog, and
\* a queue's end one that finds nothing to do.
LEMMA AckStep ==
  ASSUME TypeOK, HandFits, Next
  PROVE  \A c \in acked' \ acked :
           /\ c.kind = "DISARM" => ~armed' /\ ~expired'
           /\ c.kind = "KICK" /\ armed => countdown' = configured
<1> USE DEF MainFrame, IntakeFrame, hostVars, waitVars, statusVars, countVars, intakeVars,
            Elapses, Dwell, Rest, Race, Load, Ack
<1>t. /\ armed <=> mainPc \in {"ARMED", "KICKING", "DISARMING", "EXPIRING"}
      /\ expired <=> mainPc \in {"EXPIRED", "CLEARING"}
  BY DEF TypeOK
<1>1. CASE acked' = acked
  BY <1>1
<1>2. CASE Host \/ ConfigIntake \/ Cycle \/ Reset \/ TickFires \/ TakeTick \/ Expire
  <2>1. acked' = acked
    BY <1>2 DEF Host, Send, ConfigureTimeout, ConfigIntake, TakeConfig, AcceptConfig,
                ApplyTimeout, Cycle, Reset, TickFires, TakeTick, Expire
  <2> QED BY <1>1, <2>1
<1>3. CASE TakeDisarmed
  <2>1. mainPc = "DISARMED" /\ armed' = armed /\ expired' = expired
    BY <1>3 DEF TakeDisarmed
  <2> QED BY <1>t, <2>1
<1>4. CASE Arm
  <2>1. acked' = acked \cup {hand} /\ hand.kind = "ARM"
    BY <1>4 DEF Arm, HandFits
  <2> QED BY <2>1
<1>5. CASE TakeArmed
  <2>1. acked' = acked \/ (acked' = acked \cup {got} /\ got.kind = "ARM")
    BY <1>5 DEF TakeArmed
  <2> QED BY <2>1
<1>6. CASE Kick
  <2>1. acked' = acked \cup {hand} /\ hand.kind = "KICK" /\ countdown' = configured
    BY <1>6 DEF Kick, HandFits
  <2> QED BY <2>1
<1>7. CASE Disarm
  <2>1. acked' = acked \cup {hand} /\ hand.kind = "DISARM" /\ ~armed'
        /\ expired' = expired /\ mainPc = "DISARMING"
    BY <1>7 DEF Disarm, HandFits
  <2> QED BY <1>t, <2>1
<1>8. CASE TakeExpired
  <2>1. acked' = acked \/ (acked' = acked \cup {Head(hostQ)} /\ Head(hostQ).kind # "DISARM")
    BY <1>8 DEF TakeExpired, Clears
  <2>2. ~armed
    BY <1>8, <1>t DEF TakeExpired
  <2> QED BY <2>1, <2>2
<1>9. CASE Clear
  <2>1. acked' = acked \cup {hand} /\ hand.kind = "DISARM" /\ ~expired'
        /\ armed' = armed /\ mainPc = "CLEARING"
    BY <1>9 DEF Clear, HandFits
  <2> QED BY <1>t, <2>1
<1> QED
  BY <1>2, <1>3, <1>4, <1>5, <1>6, <1>7, <1>8, <1>9 DEF Next, WatchdogMain

\* The accepted event of a command succeeds when the command has taken effect,
\* whichever state it found the watchdog in.
THEOREM AcksHaveEffect == Spec => AckMeansEffect
<1> DEFINE Effect == \A c \in acked' \ acked :
                       /\ c.kind = "DISARM" => ~armed' /\ ~expired'
                       /\ c.kind = "KICK" /\ armed => countdown' = configured
<1>1. Init => TypeOK /\ HandFits
  BY TypeInit DEF Init, HandFits
<1>2. TypeOK /\ HandFits /\ [Next]_vars => (TypeOK /\ HandFits)'
  BY TypeNext, HandNext
<1>3. TypeOK /\ HandFits /\ [Next]_vars => [Effect]_vars
  BY AckStep
<1> QED BY <1>1, <1>2, <1>3, PTL DEF Spec, AckMeansEffect

-----------------------------------------------------------------------------
(* No command is lost but one.                                              *)

LEMMA ElementsAppend ==
  ASSUME NEW S, NEW s \in Seq(S), NEW c \in S
  PROVE  Elements(Append(s, c)) = Elements(s) \cup {c}
<1>1. /\ DOMAIN Append(s, c) = DOMAIN s \cup {Len(s) + 1}
      /\ Append(s, c)[Len(s) + 1] = c
      /\ \A i \in DOMAIN s : Append(s, c)[i] = s[i]
  OBVIOUS
<1>2. \A x \in Elements(Append(s, c)) : x = c \/ x \in Elements(s)
  BY <1>1 DEF Elements
<1>3. c \in Elements(Append(s, c))
  <2>1. \E i \in DOMAIN Append(s, c) : Append(s, c)[i] = c
    BY <1>1
  <2> QED BY <2>1 DEF Elements
<1>4. ASSUME NEW i \in DOMAIN s PROVE s[i] \in Elements(Append(s, c))
  <2>1. i \in DOMAIN Append(s, c) /\ Append(s, c)[i] = s[i]
    BY <1>1
  <2> QED BY <2>1 DEF Elements
<1>5. Elements(s) \subseteq Elements(Append(s, c))
  BY <1>4 DEF Elements
<1> QED BY <1>2, <1>3, <1>5

LEMMA ElementsHead ==
  ASSUME NEW S, NEW s \in Seq(S), s # <<>>
  PROVE  Elements(s) = {Head(s)} \cup Elements(Tail(s))
<1>1. /\ 1 \in DOMAIN s /\ Head(s) = s[1]
      /\ \A i \in DOMAIN Tail(s) : i + 1 \in DOMAIN s /\ Tail(s)[i] = s[i + 1]
      /\ \A i \in DOMAIN s : i # 1 => i - 1 \in DOMAIN Tail(s) /\ Tail(s)[i - 1] = s[i]
  OBVIOUS
<1>2. ASSUME NEW i \in DOMAIN s PROVE s[i] = Head(s) \/ s[i] \in Elements(Tail(s))
  <2>1. CASE i = 1
    BY <1>1, <2>1
  <2>2. CASE i # 1
    <3>1. i - 1 \in DOMAIN Tail(s) /\ Tail(s)[i - 1] = s[i]
      BY <1>1, <2>2
    <3> QED BY <3>1 DEF Elements
  <2> QED BY <2>1, <2>2
<1>3. Elements(s) \subseteq {Head(s)} \cup Elements(Tail(s))
  BY <1>2 DEF Elements
<1>4. Head(s) \in Elements(s)
  BY <1>1 DEF Elements
<1>5. ASSUME NEW i \in DOMAIN Tail(s) PROVE Tail(s)[i] \in Elements(s)
  <2>1. i + 1 \in DOMAIN s /\ Tail(s)[i] = s[i + 1]
    BY <1>1
  <2> QED BY <2>1 DEF Elements
<1>6. Elements(Tail(s)) \subseteq Elements(s)
  BY <1>5 DEF Elements
<1> QED BY <1>3, <1>4, <1>6

\* The commands that are somewhere.
Held == acked \cup Elements(hostQ) \cup ({hand, got} \ {None})

\* A step between the host's calls loses nothing if what is held stays held.
LEMMA MissingStays ==
  ASSUME sent' = sent, Held' = Held
  PROVE  Missing' = Missing
BY DEF Missing, Held

\* The get takes a command from the queue to the hand that waits for it.
LEMMA GetNextHolds ==
  ASSUME hostQ \in Seq(Command), GetNext
  PROVE  Elements(hostQ') \cup ({got'} \ {None}) = Elements(hostQ)
<1>1. CASE hostQ = <<>>
  BY <1>1 DEF GetNext
<1>2. CASE hostQ # <<>>
  <2>1. Head(hostQ) \in Command /\ Head(hostQ) # None
    BY <1>2, HeadAndTail
  <2>2. got' = Head(hostQ) /\ hostQ' = Tail(hostQ)
    BY <1>2 DEF GetNext
  <2>3. Elements(hostQ) = {Head(hostQ)} \cup Elements(Tail(hostQ))
    BY <1>2, ElementsHead
  <2>4. {got'} \ {None} = {Head(hostQ)}
    BY <2>1, <2>2
  <2> QED BY <2>2, <2>3, <2>4
<1> QED BY <1>1, <1>2

\* Every step but the one into the expiry keeps every command somewhere.
LEMMA MissingStep ==
  ASSUME TypeOK, Next, ~(mainPc = "ARMED" /\ mainPc' = "EXPIRING")
  PROVE  Missing' = Missing
<1>t. /\ hostQ \in Seq(Command) /\ sent \in Nat /\ acked \subseteq Command
      /\ got \in Command \cup {None} /\ hand \in Command \cup {None} /\ None \notin Command
      /\ waiting => got = None /\ hostQ = <<>>
      /\ waiting \/ got # None <=> mainPc \in {"ARMED", "KICKING"}
      /\ hand # None <=> mainPc \in {"ARMING", "KICKING", "DISARMING", "CLEARING"}
  BY DEF TypeOK
<1> USE DEF MainFrame, IntakeFrame, hostVars, waitVars, statusVars, countVars, intakeVars,
            Elapses, Dwell, Rest, Race, Ack
<1>1. ASSUME NEW kind \in Kinds, Send(kind) PROVE Missing' = Missing
  <2> DEFINE c == [id |-> sent + 1, kind |-> kind]
  <2>1. c \in Command /\ c # None /\ c.id = sent + 1 /\ sent' = sent + 1
    BY <1>1, <1>t DEF Send, Command
  <2>2. acked' = acked /\ hand' = hand
    BY <1>1 DEF Send
  <2>3. ASSUME waiting PROVE Held' = Held \cup {c}
    <3>1. got = None /\ got' = c /\ hostQ' = hostQ
      BY <1>1, <1>t, <2>3 DEF Send
    <3> QED BY <2>1, <2>2, <3>1 DEF Held
  <2>4. ASSUME ~waiting PROVE Held' = Held \cup {c}
    <3>1. got' = got /\ hostQ' = Append(hostQ, c)
      BY <1>1, <2>4 DEF Send
    <3>2. Elements(hostQ') = Elements(hostQ) \cup {c}
      BY <1>t, <2>1, <3>1, ElementsAppend
    <3> QED BY <2>2, <3>1, <3>2 DEF Held
  <2>5. Held' = Held \cup {c}
    BY <2>3, <2>4
  <2>6. Ids(Held') = Ids(Held) \cup {sent + 1}
    BY <2>1, <2>5 DEF Ids
  <2>7. (1 .. sent + 1) \ (Ids(Held) \cup {sent + 1}) = (1 .. sent) \ Ids(Held)
    BY <1>t
  <2> QED BY <2>1, <2>6, <2>7 DEF Missing, Held
<1>2. ASSUME NEW cycles \in Timeouts, ConfigureTimeout(cycles) PROVE Missing' = Missing
  BY <1>2, MissingStays DEF ConfigureTimeout, Held
<1>3. CASE Reset \/ Expire
  BY <1>3, <1>t, MissingStays DEF Reset, Expire, Held
<1>4. ASSUME hostQ # <<>>, hostQ' = Tail(hostQ), hand = None, got' = got, sent' = sent,
             \/ hand' = Head(hostQ) /\ acked' = acked
             \/ hand' = hand /\ acked' = acked \cup {Head(hostQ)}
      PROVE  Missing' = Missing
  <2>1. Head(hostQ) # None
    BY <1>4, <1>t, HeadAndTail
  <2>2. Elements(hostQ) = {Head(hostQ)} \cup Elements(hostQ')
    BY <1>4, <1>t, ElementsHead
  <2>3. Held' = Held
    BY <1>4, <2>1, <2>2 DEF Held
  <2> QED BY <1>4, <2>3, MissingStays
<1>5. CASE TakeDisarmed
  <2>1. hand = None
    BY <1>5, <1>t DEF TakeDisarmed
  <2> QED BY <1>4, <1>5, <2>1 DEF TakeDisarmed
<1>6. CASE TakeExpired
  <2>1. hand = None
    BY <1>6, <1>t DEF TakeExpired
  <2> QED BY <1>4, <1>6, <2>1 DEF TakeExpired
<1>7. CASE Arm
  <2>1. got = None /\ hand \in Command /\ hand # None
    BY <1>7, <1>t DEF Arm
  <2>2. acked' = acked \cup {hand} /\ hand' = None /\ GetNext /\ sent' = sent
    BY <1>7 DEF Arm
  <2>3. Elements(hostQ') \cup ({got'} \ {None}) = Elements(hostQ)
    BY <1>t, <2>2, GetNextHolds
  <2>4. Held' = Held
    BY <2>1, <2>2, <2>3 DEF Held
  <2> QED BY <2>2, <2>4, MissingStays
<1>8. CASE TakeArmed
  <2>1. hand = None /\ got # None /\ sent' = sent
    BY <1>8, <1>t DEF TakeArmed
  <2>2. CASE got.kind = "DISARM" /\ Dwell("DISARMING", got) /\ got' = None
              /\ UNCHANGED <<hostQ, waiting, acked>>
    <3>1. Held' = Held
      BY <2>1, <2>2 DEF Held
    <3> QED BY <2>1, <3>1, MissingStays
  <2>3. CASE GetNext /\ (\/ hand' = got /\ acked' = acked
                         \/ hand' = None /\ acked' = acked \cup {got})
    <3>1. Elements(hostQ') \cup ({got'} \ {None}) = Elements(hostQ)
      BY <1>t, <2>3, GetNextHolds
    <3>2. Held' = Held
      BY <2>1, <2>3, <3>1 DEF Held
    <3> QED BY <2>1, <3>2, MissingStays
  <2> QED BY <1>8, <2>2, <2>3 DEF TakeArmed
<1>9. CASE Kick \/ Disarm \/ Clear
  <2>1. hand # None
    BY <1>9, <1>t DEF Kick, Disarm, Clear
  <2>2. /\ acked' = acked \cup {hand} /\ hand' = None /\ hostQ' = hostQ /\ got' = got
        /\ sent' = sent
    BY <1>9 DEF Kick, Disarm, Clear
  <2>3. Held' = Held
    BY <2>1, <2>2 DEF Held
  <2> QED BY <2>2, <2>3, MissingStays
<1>10. CASE TickFires
  BY <1>10, MissingStays DEF TickFires, Held
<1>11. CASE TakeTick
  <2>1. Race /\ UNCHANGED <<waiting, got>>
    BY <1>11 DEF TakeTick
  <2>2. hand = None /\ hand' = None
    BY <1>11, <1>t, <2>1 DEF TakeTick
  <2> QED BY <1>11, <2>1, <2>2, MissingStays DEF TakeTick, Held
<1>12. CASE ConfigIntake
  BY <1>12, MissingStays DEF ConfigIntake, TakeConfig, AcceptConfig, ApplyTimeout, Held
<1>13. CASE Cycle
  BY <1>13, MissingStays DEF Cycle, Held
<1> QED
  BY <1>1, <1>2, <1>3, <1>5, <1>6, <1>7, <1>8, <1>9, <1>10, <1>11, <1>12, <1>13
  DEF Next, Host, WatchdogMain

\* A command that was sent is acknowledged, queued, held by the get or in the
\* hand, in every state; the one place where it can be lost is the step in which
\* the last tick turns into an expiry.
THEOREM LostOnlyAtExpiry == Spec => LosesOnlyAtExpiry
<1> DEFINE Lossless == Missing' # Missing => mainPc = "ARMED" /\ mainPc' = "EXPIRING"
<1>1. Init => TypeOK
  BY TypeInit
<1>2. TypeOK /\ [Next]_vars => TypeOK'
  BY TypeNext
<1>3. TypeOK /\ [Next]_vars => [Lossless]_vars
  BY MissingStep
<1> QED BY <1>1, <1>2, <1>3, PTL DEF Spec, LosesOnlyAtExpiry

=============================================================================
