------------------------ MODULE DhwHysteresisProofs -------------------------
(***************************************************************************)
(* Proofs about DhwHysteresis, for all temperatures, rests and maxima: a   *)
(* run ends, and none begins before the rest is over, although the         *)
(* automation sees only the displayed state and its age.                   *)
(***************************************************************************)
EXTENDS DhwHysteresis, TLAPS

TypeOK ==
  /\ tank \in Temperatures /\ probe \in BOOLEAN /\ making \in BOOLEAN
  /\ shown \in {"off", "heat_pump", "unavailable"} /\ shown_for \in Nat
  /\ triggered \in BOOLEAN /\ unpolled \in 0 .. ScanTicks
  /\ off_for \in Nat /\ run_for \in 0 .. Longest

\* A machine that is off and shown off has been off for at least that long: it is only
\* turned off while it is shown heating.
RestInv == ~ making /\ shown = "off" => shown_for <= off_for

\* The age of a run that goes on is the displayed age, but for the time until the poll that
\* shows it.
AgeInv ==
  /\ run_for > 0 => making /\ probe
  /\ shown = "heat_pump" => run_for <= shown_for + ScanTicks
  /\ shown # "heat_pump" => run_for <= unpolled

\* When no run of the automation is due, the last one has seen no reason to give up.
GiveUpInv ==
  /\ ~ triggered /\ run_for > 0 /\ shown = "heat_pump" /\ tank >= emergency_below
  /\ maximum_run > 0
  => shown_for < maximum_run

IInv == TypeOK /\ RestInv /\ AgeInv /\ GiveUpInv /\ RunsAreBounded

-----------------------------------------------------------------------------
LEMMA Constants ==
  /\ Longest \in Nat /\ minimum_rest \in Nat /\ maximum_run \in Nat
  /\ ScanTicks \in Nat /\ ScanTicks > 0
  /\ \A t \in Temperatures : t \in Nat
  /\ emergency_below \in Int /\ Silent \notin Temperatures
  BY HysteresisAssumption DEF Longest

\* Ages grow, in step with each other.
LEMMA OlderGrows ==
  ASSUME NEW a \in Nat
  PROVE  /\ Older(a) \in Nat /\ Older(a) <= a + 1
         /\ a \in 0 .. Longest => Older(a) \in 0 .. Longest
         /\ \A b \in Nat : a <= b => Older(a) <= Older(b)
         /\ \A b \in 0 .. Longest : b <= a + ScanTicks => Older(b) <= Older(a) + ScanTicks
  BY Constants DEF Older

LEMMA InvInit == Init => IInv
<1> SUFFICES ASSUME Init PROVE IInv
  OBVIOUS
<1>1. probe = TRUE /\ triggered = FALSE /\ unpolled = 0
  BY DEF Init
<1>2. /\ shown_for = 0 /\ off_for = 0 /\ run_for = 0 /\ run_for \in 0 .. Longest
      /\ unpolled \in 0 .. ScanTicks
  BY Constants DEF Init
<1>3. shown \in {"off", "heat_pump", "unavailable"} /\ tank \in Temperatures /\ making \in BOOLEAN
  BY DEF Init
<1>4. TypeOK
  BY <1>1, <1>2, <1>3, Constants DEF TypeOK
<1> QED BY <1>1, <1>2, <1>4, Constants DEF IInv, RestInv, AgeInv, GiveUpInv, RunsAreBounded

\* A branch of the choice that turns hot water off does so while it is shown, and one
\* that turns it on while it is not.
LEMMA Decisions ==
  ASSUME TypeOK
  PROVE  /\ Decision \in {"none", "on", "off"}
         /\ Decision = "off" => producing
         /\ Decision = "on" => /\ ~ producing
                               /\ \/ tank < emergency_below
                                  \/ minimum_rest = 0
                                  \/ shown = "off" /\ shown_for >= minimum_rest
  BY DEF Decision, EmergencyStart, emergency, tank_value, Stop, RanTooLong, NormalStart, For,
         reporting

\* A run that has lasted too long is given up, unless the tank is an emergency.
LEMMA GivesUp ==
  ASSUME TypeOK, probe, shown = "heat_pump", tank >= emergency_below,
         maximum_run > 0, shown_for >= maximum_run
  PROVE  Decision = "off"
<1>1. reporting /\ producing /\ ~ emergency
  BY Constants DEF TypeOK, reporting, tank_value, producing, emergency
<1>2. RanTooLong /\ ~ EmergencyStart
  BY <1>1 DEF RanTooLong, EmergencyStart, For
<1> QED BY <1>1, <1>2 DEF Decision

LEMMA AutomationStep ==
  ASSUME IInv, Automation
  PROVE  IInv'
<1>1. /\ UNCHANGED << tank, probe, shown, shown_for, unpolled >>
      /\ triggered' = FALSE /\ TypeOK
  BY DEF Automation, IInv
<1>2. CASE UNCHANGED << making, off_for, run_for >> /\ Decision = "none"
  <2>1. GiveUpInv'
    <3> SUFFICES ASSUME run_for > 0, shown = "heat_pump", tank >= emergency_below,
                        maximum_run > 0
                 PROVE  shown_for < maximum_run
      BY <1>1, <1>2 DEF GiveUpInv
    <3>1. probe
      BY DEF IInv, AgeInv
    <3> QED BY <1>1, <1>2, <3>1, GivesUp, Constants DEF TypeOK
  <2> QED BY <1>1, <1>2, <2>1 DEF IInv, TypeOK, RestInv, AgeInv, RunsAreBounded
<1>3. CASE Decision # "none" /\ Call(Decision = "on")
  <2>1. /\ making' \in BOOLEAN
        /\ making' = making \/ (making' = (Decision = "on") /\ shown # "unavailable")
        /\ off_for' = IF making' = making THEN off_for ELSE 0
        /\ run_for' = 0 \/ (run_for' = run_for /\ making' = making /\ making = (Decision = "on"))
    BY <1>1, <1>3 DEF Call, TypeOK
  <2>2. TypeOK'
    <3>1. off_for' \in Nat /\ run_for' \in 0 .. Longest
      BY <1>1, <2>1, Constants DEF TypeOK
    <3> QED BY <1>1, <2>1, <3>1 DEF TypeOK
  <2>3. RestInv'
    <3>1. CASE making' = making
      BY <1>1, <2>1, <3>1 DEF IInv, RestInv
    <3>2. CASE making' # making /\ making'
      BY <3>2 DEF RestInv
    <3>3. CASE making' # making /\ ~ making'
      BY <1>1, <2>1, <3>3, <1>3, Decisions DEF RestInv, producing
    <3> QED BY <3>1, <3>2, <3>3
  <2>4. AgeInv' /\ RunsAreBounded'
    BY <1>1, <2>1, Constants DEF IInv, AgeInv, RunsAreBounded, TypeOK
  <2>5. GiveUpInv'
    <3> SUFFICES ASSUME run_for' > 0, shown = "heat_pump"
                 PROVE  FALSE
      BY <1>1 DEF GiveUpInv
    <3>1. making /\ Decision = "on"
      BY <2>1, <1>1 DEF IInv, AgeInv, TypeOK
    <3> QED BY <1>1, <3>1, Decisions DEF producing
  <2> QED BY <2>2, <2>3, <2>4, <2>5 DEF IInv
<1> QED BY <1>2, <1>3 DEF Automation

LEMMA PollStep ==
  ASSUME IInv, Poll
  PROVE  IInv'
<1>1. /\ unpolled' = 0 /\ UNCHANGED << tank, probe, making, triggered, off_for >>
      /\ shown' \in {current_operation, "unavailable"}
      /\ shown_for' = IF shown' = shown THEN shown_for ELSE 0
      /\ run_for' = IF shown' = "unavailable" THEN 0 ELSE run_for
      /\ current_operation = IF making THEN "heat_pump" ELSE "off"
  BY DEF Poll, current_operation
<1>2. TypeOK /\ TypeOK'
  BY <1>1, Constants DEF IInv, TypeOK
<1>3. RestInv'
  BY <1>1, <1>2, Constants DEF IInv, RestInv, TypeOK
<1>4. AgeInv'
  BY <1>1, <1>2, Constants DEF IInv, AgeInv, TypeOK
<1>5. GiveUpInv' /\ RunsAreBounded'
  BY <1>1, <1>2, Constants DEF IInv, GiveUpInv, RunsAreBounded, TypeOK
<1> QED BY <1>2, <1>3, <1>4, <1>5 DEF IInv

LEMMA TickStep ==
  ASSUME IInv, Tick
  PROVE  IInv'
<1>1. /\ unpolled < ScanTicks /\ ~ triggered /\ unpolled' = unpolled + 1 /\ triggered' = TRUE
      /\ UNCHANGED << tank, probe, making, shown >>
      /\ shown_for' = Older(shown_for)
      /\ off_for' = IF making THEN 0 ELSE Older(off_for)
      /\ run_for' = IF making /\ probe /\ tank >= emergency_below THEN Older(run_for) ELSE 0
  BY DEF Tick
<1>2. TypeOK /\ run_for \in Nat /\ Longest \in Nat
  BY Constants DEF IInv, TypeOK
<1>3. TypeOK'
  <2>1. shown_for' \in Nat /\ off_for' \in Nat /\ run_for' \in 0 .. Longest
    <3>1. shown_for \in Nat /\ off_for \in Nat /\ run_for \in 0 .. Longest
      BY <1>2 DEF TypeOK
    <3>2. Older(shown_for) \in Nat /\ Older(off_for) \in Nat /\ Older(run_for) \in 0 .. Longest
      BY <1>2, <3>1, OlderGrows
    <3> QED BY <1>1, <1>2, <3>2
  <2>2. unpolled' \in 0 .. ScanTicks
    BY <1>1, <1>2, Constants DEF TypeOK
  <2>3. /\ tank' \in Temperatures /\ probe' \in BOOLEAN /\ making' \in BOOLEAN
        /\ shown' \in {"off", "heat_pump", "unavailable"} /\ triggered' \in BOOLEAN
    BY <1>1, <1>2 DEF TypeOK
  <2> QED BY <2>1, <2>2, <2>3 DEF TypeOK
<1>4. RestInv'
  BY <1>1, <1>2, OlderGrows DEF IInv, RestInv, TypeOK
<1>5. run_for' = 0 \/ run_for' = Older(run_for)
  BY <1>1
<1>6. AgeInv'
  <2>1. run_for' > 0 => making' /\ probe'
    BY <1>1
  <2>2. ASSUME shown = "heat_pump" PROVE run_for' <= shown_for' + ScanTicks
    <3>1. shown_for \in Nat /\ run_for \in 0 .. Longest /\ run_for <= shown_for + ScanTicks
      BY <1>2, <2>2 DEF IInv, AgeInv, TypeOK
    <3>2. Older(run_for) <= Older(shown_for) + ScanTicks /\ Older(shown_for) \in Nat
      BY <3>1, OlderGrows
    <3> QED BY <1>1, <1>5, <3>2, Constants
  <2>3. ASSUME shown # "heat_pump" PROVE run_for' <= unpolled'
    <3>1. run_for <= unpolled /\ unpolled \in 0 .. ScanTicks
      BY <1>2, <2>3 DEF IInv, AgeInv, TypeOK
    <3>2. Older(run_for) <= run_for + 1 /\ Older(run_for) \in Nat
      BY <1>2, OlderGrows
    <3> QED BY <1>1, <1>2, <1>5, <3>1, <3>2, Constants
  <2> QED BY <1>1, <2>1, <2>2, <2>3 DEF AgeInv
<1>7. GiveUpInv'
  BY <1>1 DEF GiveUpInv
<1>8. RunsAreBounded'
  <2>1. Older(run_for) <= run_for + 1 /\ Older(run_for) \in Nat
    BY <1>2, OlderGrows
  <2>2. ASSUME maximum_run > 0, tank >= emergency_below, run_for > 0
        PROVE  run_for + 1 <= maximum_run + ScanTicks
    <3>1. CASE shown = "heat_pump"
      <4>1. run_for <= shown_for + ScanTicks /\ shown_for < maximum_run
        BY <1>1, <1>2, <2>2, <3>1 DEF IInv, AgeInv, GiveUpInv
      <4> QED BY <1>2, <4>1, Constants DEF TypeOK
    <3>2. CASE shown # "heat_pump"
      <4>1. run_for <= unpolled
        BY <3>2 DEF IInv, AgeInv
      <4> QED BY <1>1, <1>2, <2>2, <4>1, Constants DEF TypeOK
    <3> QED BY <3>1, <3>2
  <2>3. ASSUME maximum_run > 0 PROVE run_for' <= maximum_run + ScanTicks
    <3>1. CASE run_for' = 0
      BY <2>3, <3>1, Constants
    <3>2. CASE run_for' # 0 /\ run_for = 0
      BY <1>2, <1>5, <2>1, <2>3, <3>2, Constants
    <3>3. CASE run_for' # 0 /\ run_for > 0
      <4>1. run_for' = Older(run_for) /\ tank >= emergency_below
        BY <1>1, <3>3
      <4> QED BY <1>2, <2>1, <2>2, <2>3, <3>3, <4>1, Constants
    <3> QED BY <1>2, <3>1, <3>2, <3>3
  <2> QED BY <2>3 DEF RunsAreBounded
<1> QED BY <1>3, <1>4, <1>6, <1>7, <1>8 DEF IInv

\* The tank, the probe and the brakes.
LEMMA SurroundingsStep ==
  ASSUME IInv, TankChanges \/ ProbeChanges \/ BrakesChange \/ UNCHANGED vars
  PROVE  IInv'
<1>1. CASE TankChanges
  <2>1. triggered' \/ run_for = 0
    BY <1>1 DEF TankChanges, IInv, AgeInv, TypeOK
  <2> QED BY <1>1, <2>1, Constants
          DEF TankChanges, IInv, TypeOK, RestInv, AgeInv, GiveUpInv, RunsAreBounded
<1>2. CASE ProbeChanges
  BY <1>2, Constants
     DEF ProbeChanges, IInv, TypeOK, RestInv, AgeInv, GiveUpInv, RunsAreBounded
<1>3. CASE BrakesChange \/ UNCHANGED vars
  BY <1>3 DEF BrakesChange, vars, IInv, TypeOK, RestInv, AgeInv, GiveUpInv, RunsAreBounded
<1> QED BY <1>1, <1>2, <1>3

LEMMA Invariance == Spec => []IInv
<1>1. IInv /\ [Next]_vars => IInv'
  BY AutomationStep, PollStep, TickStep, SurroundingsStep DEF Next
<1> QED BY <1>1, InvInit, PTL DEF Spec

-----------------------------------------------------------------------------
\* A run ends one interval of the polls after its maximum at the latest, between two failures
\* (dhw_hysteresis.yaml:94-98).
THEOREM RunsEnd == Spec => []RunsAreBounded
<1>1. IInv => RunsAreBounded
  BY DEF IInv
<1> QED BY <1>1, Invariance, PTL

\* A new run begins only after the machine's own rest, or in an emergency
\* (dhw_hysteresis.yaml:16-19, 82-86).
THEOREM RestsAreKept == Spec => RestIsKept
<1>1. ASSUME IInv, Next, ~ making /\ making'
      PROVE  off_for >= minimum_rest \/ tank < emergency_below
  <2>1. Automation
    BY <1>1 DEF Next, Poll, TankChanges, ProbeChanges, BrakesChange, Tick
  <2>2. Decision = "on"
    BY <1>1, <2>1, Decisions DEF Automation, Call, IInv, TypeOK
  <2> QED BY <1>1, <2>2, Decisions, Constants DEF IInv, TypeOK, RestInv
<1>2. IInv /\ [Next]_vars =>
        [~ making /\ making' => off_for >= minimum_rest \/ tank < emergency_below]_vars
  BY <1>1
<1> QED BY <1>2, Invariance, PTL DEF Spec, RestIsKept
=============================================================================
