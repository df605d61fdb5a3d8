----------------------- MODULE EdgeBarrierController -----------------------
(* launcher/EdgeBarrierController.cpp and launcher/PointerBarrier.cpp: the pointer
   barriers at the launcher's edge (VERTICAL) and the top edge (HORIZONTAL) of every
   monitor, which resist the pointer until it was pushed hard enough.

   Abstracted: velocities and thresholds to small numbers; of an event's position only
   whether it is near the first one of a push; the average of a smoothed push to any
   velocity; the identity of an X event to whether it is a new one.  The decay of the
   pressure ticks as in LauncherHideMachine. *)
EXTENDS Integers

CONSTANTS MaxMonitors,  \* bound: monitors at a time
          Overcome,     \* edge_overcome_pressure_
          Decay,        \* what a tick of the decay takes away
          Options,      \* what may be configured, with force_disable, set while the screen is locked
          Clients       \* the barriers that a launcher or a panel may subscribe to

AllOptions == [edge_resist : BOOLEAN, hides : BOOLEAN, launcher_position : {"LEFT", "BOTTOM"},
               force_disable : BOOLEAN]

ASSUME EdgeAssumption == {MaxMonitors, Overcome, Decay} \subseteq Nat \ {0} /\ Options \subseteq AllOptions

Orientations == {"VERTICAL", "HORIZONTAL"}
Barriers == Orientations \X (1..MaxMonitors)

ASSUME ClientsAssumption == Clients \subseteq Barriers

Velocities == {1, 2}
Places == {"near", "far"}
Results == {"HANDLED", "ALREADY_HANDLED", "IGNORED", "NEEDS_RELEASE"}
NotRunning == <<"none", 0>>
Gone == <<"gone", 0>>

VARIABLES monitors,     \* how many there are
          options,      \* what is configured, and force_disable
          subscribers,  \* the barriers that have one
          barriers,     \* vertical_barriers_ and horizontal_barriers_
          pressure,     \* decaymulator_
          zone,         \* the static break zone of each orientation
          timer         \* release_timeout_: the barrier it holds

vars == <<monitors, options, subscribers, barriers, pressure, zone, timer>>

Wrappers == [active : BOOLEAN, released : BOOLEAN, release_once : BOOLEAN, smoothing : BOOLEAN,
             direction : {"BOTH", "UP", "DOWN"}]
NewWrapper == [active |-> FALSE, released |-> FALSE, release_once |-> FALSE, smoothing |-> FALSE,
               direction |-> "BOTH"]
NoWrapper == [active |-> FALSE]

TypeOK ==
  /\ monitors \in 1..MaxMonitors
  /\ options \in Options
  /\ subscribers \subseteq Barriers
  /\ barriers \in [Barriers -> Wrappers \cup {NoWrapper}]
  /\ pressure \in 0..Overcome
  /\ zone \in [Orientations -> Places]
  /\ timer \in Barriers \cup {NotRunning, Gone}

-----------------------------------------------------------------------------
(* ResetBarriers: the lists get the length of the layout, and every barrier is
   destroyed and built again if the options want it *)

ResizeBarrierList(n, o) ==
  [b \in Barriers |-> IF o.force_disable \/ b[2] > n THEN NoWrapper
                      ELSE IF barriers[b] = NoWrapper THEN NewWrapper ELSE barriers[b]]

NeedsBarrier(b, n, o) ==
  \/ o.edge_resist /\ n > 1
  \/ b[1] = "VERTICAL" /\ o.hides

\* The left edge keeps whatever direction the barrier had
Direction(b, o, old) ==
  IF b[1] = "HORIZONTAL" THEN "UP" ELSE IF o.launcher_position = "LEFT" THEN old ELSE "DOWN"

SetupBarriers(bs, n, o) ==
  [b \in Barriers |->
    IF bs[b] = NoWrapper THEN NoWrapper
    ELSE IF NeedsBarrier(b, n, o)
         THEN [bs[b] EXCEPT !.active = TRUE, !.direction = Direction(b, o, @)]
         ELSE [bs[b] EXCEPT !.active = FALSE]]

\* The timeout holds its barrier weakly
ResetBarriers(n, o) ==
  LET bs == SetupBarriers(ResizeBarrierList(n, o), n, o)
  IN /\ barriers' = bs
     /\ timer' = IF timer \in Barriers /\ bs[timer] = NoWrapper THEN Gone ELSE timer

Init ==
  /\ monitors \in 1..MaxMonitors
  /\ options \in {o \in Options : ~o.force_disable}
  /\ subscribers = {}
  /\ barriers = SetupBarriers([b \in Barriers |-> IF b[2] > monitors THEN NoWrapper ELSE NewWrapper],
                              monitors, options)
  /\ pressure = 0
  /\ zone = [o \in Orientations |-> "near"]
  /\ timer = NotRunning

LayoutChanges ==
  \E n \in 1..MaxMonitors :
    /\ monitors' = n
    /\ ResetBarriers(n, options)
    /\ UNCHANGED <<options, subscribers, pressure, zone>>

OptionsChange ==
  \E o \in Options :
    /\ options' = o
    /\ ResetBarriers(monitors, o)
    /\ UNCHANGED <<monitors, subscribers, pressure, zone>>

\* AddSubscriber and RemoveSubscriber
SubscribersChange ==
  \E b \in Clients :
    /\ subscribers' = IF b \in subscribers THEN subscribers \ {b} ELSE subscribers \cup {b}
    /\ ResetBarriers(monitors, options)
    /\ UNCHANGED <<monitors, options, pressure, zone>>

-----------------------------------------------------------------------------
(* What an event of a barrier does; bs are the barriers, as the wrapper left them *)

\* Mutant: a barrier that is released for one event needs no timeout
ReleaseUntimed(bs, b) ==
  /\ barriers' = [bs EXCEPT ![b].released = TRUE]
  /\ pressure' = 0
  /\ timer' = IF ~bs[b].release_once THEN b ELSE timer

\* One timeout serves all barriers: starting it stops the one that runs
BarrierRelease(bs, b) ==
  /\ barriers' = [bs EXCEPT ![b].released = TRUE]
  /\ pressure' = 0
  /\ timer' = IF ~bs[b].release_once \/ timer = NotRunning THEN b ELSE timer

\* Pressure of all barriers adds up, as long as the places are near
BarrierPush(bs, b, velocity, place) ==
  LET centre == IF pressure = 0 THEN place ELSE zone[b[1]]
      sum    == IF place = centre THEN pressure + velocity ELSE 0
  IN /\ zone' = [zone EXCEPT ![b[1]] = centre]
     /\ IF sum > Overcome THEN BarrierRelease(bs, b)
        ELSE barriers' = bs /\ pressure' = sum /\ UNCHANGED timer

OnPointerBarrierEvent(bs, b, velocity, place) ==
  IF bs[b].released THEN BarrierRelease(bs, b) /\ UNCHANGED zone
  ELSE \E result \in IF b \in subscribers THEN Results ELSE {"NEEDS_RELEASE"} :
    \/ result = "HANDLED" /\ barriers' = bs /\ pressure' = 0 /\ UNCHANGED <<zone, timer>>
    \/ /\ \/ result = "ALREADY_HANDLED"
          \/ result = "IGNORED" /\ options.edge_resist
       /\ BarrierPush(bs, b, velocity, place)
    \/ /\ result = "IGNORED" /\ ~options.edge_resist
       /\ BarrierRelease([bs EXCEPT ![b].release_once = TRUE], b)
       /\ UNCHANGED zone
    \/ result = "NEEDS_RELEASE" /\ BarrierRelease(bs, b) /\ UNCHANGED zone

-----------------------------------------------------------------------------
(* The wrapper *)

Has(b) == barriers[b] # NoWrapper

\* Faster than the threshold: X lets the pointer pass, nobody is told
HitFast(b) ==
  /\ Has(b) /\ barriers[b].active
  /\ barriers' = [barriers EXCEPT ![b].smoothing = FALSE]
  /\ UNCHANGED <<pressure, zone, timer>>

\* Released already: told at once
HitReleased(b, velocity, place) ==
  /\ Has(b) /\ barriers[b].active /\ barriers[b].released
  /\ OnPointerBarrierEvent([barriers EXCEPT ![b].smoothing = FALSE], b, velocity, place)

\* The first hit of a push is told at once, the others are summed up
HitFirst(b, velocity, place) ==
  /\ Has(b) /\ barriers[b].active /\ ~barriers[b].released /\ ~barriers[b].smoothing
  /\ OnPointerBarrierEvent([barriers EXCEPT ![b].smoothing = TRUE], b, velocity, place)

HitAgain(b) ==
  /\ Has(b) /\ barriers[b].active /\ ~barriers[b].released
  /\ barriers' = [barriers EXCEPT ![b].smoothing = TRUE]
  /\ UNCHANGED <<pressure, zone, timer>>

\* smoothing_timeout_, EmitCurrentData
EmitCurrentData(b, velocity, place) ==
  /\ Has(b) /\ barriers[b].smoothing
  /\ OnPointerBarrierEvent([barriers EXCEPT ![b].smoothing = FALSE], b, velocity, place)

BarrierEvent ==
  /\ \E b \in Barriers :
       \/ HitFast(b)
       \/ HitAgain(b)
       \/ \E velocity \in Velocities, place \in Places :
            \/ HitReleased(b, velocity, place)
            \/ HitFirst(b, velocity, place)
            \/ EmitCurrentData(b, velocity, place)
  /\ UNCHANGED <<monitors, options, subscribers>>

\* release_timeout_
ReleaseTimeout ==
  /\ timer # NotRunning
  /\ timer' = NotRunning
  /\ barriers' = IF timer = Gone THEN barriers
                 ELSE [barriers EXCEPT ![timer].released = FALSE, ![timer].release_once = FALSE]
  /\ UNCHANGED <<monitors, options, subscribers, pressure, zone>>

\* OnDecayTimeout
DecayTick ==
  /\ pressure > 0
  /\ pressure' = IF pressure <= Decay THEN 0 ELSE pressure - Decay
  /\ UNCHANGED <<monitors, options, subscribers, barriers, zone, timer>>

Next ==
  \/ LayoutChanges \/ OptionsChange \/ SubscribersChange
  \/ BarrierEvent \/ ReleaseTimeout \/ DecayTick

Spec == Init /\ [][Next]_vars

-----------------------------------------------------------------------------
(* Properties *)

Open(b) == Has(b) /\ barriers[b].released

Untimed(b) == Open(b) /\ timer # b

TimesAnOpenOne == timer \in Barriers => Open(timer)

LeavesOpen(b) ==
  Untimed(b)' =>
    \/ Untimed(b)
    \/ timer' \in Barriers /\ timer' # timer
    \/ barriers'[b].release_once /\ timer' = timer /\ timer # NotRunning

\* EdgeBarrierController.cpp:368: all barriers share one timeout.  It closes a barrier that
\* is open, never one that was destroyed and built again since; and a barrier is left open
\* without it only when another one takes the timeout over, or, if it opened for a
\* single event, while the timeout still runs for another.
TimeoutHandedOn == []TimesAnOpenOne /\ [][\A b \in Barriers : LeavesOpen(b)]_vars
=============================================================================
