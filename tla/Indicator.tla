----------------------------- MODULE Indicator -----------------------------
(***************************************************************************)
(* The status light: indicator.c, led.c and the idle hook of rtos.c.       *)
(*                                                                         *)
(* The state is set from above and shown from below.  The main thread, in  *)
(* its event callback, and the CLI thread change indicator_state and       *)
(* is_link; the idle task, which both preempt between any two of its       *)
(* steps, reads them and switches one LED after the other.  Neither        *)
(* variable is volatile or locked: the two reads of indicator_state in a   *)
(* heartbeat may be two loads or one.                                      *)
(*                                                                         *)
(* The CLI thread, the highest of the three, sleeps between its turns, but *)
(* not in a command that loops until a key is pressed: `uart test` lets    *)
(* neither of the others run.                                              *)
(***************************************************************************)
EXTENDS Naturals

CONSTANT LoadsOnce  \* whether the build may use one load for both reads

ASSUME LoadAssumption == LoadsOnce \in BOOLEAN

VARIABLES state, link,             \* indicator_state, is_link
          isOn,                    \* is_on
          leds,                    \* the channels that are lit
          begun,                   \* indicatorInit has been called
          spins,                   \* the CLI thread is in a loop without a sleep
          beatPc, picked, colour,  \* the idle task: next step (or lamp), state read first, colour picked
          seenState, seenLink      \* history: their values since the last heartbeat began

shared    == <<state, link>>
beat      == <<isOn, leds, beatPc, picked, colour>>
history   == <<seenState, seenLink>>
lightVars == <<shared, begun, spins, beat, history>>

State == {"BOOT", "RUN", "BUSY", "ERROR"}
Lamp  == {"RED", "GREEN", "BLUE"}
Follows == [RED |-> "GREEN", GREEN |-> "BLUE", BLUE |-> "rest"]  \* indicatorRender's order

\* indicatorPickColor
PickColor(s, up) ==
  CASE s = "ERROR"          -> "RED"
    [] s \in {"BOOT", "BUSY"} -> "BLUE"
    [] s = "RUN"            -> IF up THEN "GREEN" ELSE "RED"

LightTypeOK ==
  /\ state \in State /\ link \in BOOLEAN /\ isOn \in BOOLEAN /\ leds \subseteq Lamp
  /\ begun \in BOOLEAN /\ spins \in BOOLEAN
  /\ beatPc \in {"rest", "link", "mode"} \cup Lamp
  /\ picked \in State /\ colour \in Lamp
  /\ seenState \subseteq State /\ seenLink \subseteq BOOLEAN

-----------------------------------------------------------------------------
\* ledInit has turned every channel off.
LightInit ==
  /\ state = "BOOT" /\ link = FALSE /\ isOn = FALSE /\ leds = {} /\ begun = FALSE /\ spins = FALSE
  /\ beatPc = "rest" /\ picked = "BOOT" /\ colour = "BLUE"
  /\ seenState = {"BOOT"} /\ seenLink = {FALSE}

\* The main thread; the idle task does not run before it is done.
IndicatorInit ==
  /\ ~ begun /\ begun' = TRUE
  /\ state' = "BOOT" /\ leds' = {"BLUE"}
  /\ seenState' = seenState \cup {"BOOT"}
  /\ UNCHANGED <<link, spins, isOn, beatPc, picked, colour, seenLink>>

\* cliUart, `uart test`: while (cliKeepLoop())
Spin ==
  /\ begun /\ ~ spins /\ spins' = TRUE
  /\ UNCHANGED <<shared, begun, beat, history>>

KeyPressed ==
  /\ spins /\ spins' = FALSE
  /\ UNCHANGED <<shared, begun, beat, history>>

\* indicatorSetState, called from indicatorEvent (EVENT_ERROR, EVENT_BOOT_DONE) and from the CLI.
SetState(s) ==
  /\ begun /\ ~ spins
  /\ state' = s /\ seenState' = seenState \cup {s}
  /\ UNCHANGED <<link, begun, spins, beat, seenLink>>

\* indicatorEvent, EVENT_ETH_LINK
SetLink(up) ==
  /\ begun /\ ~ spins
  /\ link' = up /\ seenLink' = seenLink \cup {up}
  /\ UNCHANGED <<state, begun, spins, beat, seenState>>

(***************************************************************************)
(* vApplicationIdleHook: indicatorHeartbeat, every 500 ms.                 *)
(***************************************************************************)
\* indicatorPickColor's read of indicator_state
Heartbeat ==
  /\ beatPc = "rest"
  /\ beatPc' = IF state = "RUN" THEN "link" ELSE "mode"
  /\ picked' = state
  /\ colour' = IF state = "RUN" THEN colour ELSE PickColor(state, link)
  /\ seenState' = {state} /\ seenLink' = {link}
  /\ UNCHANGED <<shared, begun, spins, isOn, leds>>

\* and its read of is_link
ReadLink ==
  /\ beatPc = "link" /\ beatPc' = "mode"
  /\ colour' = PickColor(picked, link)
  /\ UNCHANGED <<shared, begun, spins, isOn, leds, picked, history>>

\* Mutant of SetMode: ERROR blinks.
SetModeErrorBlinks ==
  /\ beatPc = "mode" /\ beatPc' = "RED"
  /\ \E s \in {state} \cup (IF LoadsOnce THEN {picked} ELSE {}) : isOn' = (s = "BOOT" \/ ~ isOn)
  /\ UNCHANGED <<shared, begun, spins, leds, picked, colour, history>>

\* is_on = true in ERROR and BOOT, !is_on otherwise
SetMode ==
  /\ beatPc = "mode" /\ beatPc' = "RED"
  /\ \E s \in {state} \cup (IF LoadsOnce THEN {picked} ELSE {}) :
       isOn' = (s \in {"ERROR", "BOOT"} \/ ~ isOn)
  /\ UNCHANGED <<shared, begun, spins, leds, picked, colour, history>>

\* Mutant of Render: the other channels are left as they are.
RenderOnOnly ==
  /\ beatPc \in Lamp /\ beatPc' = Follows[beatPc]
  /\ leds' = IF beatPc # colour THEN leds ELSE IF isOn THEN leds \cup {colour} ELSE leds \ {colour}
  /\ UNCHANGED <<shared, begun, spins, isOn, picked, colour, history>>

\* One round of indicatorRender's loop: ledOn or ledOff of one channel.
Render ==
  /\ beatPc \in Lamp /\ beatPc' = Follows[beatPc]
  /\ leds' = IF beatPc = colour /\ isOn THEN leds \cup {colour} ELSE leds \ {beatPc}
  /\ UNCHANGED <<shared, begun, spins, isOn, picked, colour, history>>

Idle == ~ spins /\ (Heartbeat \/ ReadLink \/ SetMode \/ Render)

LightNext ==
  \/ IndicatorInit \/ Spin \/ KeyPressed \/ Idle
  \/ \E s \in State : SetState(s)
  \/ \E up \in BOOLEAN : SetLink(up)

LightSpec == LightInit /\ [][LightNext]_lightVars

\* Outside of such a loop the threads above the idle task sleep between their turns: the CLI thread
\* after every byte, so that it has slept before it can be in a loop again.
FairLightSpec == LightSpec /\ WF_lightVars(IndicatorInit) /\ SF_lightVars(Idle)

-----------------------------------------------------------------------------
\* Between two heartbeats at most one lamp is lit, and its colour is one that the states and the
\* link states since the last heartbeat began call for.
RestShowsOneColour ==
  beatPc = "rest" =>
    /\ \A c, d \in leds : c = d
    /\ \A c \in leds : \E s \in seenState, up \in seenLink : c = PickColor(s, up)

\* ERROR and BOOT are never dark and never another colour, once a heartbeat has seen nothing else.
SteadyStatesAreLit ==
  beatPc = "rest" /\ begun =>
    /\ seenState = {"ERROR"} => leds = {"RED"}
    /\ seenState = {"BOOT"} => leds = {"BLUE"}

\* What the light says between two heartbeats is true of the time since the last one began.
RestIsTrue == RestShowsOneColour /\ SteadyStatesAreLit

\* ERROR lights the red lamp and does not blink.
ErrorShown == <>[](state = "ERROR") => <>[](leds = {"RED"})
\* RUN with a link blinks in green and in no other colour.
RunBlinks ==
  <>[](state = "RUN" /\ link) => /\ <>[](leds \subseteq {"GREEN"})
                                 /\ []<>(leds = {"GREEN"}) /\ []<>(leds = {})

\* A state that lasts is shown, ERROR steady and RUN blinking, each in its colour, whatever was
\* shown before, if no command loops for ever; one that loops again and again does no harm.
LastingStateIsShown == []<>(~ spins) => ErrorShown /\ RunBlinks
=============================================================================
