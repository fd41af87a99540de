----------------------------- MODULE WeatherCard -----------------------------
(***************************************************************************)
(* The weather card (components/dashboard/atlas-weather.tsx): the alerts   *)
(* and the deferred activities are asked for together, at once and every   *)
(* two minutes, and are shown when both have come.  What the answers say   *)
(* is not told apart.                                                      *)
(***************************************************************************)
EXTENDS Absent

CONSTANT Asks    \* bound: loads under way at a time

VARIABLES
    weatherHeld,    \* the halves of the card that hold an answer
    weatherFailed,  \* an error is held
    asks            \* load -> the requests answered so far, None when not under way

weatherVars == <<weatherHeld, weatherFailed, asks>>

Halves == {"alerts", "deferred"}

ASSUME WeatherAssumption == \A answered \in SUBSET Halves : None # answered

WeatherTypeOK ==
    /\ weatherHeld \subseteq Halves /\ weatherFailed \in BOOLEAN
    /\ asks \in [Asks -> (SUBSET Halves) \cup {None}]

WeatherInit ==
    /\ weatherHeld = {} /\ weatherFailed = FALSE
    /\ \E i \in Asks : asks = [j \in Asks |-> IF j = i THEN {} ELSE None]

WeatherTick ==
    /\ \E i \in Asks : asks[i] = None /\ asks' = [asks EXCEPT ![i] = {}]
    /\ UNCHANGED <<weatherHeld, weatherFailed>>

ServeWeather(i) ==
    /\ asks[i] # None
    /\ \E half \in Halves \ asks[i] : asks' = [asks EXCEPT ![i] = @ \cup {half}]
    /\ UNCHANGED <<weatherHeld, weatherFailed>>

\* Both have come; the error of an earlier load stays up.
WeatherArrives(i) ==
    /\ asks[i] = Halves
    /\ weatherHeld' = Halves
    /\ asks' = [asks EXCEPT ![i] = None]
    /\ UNCHANGED weatherFailed
\* MUTANT of WeatherFails: the answer that did come is shown.
WeatherFailsHalf(i) ==
    /\ asks[i] # None
    /\ weatherHeld' = weatherHeld \cup asks[i] /\ weatherFailed' = TRUE
    /\ asks' = [asks EXCEPT ![i] = None]

\* One of the two fails, and the answer of the other is dropped with it.
WeatherFails(i) ==
    /\ asks[i] # None /\ asks[i] # Halves
    /\ weatherFailed' = TRUE
    /\ asks' = [asks EXCEPT ![i] = None]
    /\ UNCHANGED weatherHeld

WeatherNext ==
    \/ WeatherTick
    \/ \E i \in Asks : ServeWeather(i) \/ WeatherArrives(i) \/ WeatherFails(i)

WeatherSpec == WeatherInit /\ [][WeatherNext]_weatherVars

\* The card holds the alerts together with the deferred activities they explain or
\* neither, whichever request of a load fails and whatever loads overlap, and it is
\* never silent about nothing: when no load is under way it holds both or an error
\* (atlas-weather.tsx:51-68, 137-175).
CardHoldsBothOrError ==
    /\ weatherHeld \in {{}, Halves}
    /\ (\A i \in Asks : asks[i] = None) => weatherHeld = Halves \/ weatherFailed
============================================================================
