------------------------- MODULE CorridorMap_proofs -------------------------
(***************************************************************************)
(* The map shows what the page holds and what its controls say, for any    *)
(* number of loads, versions and touches.                                  *)
(***************************************************************************)
EXTENDS CorridorMap, TLAPS

\* Nothing is painted before the map is ready; a run that waits holds what the page
\* holds; and what was painted follows the controls.
MapInv ==
    /\ MapTypeOK
    /\ mapStage # "ready" => paints = {} /\ drawn.lines = 0
    /\ bundle = 0 => paints = {}
    /\ \A p \in paints : p.bundle = bundle /\ p.trains = trains
    /\ ControlsRule
    /\ DrawnIsHeld

LEMMA LineOfIsOverlay ==
    /\ LineOf \in [Keys -> Overlays]
    /\ \A j, k \in Keys : LineOf[j] = LineOf[k] => j = k
    /\ \A k \in Keys : LineOf[k] # "sections-label" /\ KeyOf(LineOf[k]) = k
BY DEF LineOf, Keys, Overlays, KeyOf

LEMMA RepaintHolds ==
    ASSUME NEW stage, NEW b \in 0..MaxGeo, NEW t \in 0..MaxGeo, Repaint(stage, b, t)
    PROVE  /\ paints' \subseteq Content
           /\ stage # "ready" \/ b = 0 => paints' = {}
           /\ stage = "ready" /\ b # 0 => paints' # {}
           /\ \A p \in paints' : p.bundle = b /\ p.trains = t
<1>1. CASE stage = "ready" /\ b # 0
  <2>1. paints' = {[bundle |-> b, trains |-> t]}
    BY <1>1 DEF Repaint
  <2>2. [bundle |-> b, trains |-> t] \in Content
    BY <1>1, MapAssumption DEF Content, Geo
  <2> QED BY <1>1, <2>1, <2>2
<1>2. CASE ~(stage = "ready" /\ b # 0)
  BY <1>2 DEF Repaint
<1> QED BY <1>1, <1>2

LEMMA MapInitInv == MapInit => MapInv
<1> SUFFICES ASSUME MapInit PROVE MapInv
  OBVIOUS
<1>1. fetches \in [MapLoads -> Fetch \cup {None}]
  BY MapAssumption DEF MapInit, Fetching, Fetch
<1>2. /\ geo \in Geo /\ bundle \in 0..MaxGeo /\ trains \in 0..MaxGeo
      /\ drawn \in [lines : 0..MaxGeo, ends : 0..MaxGeo,
                    stations : 0..MaxGeo, trains : 0..MaxGeo]
      /\ popup \in 0..MaxGeo /\ touches \in 0..MaxTouches
  BY MapAssumption DEF MapInit, Geo
<1>3. /\ mapError \in BOOLEAN /\ basemapError \in BOOLEAN
      /\ visible \in [Keys -> BOOLEAN] /\ overlay \in [Overlays -> BOOLEAN]
  BY DEF MapInit
<1>4. MapTypeOK
  BY <1>1, <1>2, <1>3 DEF MapInit, MapTypeOK, Modes
<1> QED
  BY <1>4 DEF MapInit, MapInv, ControlsRule, DrawnIsHeld

LEMMA MapStep == MapInv /\ [MapNext]_mapVars => MapInv'
<1> SUFFICES ASSUME MapInv, [MapNext]_mapVars PROVE MapInv'
  OBVIOUS
<1> USE MapAssumption DEF MapInv, MapTypeOK, data, controls, canvas
<1>1. CASE MapCreated
  BY <1>1 DEF MapCreated, ControlsRule, DrawnIsHeld
<1>2. CASE MapLoaded
  <2>1. /\ paints' \subseteq Content
        /\ bundle = 0 => paints' = {}
        /\ bundle # 0 => paints' # {}
        /\ \A p \in paints' : p.bundle = bundle /\ p.trains = trains
    BY <1>2, RepaintHolds DEF MapLoaded
  <2> QED BY <1>2, <2>1 DEF MapLoaded, ControlsRule, DrawnIsHeld
<1>3. CASE MapTick
  <2>1. fetches' \in [MapLoads -> Fetch \cup {None}]
    BY <1>3 DEF MapTick, Fetching, Fetch
  <2> QED BY <1>3, <2>1 DEF MapTick, ControlsRule, DrawnIsHeld
<1>4. CASE GeoMoves
  BY <1>4 DEF GeoMoves, Geo, ControlsRule, DrawnIsHeld
<1>5. CASE TilesFail
  BY <1>5 DEF TilesFail, ControlsRule, DrawnIsHeld
<1>6. CASE ClickMap
  <2>1. popup' \in 0..MaxGeo
    BY <1>6 DEF ClickMap
  <2> QED BY <1>6, <2>1 DEF ClickMap, Touch, ControlsRule, DrawnIsHeld
<1>7. CASE ClosePopup
  BY <1>7 DEF ClosePopup, ControlsRule, DrawnIsHeld
<1>8. ASSUME NEW i \in MapLoads, ServeFetch(i) PROVE MapInv'
  <2>1. fetches' \in [MapLoads -> Fetch \cup {None}]
    BY <1>8 DEF ServeFetch, Fetch, Geo
  <2> QED BY <1>8, <2>1 DEF ServeFetch, ControlsRule, DrawnIsHeld
<1>9. ASSUME NEW i \in MapLoads, GeoArrives(i) PROVE MapInv'
  <2>1. /\ fetches' \in [MapLoads -> Fetch \cup {None}]
        /\ bundle' \in 0..MaxGeo /\ bundle' # 0
    BY <1>9 DEF GeoArrives, Fetch, Fetching
  <2>2. /\ paints' \subseteq Content
        /\ mapStage # "ready" => paints' = {}
        /\ mapStage = "ready" => paints' # {}
        /\ \A p \in paints' : p.bundle = bundle' /\ p.trains = trains
    <3>1. PICK b \in 0..MaxGeo : b = bundle' /\ b # 0 /\ Repaint(mapStage, b, trains)
      BY <1>9, <2>1 DEF GeoArrives
    <3> QED BY <3>1, RepaintHolds
  <2>3. MapTypeOK'
    BY <1>9, <2>1, <2>2 DEF GeoArrives
  <2>4. ControlsRule'
    BY <1>9 DEF GeoArrives, ControlsRule
  <2>5. DrawnIsHeld'
    BY <1>9, <2>1, <2>2 DEF GeoArrives, DrawnIsHeld
  <2>6. /\ mapStage' # "ready" => paints' = {} /\ drawn'.lines = 0
        /\ bundle' # 0
    BY <1>9, <2>1, <2>2 DEF GeoArrives
  <2> QED BY <1>9, <2>1, <2>2, <2>3, <2>4, <2>5, <2>6 DEF GeoArrives
<1>10. ASSUME NEW i \in MapLoads, GeoFails(i) PROVE MapInv'
  BY <1>10 DEF GeoFails, ControlsRule, DrawnIsHeld
<1>11. ASSUME NEW i \in MapLoads, TimetableEnds(i) PROVE MapInv'
  <2>1. /\ fetches' \in [MapLoads -> Fetch \cup {None}]
        /\ trains' \in 0..MaxGeo
    BY <1>11 DEF TimetableEnds, Fetch
  <2>2. CASE trains' = 0 /\ trains = 0
    BY <1>11, <2>1, <2>2 DEF TimetableEnds, ControlsRule, DrawnIsHeld
  <2>3. CASE ~(trains' = 0 /\ trains = 0)
    <3>1. /\ paints' \subseteq Content
          /\ mapStage # "ready" \/ bundle = 0 => paints' = {}
          /\ mapStage = "ready" /\ bundle # 0 => paints' # {}
          /\ \A p \in paints' : p.bundle = bundle /\ p.trains = trains'
      BY <1>11, <2>1, <2>3, RepaintHolds DEF TimetableEnds
    <3> QED BY <1>11, <2>1, <3>1 DEF TimetableEnds, ControlsRule, DrawnIsHeld
  <2> QED BY <2>2, <2>3
<1>12. ASSUME NEW p \in paints, Paint(p) PROVE MapInv'
  <2>1. p \in Content /\ p.bundle = bundle /\ p.trains = trains /\ bundle # 0
    BY <1>12
  <2>2. paints = {p}
    BY <1>12, <2>1 DEF Content
  <2>3. paints' = {}
    BY <1>12, <2>2 DEF Paint
  <2>4. overlay' \in [Overlays -> BOOLEAN]
    <3>1. \A o \in Overlays : KeyOf(o) \in Keys
      BY DEF Overlays, KeyOf, Keys
    <3> QED BY <1>12, <3>1 DEF Paint, Synced
  <2>5. \A k \in Keys : overlay'[LineOf[k]] = visible[k]
    BY <1>12, LineOfIsOverlay DEF Paint, Synced
  <2>6. /\ drawn' \in [lines : 0..MaxGeo, ends : 0..MaxGeo,
                       stations : 0..MaxGeo, trains : 0..MaxGeo]
        /\ drawn'.lines = bundle /\ drawn'.stations = bundle /\ drawn'.trains = trains
    BY <1>12, <2>1 DEF Paint, Painted
  <2>7. tiles' \subseteq Modes \ {"off"} /\ tiles' = TilesOf(basemap)
    BY <1>12 DEF Paint, TilesOf
  <2> QED
    BY <1>12, <2>1, <2>3, <2>4, <2>5, <2>6, <2>7 DEF Paint, ControlsRule, DrawnIsHeld
<1>13. ASSUME NEW k \in Keys, ToggleLayer(k) PROVE MapInv'
  <2>1. /\ visible' \in [Keys -> BOOLEAN] /\ overlay' \in [Overlays -> BOOLEAN]
    BY <1>13, LineOfIsOverlay DEF ToggleLayer
  <2>2. ControlsRule'
    BY <1>13, LineOfIsOverlay DEF ToggleLayer, ControlsRule
  <2> QED BY <1>13, <2>1, <2>2 DEF ToggleLayer, Touch, DrawnIsHeld
<1>14. ASSUME NEW mode \in Modes, SetBasemapMode(mode) PROVE MapInv'
  <2>1. tiles' \subseteq Modes \ {"off"}
    BY <1>14 DEF SetBasemapMode, TilesOf
  <2>2. ControlsRule'
    BY <1>14 DEF SetBasemapMode, ControlsRule
  <2> QED BY <1>14, <2>1, <2>2 DEF SetBasemapMode, Touch, DrawnIsHeld
<1>15. CASE UNCHANGED mapVars
  BY <1>15 DEF mapVars, ControlsRule, DrawnIsHeld
<1> QED
  BY <1>1, <1>2, <1>3, <1>4, <1>5, <1>6, <1>7, <1>8, <1>9, <1>10, <1>11, <1>12,
     <1>13, <1>14, <1>15 DEF MapNext

\* The map's state keeps its type (atlas-corridor-map.tsx:76-107).
THEOREM MapTypeCorrect == MapSpec => []MapTypeOK
BY MapInitInv, MapStep, PTL DEF MapSpec, MapInv

\* A painted map obeys its controls, whenever they are touched
\* (atlas-corridor-map.tsx:366-404, 602-656).
THEOREM MapControlsRule == MapSpec => []ControlsRule
BY MapInitInv, MapStep, PTL DEF MapSpec, MapInv

\* With no paint waiting, the map shows the data the page holds
\* (atlas-corridor-map.tsx:473-600).
THEOREM MapDrawnIsHeld == MapSpec => []DrawnIsHeld
BY MapInitInv, MapStep, PTL DEF MapSpec, MapInv
============================================================================
