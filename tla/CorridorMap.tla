----------------------------- MODULE CorridorMap -----------------------------
(***************************************************************************)
(* The corridor map (components/visualizations/atlas-corridor-map.tsx).    *)
(* The page loads a bundle of sections, blocks and OHE boundaries, and the *)
(* timetable after it, every minute; the map it draws them on is created   *)
(* and becomes ready on its own.  Whatever of these changes, an effect     *)
(* paints the bundle and the trains once the map library is there, and the *)
(* run that was waiting is cancelled.  Data are versions of the backend.   *)
(***************************************************************************)
EXTENDS Naturals, Absent

CONSTANTS MapLoads,     \* bound: loads under way at a time
          MaxGeo,       \* bound: versions of the backend's data
          MaxTouches    \* bound: touches of the map's controls

ASSUME MapAssumption ==
    /\ MaxGeo \in Nat \ {0} /\ MaxTouches \in Nat
    /\ None \notin [bundle : 1..MaxGeo, trains : 0..MaxGeo]

VARIABLES
    geo,           \* the version the backend has
    fetches,       \* load -> where it stands, None when not under way
    bundle,        \* the version of the bundle held, 0 before one
    trains,        \* that of the timetable, 0 without one
    mapError,      \* the banner over the map
    mapStage,      \* none, created or ready
    visible,       \* layer key -> its checkbox
    basemap,       \* the basemap's radio
    basemapError,  \* the badge of an offline basemap
    paints,        \* runs of the painting effect under way, with what they hold
    drawn,         \* the versions on the map
    overlay,       \* overlay -> whether the map shows it
    tiles,         \* the basemaps the map shows
    popup,         \* the version the popup is about, 0 when there is none
    touches        \* touches of the controls so far

mapVars == <<geo, fetches, bundle, trains, mapError, mapStage, visible, basemap,
             basemapError, paints, drawn, overlay, tiles, popup, touches>>

Keys == {"sections", "blocks", "ohe"}
Modes == {"off", "streets", "satellite"}

\* The overlays in the map's style, and the checkbox each goes by; the sections'
\* labels go by none.
Overlays == {"sections-line", "blocks-casing", "blocks-line", "ohe-line",
             "ohe-ends", "sections-label"}
LineOf == [k \in Keys |->
             CASE k = "sections" -> "sections-line"
               [] k = "blocks"   -> "blocks-line"
               [] k = "ohe"      -> "ohe-line"]
KeyOf(o) ==
    CASE o \in {"sections-line", "sections-label"} -> "sections"
      [] o \in {"blocks-casing", "blocks-line"}    -> "blocks"
      [] o \in {"ohe-line", "ohe-ends"}            -> "ohe"

Geo == 1..MaxGeo
Fetch == [leg : {"geo", "timetable"}, got : 0..MaxGeo]
Content == [bundle : Geo, trains : 0..MaxGeo]

MapTypeOK ==
    /\ geo \in Geo /\ bundle \in 0..MaxGeo /\ trains \in 0..MaxGeo
    /\ fetches \in [MapLoads -> Fetch \cup {None}]
    /\ mapError \in BOOLEAN /\ basemapError \in BOOLEAN
    /\ mapStage \in {"none", "created", "ready"}
    /\ visible \in [Keys -> BOOLEAN] /\ basemap \in Modes
    /\ paints \subseteq Content
    /\ drawn \in [lines : 0..MaxGeo, ends : 0..MaxGeo,
                  stations : 0..MaxGeo, trains : 0..MaxGeo]
    /\ overlay \in [Overlays -> BOOLEAN]
    /\ tiles \subseteq Modes \ {"off"}
    /\ popup \in 0..MaxGeo /\ touches \in 0..MaxTouches

Fetching(leg) == [leg |-> leg, got |-> 0]

MapInit ==
    /\ geo = 1 /\ bundle = 0 /\ trains = 0 /\ mapError = FALSE
    /\ \E i \in MapLoads :
          fetches = [j \in MapLoads |-> IF j = i THEN Fetching("geo") ELSE None]
    /\ mapStage = "none"
    /\ visible = [k \in Keys |-> TRUE] /\ basemap = "off" /\ basemapError = FALSE
    /\ paints = {}
    /\ drawn = [lines |-> 0, ends |-> 0, stations |-> 0, trains |-> 0]
    /\ overlay = [o \in Overlays |-> FALSE] /\ tiles = {}
    /\ popup = 0 /\ touches = 0

data == <<geo, fetches, bundle, trains, mapError>>
controls == <<visible, basemap, basemapError, touches>>
canvas == <<drawn, overlay, tiles, popup>>
\* MUTANT of Repaint: the run before it is not cancelled.
RepaintBeside(stage, b, t) ==
    paints' = IF stage = "ready" /\ b # 0
              THEN paints \cup {[bundle |-> b, trains |-> t]} ELSE paints

\* The painting effect runs anew: the run before it is cancelled, and without a
\* ready map and a bundle the new one ends at once.
Repaint(stage, b, t) ==
    paints' = IF stage = "ready" /\ b # 0 THEN {[bundle |-> b, trains |-> t]} ELSE {}

MapCreated ==
    /\ mapStage = "none" /\ mapStage' = "created"
    /\ UNCHANGED <<data, controls, canvas, paints>>

\* Ready: both basemaps are added, hidden.
MapLoaded ==
    /\ mapStage = "created" /\ mapStage' = "ready"
    /\ tiles' = {}
    /\ Repaint("ready", bundle, trains)
    /\ UNCHANGED <<data, controls, drawn, overlay, popup>>

MapTick ==
    /\ \E i \in MapLoads : /\ fetches[i] = None
                           /\ fetches' = [fetches EXCEPT ![i] = Fetching("geo")]
    /\ UNCHANGED <<geo, bundle, trains, mapError, mapStage, controls, canvas, paints>>

ServeFetch(i) ==
    /\ fetches[i] # None /\ fetches[i].got = 0
    /\ fetches' = [fetches EXCEPT ![i].got = geo]
    /\ UNCHANGED <<geo, bundle, trains, mapError, mapStage, controls, canvas, paints>>

GeoArrives(i) ==
    /\ fetches[i] # None /\ fetches[i].leg = "geo" /\ fetches[i].got # 0
    /\ bundle' = fetches[i].got /\ mapError' = FALSE
    /\ fetches' = [fetches EXCEPT ![i] = Fetching("timetable")]
    /\ Repaint(mapStage, bundle', trains)
    /\ UNCHANGED <<geo, trains, mapStage, controls, canvas>>

GeoFails(i) ==
    /\ fetches[i] # None /\ fetches[i].leg = "geo"
    /\ mapError' = TRUE
    /\ fetches' = [fetches EXCEPT ![i] = None]
    /\ UNCHANGED <<geo, bundle, trains, mapStage, controls, canvas, paints>>

\* Without a timetable the trains go; where there were none, nothing changes.
TimetableEnds(i) ==
    /\ fetches[i] # None /\ fetches[i].leg = "timetable"
    /\ trains' \in {0, fetches[i].got}
    /\ fetches' = [fetches EXCEPT ![i] = None]
    /\ IF trains' = 0 /\ trains = 0
       THEN UNCHANGED paints ELSE Repaint(mapStage, bundle, trains')
    /\ UNCHANGED <<geo, bundle, mapError, mapStage, controls, canvas>>
\* MUTANT of Synced: the checkboxes as they were when the map was made.
SyncedAtMount == [o \in Overlays |-> TRUE]

\* The line, casing and end layers follow the checkboxes as they are by now.
Synced == [o \in Overlays |-> o = "sections-label" \/ visible[KeyOf(o)]]

TilesOf(mode) == {mode} \ {"off"}

\* Every source is given the new data, but the isolators at the ends of the OHE
\* boundaries keep those they were added with; markers are wiped and made anew.
Painted(p) == [lines |-> p.bundle,
               ends |-> IF drawn.ends = 0 THEN p.bundle ELSE drawn.ends,
               stations |-> p.bundle, trains |-> p.trains]

Paint(p) ==
    /\ paints' = paints \ {p}
    /\ drawn' = Painted(p)
    /\ overlay' = Synced /\ tiles' = TilesOf(basemap)
    /\ UNCHANGED <<data, mapStage, controls, popup>>

Touch == touches < MaxTouches /\ touches' = touches + 1

\* A checkbox turns its line on or off, and nothing else of its key.
ToggleLayer(k) ==
    /\ Touch
    /\ visible' = [visible EXCEPT ![k] = ~@]
    /\ overlay' = IF drawn.lines = 0 THEN overlay
                  ELSE [overlay EXCEPT ![LineOf[k]] = visible'[k]]
    /\ UNCHANGED <<data, mapStage, basemap, basemapError, drawn, tiles, popup, paints>>

\* On a map that has no basemap layers yet the library complains of a basemap, and
\* the page takes that for an offline one.
SetBasemapMode(mode) ==
    /\ Touch /\ mode # basemap
    /\ basemap' = mode
    /\ basemapError' = (mapStage = "created")
    /\ tiles' = IF mapStage = "ready" THEN TilesOf(mode) ELSE tiles
    /\ UNCHANGED <<data, mapStage, visible, drawn, overlay, popup, paints>>

\* Tiles, or the glyphs of the labels, cannot be fetched.
TilesFail ==
    /\ mapStage # "none" /\ ~basemapError
    /\ basemapError' = TRUE
    /\ UNCHANGED <<data, mapStage, visible, basemap, touches, canvas, paints>>

\* A click on a station, or on an overlay that is shown.
ClickMap ==
    /\ Touch /\ drawn.lines # 0
    /\ popup' \in {drawn.stations}
          \cup {IF o = "ohe-ends" THEN drawn.ends ELSE drawn.lines :
                  o \in {p \in Overlays \ {"sections-label", "blocks-casing"} : overlay[p]}}
    /\ UNCHANGED <<data, mapStage, visible, basemap, basemapError, drawn, overlay,
                   tiles, paints>>

ClosePopup ==
    /\ popup # 0 /\ popup' = 0
    /\ UNCHANGED <<data, mapStage, controls, drawn, overlay, tiles, paints>>

GeoMoves ==
    /\ geo < MaxGeo /\ geo' = geo + 1
    /\ UNCHANGED <<fetches, bundle, trains, mapError, mapStage, controls, canvas, paints>>

MapNext ==
    \/ MapCreated \/ MapLoaded \/ MapTick \/ GeoMoves \/ TilesFail \/ ClickMap \/ ClosePopup
    \/ \E i \in MapLoads :
          ServeFetch(i) \/ GeoArrives(i) \/ GeoFails(i) \/ TimetableEnds(i)
    \/ \E p \in paints : Paint(p)
    \/ \E k \in Keys : ToggleLayer(k)
    \/ \E mode \in Modes : SetBasemapMode(mode)

MapSpec == MapInit /\ [][MapNext]_mapVars

\* Once the map has been painted, each line and basemap is shown exactly when its
\* control says so, whether the control was touched before the map existed, before
\* it was ready, while a paint was waiting or after it
\* (atlas-corridor-map.tsx:366-404, 602-656).
ControlsRule ==
    drawn.lines # 0 =>
        /\ \A k \in Keys : overlay[LineOf[k]] = visible[k]
        /\ tiles = TilesOf(basemap)

\* When no paint waits, lines, stations and trains are those the page holds: no
\* order of the map's own loading, the bundle and the timetable leaves an older
\* picture or none (atlas-corridor-map.tsx:473-600).
DrawnIsHeld ==
    mapStage = "ready" /\ bundle # 0 /\ paints = {} =>
        /\ drawn.lines = bundle /\ drawn.stations = bundle
        /\ drawn.trains = trains
============================================================================
