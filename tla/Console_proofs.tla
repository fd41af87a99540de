--------------------------- MODULE Console_proofs ---------------------------
(***************************************************************************)
(* The console whole, for any number of tabs, calls, loads, plans and      *)
(* operators: what its parts keep each alone (the proof modules of the     *)
(* parts, and here the weekly planner, the operations overview, the audit  *)
(* ledger's page and the weather card) its composition keeps.              *)
(***************************************************************************)
EXTENDS Console, ConsoleSession_proofs, LiveFeed_proofs, ApprovalsDesk_proofs,
        DisruptionDesk_proofs, CorridorMap_proofs

----------------------------------------------------------------------------
(* The weekly planner. *)

\* Every answer held or on its way counts no more rows than are committed by now.
PlannerInv ==
    /\ PlannerTypeOK
    /\ posting # None => solves < MaxSolves
    /\ \A r \in served : r.n <= committed[r.of]
    /\ planRows # None => planRows.n <= committed[planRows.of]

LEMMA PlannerInitInv == PlannerInit => PlannerInv
BY PlannerAssumption DEF PlannerInit, PlannerInv, PlannerTypeOK, Rows

LEMMA PlannerStep == PlannerInv /\ [PlannerNext]_plannerVars => PlannerInv'
<1> SUFFICES ASSUME PlannerInv, [PlannerNext]_plannerVars
             PROVE  PlannerInv'
  OBVIOUS
<1> USE PlannerAssumption DEF PlannerInv, PlannerTypeOK, Rows
<1>1. ASSUME NEW h \in Horizons, ChooseTab(h) PROVE PlannerInv'
  BY <1>1 DEF ChooseTab, Polling
<1>2. CASE PressSolve
  BY <1>2 DEF PressSolve
<1>3. CASE SolveQueued
  <2>1. solves' \in 0..MaxSolves
    BY <1>3 DEF SolveQueued
  <2> QED BY <1>3, <2>1 DEF SolveQueued, Polling
<1>4. CASE SolveRefused
  BY <1>4 DEF SolveRefused
<1>5. CASE Poll \/ PollStops
  BY <1>5 DEF Poll, PollStops
<1>6. ASSUME NEW h \in planLoads, ServePlans(h) PROVE PlannerInv'
  BY <1>6 DEF ServePlans
<1>7. ASSUME NEW h \in planLoads, PlansFail(h) PROVE PlannerInv'
  BY <1>7 DEF PlansFail
<1>8. ASSUME NEW r \in served, PlansArrive(r) PROVE PlannerInv'
  BY <1>8 DEF PlansArrive
<1>9. ASSUME NEW h \in Horizons, WorkerCommits(h) PROVE PlannerInv'
  BY <1>9 DEF WorkerCommits
<1>10. CASE UNCHANGED plannerVars
  BY <1>10 DEF plannerVars
<1> QED
  BY <1>1, <1>2, <1>3, <1>4, <1>5, <1>6, <1>7, <1>8, <1>9, <1>10 DEF PlannerNext

\* The planner's state keeps its type (atlas-planner.tsx:165-203).
THEOREM PlannerTypeCorrect == PlannerSpec => []PlannerTypeOK
BY PlannerInitInv, PlannerStep, PTL DEF PlannerSpec, PlannerInv

\* No tab counts more plans than are committed for its horizon
\* (atlas-planner.tsx:178-203).
THEOREM PlannerNoForeignRows == PlannerSpec => []NoForeignRows
<1>1. PlannerInv => NoForeignRows
  BY PlannerAssumption DEF PlannerInv, PlannerTypeOK, Rows, NoForeignRows, Shown
<1> QED BY <1>1, PlannerInitInv, PlannerStep, PTL DEF PlannerSpec
----------------------------------------------------------------------------
(* The operations overview. *)

\* A refresh that has gone on to the plans had its summary.
DashInv ==
    /\ DashTypeOK
    /\ SilentMeansLoaded
    /\ \A i \in Refreshes :
          refreshes[i] # None /\ refreshes[i].leg = "plans" => summary # 0

\* What a refresh under way is told apart by.
LEMMA AskedIsRefresh ==
    ASSUME NEW leg \in {"summary", "plans"}
    PROVE  Asked(leg) \in Refresh /\ Asked(leg) # None /\ Asked(leg).leg = leg
BY DashboardAssumption DEF Asked, Refresh

LEMMA DashInitInv == DashInit => DashInv
<1> SUFFICES ASSUME DashInit PROVE DashInv
  OBVIOUS
<1>1. PICK i \in Refreshes :
         refreshes = [j \in Refreshes |-> IF j = i THEN Asked("summary") ELSE None]
  BY DEF DashInit
<1>2. refreshes[i] # None /\ refreshes \in [Refreshes -> Refresh \cup {None}]
  BY <1>1, AskedIsRefresh
<1>3. \A j \in Refreshes : refreshes[j] = None \/ refreshes[j].leg = "summary"
  BY <1>1, AskedIsRefresh
<1>4. DashTypeOK
  <2>1. version \in Versions /\ summary \in Versions \cup {0} /\ grid \in Versions \cup {0}
    BY DashboardAssumption DEF DashInit, Versions
  <2>2. /\ refreshFailed \in BOOLEAN /\ loading1st \in BOOLEAN
        /\ stamped \in BOOLEAN /\ connected \in BOOLEAN
    BY DEF DashInit
  <2> QED BY <1>2, <2>1, <2>2 DEF DashTypeOK
<1>5. SilentMeansLoaded
  BY <1>2 DEF DashInit, SilentMeansLoaded
<1> QED BY <1>3, <1>4, <1>5 DEF DashInv

LEMMA DashStep == DashInv /\ [DashNext]_dashVars => DashInv'
<1> SUFFICES ASSUME DashInv, [DashNext]_dashVars PROVE DashInv'
  OBVIOUS
<1> USE DashboardAssumption DEF DashInv, DashTypeOK, SilentMeansLoaded, Versions
<1>1. ASSUME StartRefresh, UNCHANGED <<version, summary, grid, loading1st, stamped>>,
             connected' \in BOOLEAN
      PROVE  DashInv'
  <2>1. PICK i \in Refreshes :
           refreshes[i] = None /\ refreshes' = [refreshes EXCEPT ![i] = Asked("summary")]
    BY <1>1 DEF StartRefresh
  <2>2. /\ refreshes' \in [Refreshes -> Refresh \cup {None}]
        /\ refreshes'[i] # None /\ refreshes'[i].leg = "summary"
        /\ \A j \in Refreshes : j # i => refreshes'[j] = refreshes[j]
    BY <2>1, AskedIsRefresh
  <2> QED BY <1>1, <2>2 DEF StartRefresh
<1>2. CASE RefreshAgain
  BY <1>1, <1>2 DEF RefreshAgain
<1>3. CASE StreamConnects
  BY <1>1, <1>3 DEF StreamConnects
<1>4. CASE StreamDrops
  BY <1>4 DEF StreamDrops
<1>10. CASE BackendMoves
  BY <1>10 DEF BackendMoves
<1>5. ASSUME NEW i \in Refreshes, ServeRefresh(i) PROVE DashInv'
  <2>1. /\ refreshes' \in [Refreshes -> Refresh \cup {None}]
        /\ refreshes'[i].leg = refreshes[i].leg
        /\ \A j \in Refreshes : j # i => refreshes'[j] = refreshes[j]
    BY <1>5 DEF ServeRefresh, Refresh
  <2>2. refreshes'[i] # None
    BY <1>5 DEF ServeRefresh, Refresh
  <2> QED BY <1>5, <2>1, <2>2 DEF ServeRefresh
<1>6. ASSUME NEW i \in Refreshes, SummaryArrives(i) PROVE DashInv'
  <2>1. summary' \in Versions /\ summary' # 0
    BY <1>6 DEF SummaryArrives, Refresh
  <2>2. refreshes' \in [Refreshes -> Refresh \cup {None}]
    BY <1>6, AskedIsRefresh DEF SummaryArrives
  <2> QED BY <1>6, <2>1, <2>2 DEF SummaryArrives
<1>7. ASSUME NEW i \in Refreshes, SummaryFails(i) PROVE DashInv'
  BY <1>7 DEF SummaryFails
<1>8. ASSUME NEW i \in Refreshes, PlansEnd(i) PROVE DashInv'
  <2>1. summary # 0 /\ summary' = summary
    BY <1>8 DEF PlansEnd
  <2>2. grid' \in Versions \cup {0}
    BY <1>8 DEF PlansEnd, Refresh
  <2> QED BY <1>8, <2>1, <2>2 DEF PlansEnd
<1>9. CASE UNCHANGED dashVars
  BY <1>9 DEF dashVars
<1> QED
  BY <1>2, <1>3, <1>4, <1>5, <1>6, <1>7, <1>8, <1>9, <1>10 DEF DashNext

\* No stamp over figures that were not loaded, and no silence without figures
\* (atlas-dashboard.tsx:263-290).
THEOREM DashSilentMeansLoaded == DashSpec => []SilentMeansLoaded
BY DashInitInv, DashStep, PTL DEF DashSpec, DashInv
----------------------------------------------------------------------------
(* The audit ledger's page. *)

\* The entries are asked for only under a verdict.
LedgerDeskInv ==
    /\ LedgerDeskTypeOK
    /\ EntriesUnderVerdict
    /\ verifying = "entries" => verdict # None

LEMMA LedgerDeskStep == LedgerDeskInv /\ [LedgerDeskNext]_ledgerDeskVars => LedgerDeskInv'
<1> SUFFICES ASSUME LedgerDeskInv, [LedgerDeskNext]_ledgerDeskVars
             PROVE  LedgerDeskInv'
  OBVIOUS
<1> USE LedgerDeskAssumption DEF LedgerDeskInv, LedgerDeskTypeOK, EntriesUnderVerdict
<1>1. CASE Reverify
  BY <1>1 DEF Reverify
<1>2. CASE ServeVerify
  BY <1>2 DEF ServeVerify
<1>3. CASE ChainTurns
  BY <1>3 DEF ChainTurns
<1>4. CASE VerdictArrives
  BY <1>4 DEF VerdictArrives
<1>5. CASE VerifyRefused
  BY <1>5 DEF VerifyRefused
<1>6. CASE VerifyFails
  BY <1>6 DEF VerifyFails
<1>7. CASE EntriesArrive \/ EntriesFail
  BY <1>7 DEF EntriesArrive, EntriesFail
<1>8. CASE UNCHANGED ledgerDeskVars
  BY <1>8 DEF ledgerDeskVars
<1> QED
  BY <1>1, <1>4, <1>5, <1>7, <1>8, <1>2, <1>3, <1>6 DEF LedgerDeskNext

LEMMA LedgerDeskInitInv == LedgerDeskInit => LedgerDeskInv
BY LedgerDeskAssumption
DEF LedgerDeskInit, LedgerDeskInv, LedgerDeskTypeOK, EntriesUnderVerdict

\* Entries only under a verdict and never after a refusal, whatever sequence of
\* verifications, refusals and failures (atlas-ledger.tsx:40-73, 189-269).
THEOREM LedgerEntriesUnderVerdict == LedgerDeskSpec => []EntriesUnderVerdict
BY LedgerDeskInitInv, LedgerDeskStep, PTL DEF LedgerDeskSpec, LedgerDeskInv
----------------------------------------------------------------------------
(* The weather card. *)

WeatherInv == WeatherTypeOK /\ CardHoldsBothOrError

LEMMA WeatherInitInv == WeatherInit => WeatherInv
<1> SUFFICES ASSUME WeatherInit PROVE WeatherInv
  OBVIOUS
<1>1. PICK i \in Asks : asks = [j \in Asks |-> IF j = i THEN {} ELSE None]
  BY DEF WeatherInit
<1>2. asks[i] # None
  BY <1>1, WeatherAssumption
<1>3. asks \in [Asks -> (SUBSET Halves) \cup {None}]
  BY <1>1
<1> QED BY <1>2, <1>3 DEF WeatherInit, WeatherInv, WeatherTypeOK, CardHoldsBothOrError

LEMMA WeatherStep == WeatherInv /\ [WeatherNext]_weatherVars => WeatherInv'
<1> SUFFICES ASSUME WeatherInv, [WeatherNext]_weatherVars PROVE WeatherInv'
  OBVIOUS
<1> USE DEF WeatherInv, WeatherTypeOK, CardHoldsBothOrError
\* A load that is asked for or goes on is under way.
<1>1. ASSUME NEW i \in Asks, NEW answered \in SUBSET Halves,
             asks' = [asks EXCEPT ![i] = answered],
             UNCHANGED <<weatherHeld, weatherFailed>>
      PROVE  WeatherInv'
  <2>1. asks'[i] # None
    BY <1>1, WeatherAssumption
  <2> QED BY <1>1, <2>1
<1>2. CASE WeatherTick
  BY <1>1, <1>2 DEF WeatherTick
<1>3. ASSUME NEW i \in Asks, ServeWeather(i) PROVE WeatherInv'
  <2>1. PICK half \in Halves : asks' = [asks EXCEPT ![i] = asks[i] \cup {half}]
    BY <1>3 DEF ServeWeather
  <2>2. asks[i] \cup {half} \in SUBSET Halves
    BY <1>3 DEF ServeWeather
  <2> QED BY <1>1, <1>3, <2>1, <2>2 DEF ServeWeather
<1>4. ASSUME NEW i \in Asks, WeatherArrives(i) \/ WeatherFails(i) PROVE WeatherInv'
  <2>1. asks' \in [Asks -> (SUBSET Halves) \cup {None}]
    BY <1>4 DEF WeatherArrives, WeatherFails
  <2>2. weatherHeld' \in {{}, Halves} /\ (weatherHeld' = Halves \/ weatherFailed' = TRUE)
    BY <1>4 DEF WeatherArrives, WeatherFails
  <2> QED BY <1>4, <2>1, <2>2 DEF WeatherArrives, WeatherFails
<1>5. CASE UNCHANGED weatherVars
  BY <1>5 DEF weatherVars
<1> QED BY <1>2, <1>3, <1>4, <1>5 DEF WeatherNext

\* The card holds both halves or neither, and is never silent about nothing
\* (atlas-weather.tsx:51-68, 137-175).
THEOREM WeatherCardHolds == WeatherSpec => []CardHoldsBothOrError
BY WeatherInitInv, WeatherStep, PTL DEF WeatherSpec, WeatherInv
----------------------------------------------------------------------------
(* The console. *)

\* A step of the console is a step of the part that is up, and leaves the others be.
LEMMA PartSteps ==
    ASSUME [ConsoleNext]_consoleVars
    PROVE  /\ [SessionNext]_sessionVars /\ [FeedNext]_feedVars /\ [DeskNext]_deskVars
           /\ [DisruptNext]_disruptVars /\ [PlannerNext]_plannerVars
           /\ [DashNext]_dashVars /\ [LedgerDeskNext]_ledgerDeskVars
           /\ [WeatherNext]_weatherVars /\ [MapNext]_mapVars
           /\ UNCHANGED part
<1>1. CASE ConsoleNext
  BY <1>1 DEF ConsoleNext, Rest
<1>2. CASE UNCHANGED consoleVars
  BY <1>2 DEF consoleVars
<1> QED BY <1>1, <1>2

\* The console as a whole is a behaviour of each part's own specification: what is
\* proved of a part holds in the console the runs check.
THEOREM ConsoleRunsItsParts ==
    ConsoleSpec => /\ SessionSpec /\ FeedSpec /\ DeskSpec /\ DisruptSpec /\ PlannerSpec
                   /\ DashSpec /\ LedgerDeskSpec /\ WeatherSpec /\ MapSpec
<1>1. ConsoleInit => /\ SessionInit /\ FeedInit /\ DeskInit /\ DisruptInit /\ PlannerInit
                     /\ DashInit /\ LedgerDeskInit /\ WeatherInit /\ MapInit
  BY DEF ConsoleInit
<1> QED BY <1>1, PartSteps, PTL
        DEF ConsoleSpec, SessionSpec, FeedSpec, DeskSpec, DisruptSpec, PlannerSpec,
            DashSpec, LedgerDeskSpec, WeatherSpec, MapSpec

\* The variables of every part keep their types (the useState of each page).
THEOREM ConsoleTypeCorrect == ConsoleSpec => []ConsoleTypeOK
<1>1. ConsoleInit => part \in Parts
  BY DEF ConsoleInit
<1>2. part \in Parts /\ [ConsoleNext]_consoleVars => (part \in Parts)'
  BY PartSteps
<1>3. ConsoleSpec => [](part \in Parts)
  BY <1>1, <1>2, PTL DEF ConsoleSpec
<1>4. WeatherSpec => []WeatherTypeOK
  BY WeatherInitInv, WeatherStep, PTL DEF WeatherSpec, WeatherInv
<1>5. DashSpec => []DashTypeOK
  BY DashInitInv, DashStep, PTL DEF DashSpec, DashInv
<1>6. LedgerDeskSpec => []LedgerDeskTypeOK
  BY LedgerDeskInitInv, LedgerDeskStep, PTL DEF LedgerDeskSpec, LedgerDeskInv
<1> QED
  BY <1>3, <1>4, <1>5, <1>6, ConsoleRunsItsParts, SessionTypeCorrect, FeedTypeCorrect,
     DeskTypeCorrect, DisruptTypeCorrect, PlannerTypeCorrect, MapTypeCorrect, PTL
  DEF ConsoleTypeOK
=============================================================================
