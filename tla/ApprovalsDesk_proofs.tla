------------------------ MODULE ApprovalsDesk_proofs ------------------------
(***************************************************************************)
(* What the approvals page does with late answers, for any number of plans,*)
(* of calls under way, of presses and of moves of other operators.         *)
(***************************************************************************)
EXTENDS ApprovalsDesk, TLAPS

\* What is true of a call at each of its legs: only a button posts, and it remembers
\* the stage it was shown for; the calls that open a plan again are of a button.
Meant(c) ==
    /\ c.leg # "list" => c.plan \in Plans
    /\ c.leg \in {"post", "rows", "rowsAgain"} => c.op \in PostOps
    /\ c.got # None => c.leg \in {"rows", "rowsAgain", "list"}
    /\ c.leg = "post" /\ c.op \in AckOps => c.seen = "DRAFT"
    /\ c.leg = "post" /\ c.op \in LifecycleOps => LifecycleButton(c.op, c.seen)

DeskInv ==
    /\ DeskTypeOK
    /\ \A i \in Slots : calls[i] # None => Meant(calls[i])
    /\ \A k \in Kinds : dialogs[k] # None => selected # None /\ KindOf(dialogs[k]) = k

\* The stages of the ladder, one by one.
LEMMA LadderStages ==
    /\ \A i \in 1..8 : Ladder[i] \in Stages
    /\ {"DRAFT", "SENTINEL_PASSED", "APPROVED_SR_DOM", "AUTHORIZED_DRM", "TRANSMITTED_COA",
        "ACTIVE_GRANTED", "COMPLETED_FITNESS", "ARCHIVED_SEALED", "CANCELLED",
        "SUPERSEDED", "SUPERSEDED_EMERGENCY"} \subseteq Stages
    /\ LateStages \cap Early = {}
<1>1. \A i \in 1..8 : Ladder[i] \in Stages
  BY DEF Stages
<1>2. /\ Ladder[1] = "DRAFT" /\ Ladder[2] = "SENTINEL_PASSED"
      /\ Ladder[3] = "APPROVED_SR_DOM" /\ Ladder[4] = "AUTHORIZED_DRM"
      /\ Ladder[5] = "TRANSMITTED_COA" /\ Ladder[6] = "ACTIVE_GRANTED"
      /\ Ladder[7] = "COMPLETED_FITNESS" /\ Ladder[8] = "ARCHIVED_SEALED"
  BY DEF Ladder
<1>3. {"CANCELLED", "SUPERSEDED", "SUPERSEDED_EMERGENCY"} \subseteq Stages
  BY DEF Stages
<1>4. \A i \in 4..8 : i = 4 \/ i = 5 \/ i = 6 \/ i = 7 \/ i = 8
  OBVIOUS
<1>5. LateStages = {"AUTHORIZED_DRM", "TRANSMITTED_COA", "ACTIVE_GRANTED",
                    "COMPLETED_FITNESS", "ARCHIVED_SEALED"}
  BY <1>2, <1>4 DEF LateStages
<1>6. LateStages \cap Early = {}
  BY <1>5 DEF Early
<1>7. /\ 1 \in 1..8 /\ 2 \in 1..8 /\ 3 \in 1..8 /\ 4 \in 1..8
      /\ 5 \in 1..8 /\ 6 \in 1..8 /\ 7 \in 1..8 /\ 8 \in 1..8
  OBVIOUS
<1> QED BY <1>1, <1>2, <1>3, <1>6, <1>7

LEMMA AskingIsMeant ==
    ASSUME NEW op \in PostOps \cup {"load", "open"}, NEW p \in Plans \cup {None},
           NEW leg \in Legs, NEW seen \in Stages \cup {None}, NEW held \in BOOLEAN
    PROVE  Asking(op, p, leg, seen, held) \in Call
BY DEF Asking, Call

\* A call set or dropped, the others as they were.
LEMMA SetKeeps ==
    ASSUME NEW cs \in [Slots -> Call \cup {None}], NEW i \in Slots,
           NEW c \in Call \cup {None}, c # None => Meant(c),
           \A j \in Slots : cs[j] # None => Meant(cs[j])
    PROVE  /\ [cs EXCEPT ![i] = c] \in [Slots -> Call \cup {None}]
           /\ \A j \in Slots : [cs EXCEPT ![i] = c][j] # None =>
                                  Meant([cs EXCEPT ![i] = c][j])
OBVIOUS

\* Letting go of a dialog changes nothing of a call but that.
LEMMA ReleasedFacts ==
    ASSUME NEW k, NEW cs \in [Slots -> Call \cup {None}]
    PROVE  /\ Released(k, cs) \in [Slots -> Call \cup {None}]
           /\ \A i \in Slots : /\ cs[i] = None => Released(k, cs)[i] = None
                               /\ cs[i] # None =>
                                     /\ Released(k, cs)[i] \in Call
                                     /\ Released(k, cs)[i].op = cs[i].op
                                     /\ Released(k, cs)[i].plan = cs[i].plan
                                     /\ Released(k, cs)[i].leg = cs[i].leg
                                     /\ Released(k, cs)[i].seen = cs[i].seen
                                     /\ Released(k, cs)[i].got = cs[i].got
<1>1. \A c \in Call : LET d == [c EXCEPT !.held = FALSE]
                      IN /\ d \in Call /\ d.op = c.op /\ d.plan = c.plan
                         /\ d.leg = c.leg /\ d.seen = c.seen /\ d.got = c.got
  BY DEF Call
<1>2. \A i \in Slots : cs[i] # None => cs[i] \in Call
  OBVIOUS
<1>3. \A i \in Slots : Released(k, cs)[i] = IF cs[i] # None /\ cs[i].held /\ KindOf(cs[i].op) = k
                                               THEN [cs[i] EXCEPT !.held = FALSE] ELSE cs[i]
  BY DEF Released
<1>4. \A i \in Slots : Released(k, cs)[i] \in Call \cup {None}
  BY <1>1, <1>2, <1>3
<1>5. Released(k, cs) \in [Slots -> Call \cup {None}]
  BY <1>4 DEF Released
<1>6. ASSUME NEW i \in Slots, cs[i] # None
      PROVE  /\ Released(k, cs)[i] \in Call
             /\ Released(k, cs)[i].op = cs[i].op
             /\ Released(k, cs)[i].plan = cs[i].plan
             /\ Released(k, cs)[i].leg = cs[i].leg
             /\ Released(k, cs)[i].seen = cs[i].seen
             /\ Released(k, cs)[i].got = cs[i].got
  BY <1>1, <1>2, <1>3, <1>6
<1> QED BY <1>3, <1>5, <1>6

\* What stays meant when a dialog lets go of its calls.
LEMMA ReleasedMeant ==
    ASSUME NEW k, NEW cs \in [Slots -> Call \cup {None}],
           \A j \in Slots : cs[j] # None => Meant(cs[j])
    PROVE  /\ Released(k, cs) \in [Slots -> Call \cup {None}]
           /\ \A j \in Slots : Released(k, cs)[j] # None => Meant(Released(k, cs)[j])
BY ReleasedFacts DEF Meant

LEMMA DismissKeeps ==
    ASSUME NEW cs \in [Slots -> Call \cup {None}], NEW c,
           \A j \in Slots : cs[j] # None => Meant(cs[j]),
           Dismiss(c, cs) \/ Close(KindOf(c.op), cs),
           dialogs \in [Kinds -> DialogOps \cup {None}], sending \subseteq Kinds
    PROVE  /\ calls' \in [Slots -> Call \cup {None}]
           /\ \A j \in Slots : calls'[j] # None => Meant(calls'[j])
           /\ dialogs' \in [Kinds -> DialogOps \cup {None}] /\ sending' \subseteq Kinds
           /\ \A k \in Kinds : dialogs'[k] \in {dialogs[k], None}
           /\ calls' = cs \/ calls' = Released(KindOf(c.op), cs)
<1>1. calls' = cs \/ calls' = Released(KindOf(c.op), cs)
  BY DEF Dismiss, Close
<1>2. /\ dialogs' \in [Kinds -> DialogOps \cup {None}] /\ sending' \subseteq Kinds
      /\ \A k \in Kinds : dialogs'[k] \in {dialogs[k], None}
  BY DEF Dismiss, Close
<1> QED BY <1>1, <1>2, ReleasedMeant

LEMMA TakeKeeps ==
    ASSUME DeskTypeOK, NEW op \in PostOps, NEW p \in Plans, Take(op, p)
    PROVE  status' \in [Plans -> Stages] /\ acks' \in [Plans -> SUBSET AckOps]
<1>1. Leaves(op, p) \in Stages
  BY LadderStages DEF Leaves, PostOps, DialogOps, AckOps, LifecycleOps, DeskTypeOK
<1>2. status' \in [Plans -> Stages]
  BY <1>1 DEF Take, DeskTypeOK
<1>3. acks' \in [Plans -> SUBSET AckOps]
  BY DEF Take, DeskTypeOK
<1> QED BY <1>2, <1>3

LEMMA DeskInitInv == DeskInit => DeskInv
<1> SUFFICES ASSUME DeskInit PROVE DeskInv
  OBVIOUS
<1>1. PICK i \in Slots :
         calls = [j \in Slots |-> IF j = i THEN Asking("load", None, "list", None, FALSE)
                                  ELSE None]
  BY DEF DeskInit
<1> DEFINE first == Asking("load", None, "list", None, FALSE)
<1>2. first \in Call
  BY AskingIsMeant DEF Legs
<1>3. Meant(first)
  BY DEF Meant, Asking, AckOps, LifecycleOps
<1> HIDE DEF first
<1>4. calls \in [Slots -> Call \cup {None}]
  BY <1>1, <1>2 DEF first
<1>5. \A j \in Slots : calls[j] # None => Meant(calls[j])
  BY <1>1, <1>3 DEF first
<1>6. DeskTypeOK
  <2>1. /\ status \in [Plans -> Stages] /\ acks \in [Plans -> SUBSET AckOps]
        /\ rows \in [Plans -> Stages \cup {None}]
    BY DeskAssumption DEF DeskInit
  <2>2. moves \in 0..MaxMoves /\ presses \in 0..MaxPresses
    BY DeskAssumption DEF DeskInit
  <2> QED BY <1>4, <2>1, <2>2 DEF DeskInit, DeskTypeOK
<1> QED BY <1>5, <1>6 DEF DeskInit, DeskInv

\* Steps that leave the calls alone but for a new one, which is meant.
LEMMA NewCallKept ==
    ASSUME DeskInv, NEW c \in Call, Meant(c), Start(c)
    PROVE  /\ calls' \in [Slots -> Call \cup {None}]
           /\ \A j \in Slots : calls'[j] # None => Meant(calls'[j])
<1>1. PICK i \in Slots : calls' = [calls EXCEPT ![i] = c]
  BY DEF Start, SetCall
<1> QED BY <1>1, SetKeeps DEF DeskInv, DeskTypeOK

\* The stage a button is shown for is one of the ladder's.
LEMMA RowStage == ASSUME DeskInv, selected # None
                  PROVE  selected.id \in Plans /\ selected.status \in Stages
BY DEF DeskInv, DeskTypeOK, Row

LEMMA PressStep ==
    ASSUME DeskInv, NEW p \in Plans, NEW op,
           \/ OpenPlan(p)
           \/ op \in AckOps /\ PressAck(op, p)
           \/ op \in LifecycleOps /\ PressLifecycle(op)
           \/ op \in DialogOps /\ OpenDialog(op)
           \/ op \in Kinds /\ SubmitDialog(op)
           \/ op \in Kinds /\ CloseDialog(op)
    PROVE  DeskInv'
<1>1. CASE OpenPlan(p)
  <2> DEFINE c == Asking("open", p, "report", None, FALSE)
  <2>1. c \in Call /\ Meant(c)
    BY AskingIsMeant DEF Legs, Meant, Asking, AckOps, LifecycleOps
  <2>2. /\ calls' \in [Slots -> Call \cup {None}]
        /\ \A j \in Slots : calls'[j] # None => Meant(calls'[j])
    BY <1>1, <2>1, NewCallKept DEF OpenPlan
  <2>3. selected' = [id |-> p, status |-> rows[p]] /\ rows[p] \in Stages
    BY <1>1, LadderStages DEF OpenPlan, Select, Early
  <2>4. selected' \in Row
    BY <2>3 DEF Row
  <2>5. presses' \in 0..MaxPresses
    BY <1>1, DeskAssumption DEF OpenPlan, Press, DeskInv, DeskTypeOK
  <2>6. selected' # None
    BY <2>4, DeskAssumption
  <2> QED BY <1>1, <2>2, <2>4, <2>5, <2>6 DEF OpenPlan, Select, DeskInv, DeskTypeOK
<1>2. CASE op \in AckOps /\ PressAck(op, p)
  <2> DEFINE c == Asking(op, p, "post", "DRAFT", FALSE)
  <2>1. c \in Call /\ Meant(c)
    <3>1. c \in Call
      BY <1>2, AskingIsMeant, LadderStages DEF Legs, PostOps
    <3>2. op \notin LifecycleOps
      BY <1>2 DEF AckOps, LifecycleOps
    <3> QED BY <1>2, <3>1, <3>2 DEF Meant, Asking, PostOps
  <2>2. /\ calls' \in [Slots -> Call \cup {None}]
        /\ \A j \in Slots : calls'[j] # None => Meant(calls'[j])
    BY <1>2, <2>1, NewCallKept DEF PressAck
  <2>3. presses' \in 0..MaxPresses
    BY <1>2, DeskAssumption DEF PressAck, Press, DeskInv, DeskTypeOK
  <2> QED BY <1>2, <2>2, <2>3 DEF PressAck, DeskInv, DeskTypeOK
<1>3. CASE op \in LifecycleOps /\ PressLifecycle(op)
  <2> DEFINE c == Asking(op, selected.id, "post", selected.status, FALSE)
  <2>1. selected.id \in Plans /\ selected.status \in Stages
    BY <1>3, RowStage DEF PressLifecycle
  <2>2. c \in Call /\ Meant(c)
    <3>1. c \in Call
      BY <1>3, <2>1, AskingIsMeant DEF Legs, PostOps
    <3>2. op \notin AckOps
      BY <1>3 DEF AckOps, LifecycleOps
    <3> QED BY <1>3, <2>1, <3>1, <3>2 DEF Meant, Asking, PostOps, PressLifecycle
  <2>3. /\ calls' \in [Slots -> Call \cup {None}]
        /\ \A j \in Slots : calls'[j] # None => Meant(calls'[j])
    BY <1>3, <2>2, NewCallKept DEF PressLifecycle
  <2>4. presses' \in 0..MaxPresses
    BY <1>3, DeskAssumption DEF PressLifecycle, Press, DeskInv, DeskTypeOK
  <2> QED BY <1>3, <2>1, <2>3, <2>4 DEF PressLifecycle, DeskInv, DeskTypeOK
<1>4. CASE op \in DialogOps /\ OpenDialog(op)
  <2>1. presses' \in 0..MaxPresses
    BY <1>4, DeskAssumption DEF OpenDialog, Press, DeskInv, DeskTypeOK
  <2>2. KindOf(op) \in Kinds
    BY DEF KindOf, Kinds
  <2>3. dialogs' \in [Kinds -> DialogOps \cup {None}]
    BY <1>4, <2>2 DEF OpenDialog, DeskInv, DeskTypeOK
  <2>4. \A k \in Kinds : dialogs'[k] # None => selected # None /\ KindOf(dialogs'[k]) = k
    BY <1>4, <2>2 DEF OpenDialog, DeskInv, DeskTypeOK
  <2> QED BY <1>4, <2>1, <2>3, <2>4 DEF OpenDialog, DeskInv, DeskTypeOK
<1>5. CASE op \in Kinds /\ SubmitDialog(op)
  <2> DEFINE c == Asking(dialogs[op], selected.id, "post", selected.status, TRUE)
  <2>1. /\ selected.id \in Plans /\ selected.status \in Stages
        /\ dialogs[op] \in DialogOps
    BY <1>5, RowStage DEF SubmitDialog, DeskInv, DeskTypeOK
  <2>2. c \in Call /\ Meant(c)
    <3>1. c \in Call
      BY <2>1, AskingIsMeant DEF Legs, PostOps
    <3>2. dialogs[op] \notin AckOps /\ dialogs[op] \notin LifecycleOps
      BY <2>1 DEF AckOps, LifecycleOps, DialogOps
    <3> QED BY <2>1, <3>1, <3>2 DEF Meant, Asking, PostOps
  <2>3. /\ calls' \in [Slots -> Call \cup {None}]
        /\ \A j \in Slots : calls'[j] # None => Meant(calls'[j])
    BY <1>5, <2>2, NewCallKept DEF SubmitDialog
  <2>4. presses' \in 0..MaxPresses
    BY <1>5, DeskAssumption DEF SubmitDialog, Press, DeskInv, DeskTypeOK
  <2> QED BY <1>5, <2>3, <2>4 DEF SubmitDialog, DeskInv, DeskTypeOK
<1>6. CASE op \in Kinds /\ CloseDialog(op)
  <2>1. /\ calls' \in [Slots -> Call \cup {None}]
        /\ \A j \in Slots : calls'[j] # None => Meant(calls'[j])
    BY <1>6, ReleasedMeant DEF CloseDialog, Close, DeskInv, DeskTypeOK
  <2>2. /\ dialogs' \in [Kinds -> DialogOps \cup {None}] /\ sending' \subseteq Kinds
        /\ \A k \in Kinds : dialogs'[k] \in {dialogs[k], None}
    BY <1>6 DEF CloseDialog, Close, DeskInv, DeskTypeOK
  <2> QED BY <1>6, <2>1, <2>2 DEF CloseDialog, DeskInv, DeskTypeOK
<1> QED BY <1>1, <1>2, <1>3, <1>4, <1>5, <1>6

\* A call under way is a call, at the leg its answer is for.
LEMMA CallIsMeant ==
    ASSUME DeskInv, NEW i \in Slots, calls[i] # None
    PROVE  calls[i] \in Call /\ Meant(calls[i])
BY DEF DeskInv, DeskTypeOK

\* A post that went through or failed goes on to another leg.
LEMMA NextLeg ==
    ASSUME NEW c \in Call, Meant(c), c.leg = "post",
           NEW leg \in {"rows", "rowsAgain", "list"}
    PROVE  [c EXCEPT !.leg = leg] \in Call /\ Meant([c EXCEPT !.leg = leg])
<1>1. [c EXCEPT !.leg = leg] \in Call
  BY DEF Call, Legs
<1>2. /\ [c EXCEPT !.leg = leg].leg = leg /\ [c EXCEPT !.leg = leg].op = c.op
      /\ [c EXCEPT !.leg = leg].plan = c.plan /\ [c EXCEPT !.leg = leg].got = c.got
  BY DEF Call
<1> QED BY <1>1, <1>2 DEF Meant

LEMMA PostStep ==
    ASSUME DeskInv, NEW i \in Slots, AnswerOk(i) \/ AnswerError(i)
    PROVE  DeskInv'
<1>1. /\ calls[i] \in Call /\ Meant(calls[i]) /\ calls[i].leg = "post"
      /\ calls[i].op \in PostOps /\ calls[i].plan \in Plans
  BY CallIsMeant DEF AnswerOk, AnswerError, Meant
<1>2. dialogs \in [Kinds -> DialogOps \cup {None}] /\ sending \subseteq Kinds
  BY DEF DeskInv, DeskTypeOK
<1>3. status' \in [Plans -> Stages] /\ acks' \in [Plans -> SUBSET AckOps]
  BY <1>1, TakeKeeps DEF AnswerOk, AnswerError, Apply, DeskInv, DeskTypeOK
<1>4. CASE AnswerOk(i)
  <2> DEFINE leg == IF calls[i].op = "modify" THEN "list" ELSE "rows"
             next == [calls[i] EXCEPT !.leg = leg]
             cs == [calls EXCEPT ![i] = next]
  <2>1. next \in Call /\ Meant(next)
    BY <1>1, NextLeg
  <2>2. /\ cs \in [Slots -> Call \cup {None}]
        /\ \A j \in Slots : cs[j] # None => Meant(cs[j])
    BY <2>1, SetKeeps DEF DeskInv, DeskTypeOK
  <2>3. cs = [calls EXCEPT ![i].leg = leg]
    OBVIOUS
  <2>4. Dismiss(calls[i], cs)
    BY <1>4, <2>3 DEF AnswerOk
  <2> HIDE DEF cs
  <2>5. /\ calls' \in [Slots -> Call \cup {None}]
        /\ \A j \in Slots : calls'[j] # None => Meant(calls'[j])
        /\ dialogs' \in [Kinds -> DialogOps \cup {None}] /\ sending' \subseteq Kinds
        /\ \A k \in Kinds : dialogs'[k] \in {dialogs[k], None}
    BY <1>2, <2>2, <2>4, DismissKeeps
  <2> QED BY <1>3, <1>4, <2>5 DEF AnswerOk, DeskInv, DeskTypeOK
<1>5. CASE AnswerError(i)
  <2>1. PICK next \in AfterError(calls[i]) :
           LetGo(calls[i], next) /\ Dismiss(calls[i], [calls EXCEPT ![i] = next])
    BY <1>5 DEF AnswerError
  <2> DEFINE cs == [calls EXCEPT ![i] = next]
  <2>2. \/ next = None
        \/ \E leg \in {"rowsAgain", "list"} : next = [calls[i] EXCEPT !.leg = leg]
    BY <1>1 DEF AfterError, PostOps, DialogOps, AckOps, LifecycleOps
  <2>3. next \in Call \cup {None} /\ (next # None => Meant(next))
    BY <1>1, <2>2, NextLeg
  <2>4. /\ cs \in [Slots -> Call \cup {None}]
        /\ \A j \in Slots : cs[j] # None => Meant(cs[j])
    BY <2>3, SetKeeps DEF DeskInv, DeskTypeOK
  <2>5. Dismiss(calls[i], cs)
    BY <2>1
  <2> HIDE DEF cs
  <2>6. /\ calls' \in [Slots -> Call \cup {None}]
        /\ \A j \in Slots : calls'[j] # None => Meant(calls'[j])
        /\ dialogs' \in [Kinds -> DialogOps \cup {None}] /\ sending' \subseteq Kinds
        /\ \A k \in Kinds : dialogs'[k] \in {dialogs[k], None}
    BY <1>2, <2>4, <2>5, DismissKeeps
  <2>7. busyId' \in Plans \cup {None}
    BY <2>1 DEF LetGo, DeskInv, DeskTypeOK
  <2> QED BY <1>3, <1>5, <2>6, <2>7 DEF AnswerError, DeskInv, DeskTypeOK
<1> QED BY <1>4, <1>5

LEMMA ReloadStep ==
    ASSUME DeskInv, NEW i \in Slots,
           ServeRows(i) \/ RowsArrive(i) \/ RowsFail(i) \/ ReportArrives(i)
    PROVE  DeskInv'
<1>1. calls[i] \in Call /\ Meant(calls[i])
  BY CallIsMeant DEF ServeRows, RowsArrive, RowsFail, ReportArrives
<1>2. CASE ServeRows(i)
  <2> DEFINE c == [calls[i] EXCEPT !.got = status]
  <2>1. c \in Call
    BY <1>1 DEF Call, DeskInv, DeskTypeOK
  <2>2. c.leg = calls[i].leg /\ c.op = calls[i].op /\ c.plan = calls[i].plan
    BY <1>1 DEF Call
  <2>3. Meant(c)
    BY <1>1, <1>2, <2>2 DEF Meant, ServeRows
  <2>4. calls' = [calls EXCEPT ![i] = c]
    BY <1>2 DEF ServeRows
  <2> HIDE DEF c
  <2>5. /\ calls' \in [Slots -> Call \cup {None}]
        /\ \A j \in Slots : calls'[j] # None => Meant(calls'[j])
    BY <2>1, <2>3, <2>4, SetKeeps DEF DeskInv, DeskTypeOK
  <2> QED BY <1>2, <2>5 DEF ServeRows, DeskInv, DeskTypeOK
<1>3. CASE RowsArrive(i)
  <2>1. calls[i].got \in [Plans -> Stages] /\ calls[i].leg \in {"rows", "rowsAgain", "list"}
    BY <1>1, <1>3 DEF RowsArrive, Call, Meant
  <2>2. rows' \in [Plans -> Stages \cup {None}]
    BY <1>3, <2>1 DEF RowsArrive
  <2>3. CASE calls[i].leg = "list"
    <3>1. /\ calls' \in [Slots -> Call \cup {None}]
          /\ \A j \in Slots : calls'[j] # None => Meant(calls'[j])
      BY <1>3, <2>3, SetKeeps DEF RowsArrive, SetCall, DeskInv, DeskTypeOK
    <3> QED BY <1>3, <2>2, <2>3, <3>1 DEF RowsArrive, DeskInv, DeskTypeOK
  <2>4. CASE calls[i].leg # "list"
    <3> DEFINE c == [calls[i] EXCEPT !.leg = "report", !.got = None]
    <3>1. c \in Call /\ c.leg = "report" /\ c.plan = calls[i].plan /\ c.got = None
      BY <1>1 DEF Call, Legs
    <3>2. Meant(c)
      BY <1>1, <2>4, <3>1 DEF Meant
    <3>3. calls' = [calls EXCEPT ![i] = c]
      BY <1>3, <2>4 DEF RowsArrive, SetCall
    <3> HIDE DEF c
    <3>4. /\ calls' \in [Slots -> Call \cup {None}]
          /\ \A j \in Slots : calls'[j] # None => Meant(calls'[j])
      BY <3>1, <3>2, <3>3, SetKeeps DEF DeskInv, DeskTypeOK
    <3>5. selected' \in Row /\ report' = None
      BY <1>1, <1>3, <2>1, <2>4 DEF RowsArrive, Select, Row, Meant
    <3>6. selected' # None
      BY <3>5, DeskAssumption
    <3> QED BY <1>3, <2>2, <3>4, <3>5, <3>6 DEF RowsArrive, DeskInv, DeskTypeOK
  <2> QED BY <2>3, <2>4
<1>4. CASE RowsFail(i)
  <2> DEFINE c == [calls[i] EXCEPT !.leg = "rowsAgain", !.got = None]
             next == IF calls[i].leg = "rows" /\ calls[i].op \in LifecycleOps
                     THEN c ELSE None
  <2>1. /\ c \in Call /\ c.leg = "rowsAgain" /\ c.plan = calls[i].plan
        /\ c.op = calls[i].op /\ c.got = None
    BY <1>1 DEF Call, Legs
  <2>2. calls[i].leg = "rows" => Meant(c)
    BY <1>1, <2>1 DEF Meant
  <2>3. next \in Call \cup {None} /\ (next # None => Meant(next))
    BY <2>1, <2>2
  <2>4. LetGo(calls[i], next) /\ calls' = [calls EXCEPT ![i] = next]
    BY <1>4 DEF RowsFail, SetCall
  <2> HIDE DEF next
  <2>5. /\ calls' \in [Slots -> Call \cup {None}]
        /\ \A j \in Slots : calls'[j] # None => Meant(calls'[j])
    BY <2>3, <2>4, SetKeeps DEF DeskInv, DeskTypeOK
  <2>6. busyId' \in Plans \cup {None}
    BY <2>4 DEF LetGo, DeskInv, DeskTypeOK
  <2> QED BY <1>4, <2>5, <2>6 DEF RowsFail, DeskInv, DeskTypeOK
<1>5. CASE ReportArrives(i)
  <2>1. calls[i].plan \in Plans
    BY <1>1, <1>5 DEF ReportArrives, Meant
  <2>2. /\ calls' \in [Slots -> Call \cup {None}]
        /\ \A j \in Slots : calls'[j] # None => Meant(calls'[j])
    BY <1>5, SetKeeps DEF ReportArrives, SetCall, DeskInv, DeskTypeOK
  <2>3. busyId' \in Plans \cup {None}
    BY <1>5 DEF ReportArrives, LetGo, DeskInv, DeskTypeOK
  <2> QED BY <1>5, <2>1, <2>2, <2>3 DEF ReportArrives, DeskInv, DeskTypeOK
<1> QED BY <1>2, <1>3, <1>4, <1>5

LEMMA DeskStep == DeskInv /\ [DeskNext]_deskVars => DeskInv'
<1> SUFFICES ASSUME DeskInv, [DeskNext]_deskVars PROVE DeskInv'
  OBVIOUS
<1>1. ASSUME NEW p \in Plans, OpenPlan(p) PROVE DeskInv'
  BY <1>1, PressStep
<1>2. ASSUME NEW p \in Plans, OthersMove(p) PROVE DeskInv'
  <2>1. moves' \in 0..MaxMoves
    BY <1>2, DeskAssumption DEF OthersMove, DeskInv, DeskTypeOK
  <2>2. status' \in [Plans -> Stages] /\ acks' \in [Plans -> SUBSET AckOps]
    <3>1. CASE \E op \in PostOps : Take(op, p)
      BY <3>1, TakeKeeps DEF DeskInv
    <3>2. CASE Transmitted(p) \/ Revoked(p)
      BY <3>2, LadderStages DEF Transmitted, Revoked, DeskInv, DeskTypeOK
    <3> QED BY <1>2, <3>1, <3>2 DEF OthersMove
  <2> QED BY <1>2, <2>1, <2>2 DEF OthersMove, DeskInv, DeskTypeOK
<1>3. ASSUME NEW p \in Plans, NEW op \in AckOps, PressAck(op, p) PROVE DeskInv'
  BY <1>3, PressStep
<1>4. ASSUME NEW op \in LifecycleOps, PressLifecycle(op) PROVE DeskInv'
  <2>1. selected.id \in Plans
    BY <1>4, RowStage DEF PressLifecycle
  <2> QED BY <1>4, <2>1, PressStep
<1>5. ASSUME NEW op \in DialogOps, OpenDialog(op) PROVE DeskInv'
  <2>1. selected.id \in Plans
    BY <1>5, RowStage DEF OpenDialog
  <2> QED BY <1>5, <2>1, PressStep
<1>6. ASSUME NEW k \in Kinds, SubmitDialog(k) \/ CloseDialog(k) PROVE DeskInv'
  <2>1. selected.id \in Plans
    BY <1>6, RowStage DEF SubmitDialog, CloseDialog, DeskInv
  <2> QED BY <1>6, <2>1, PressStep
<1>7. ASSUME NEW i \in Slots, Answer(i) PROVE DeskInv'
  BY <1>7, PostStep, ReloadStep DEF Answer
<1>8. CASE UNCHANGED deskVars
  BY <1>8 DEF deskVars, DeskInv, DeskTypeOK, Meant
<1> QED BY <1>1, <1>2, <1>3, <1>4, <1>5, <1>6, <1>7, <1>8 DEF DeskNext

LEMMA DeskAlways == DeskSpec => []DeskInv
BY DeskInitInv, DeskStep, PTL DEF DeskSpec

\* The desk's state keeps its type (atlas-approvals.tsx:287-330).
THEOREM DeskTypeCorrect == DeskSpec => []DeskTypeOK
BY DeskAlways, PTL DEF DeskInv

----------------------------------------------------------------------------
(* Who holds the submit buttons. *)

\* The calls of `cs` that a dialog of this kind waits for: Awaited, of any calls.
HeldIn(cs, k) == {i \in Slots : cs[i] # None /\ cs[i].held /\ KindOf(cs[i].op) = k}

\* Only a post of a dialog is held, and an open dialog that waits has one such call.
HeldInv ==
    /\ \A i \in Slots : calls[i] # None /\ calls[i].held
                          => calls[i].leg = "post" /\ calls[i].op \in DialogOps
    /\ \A k \in Kinds :
          IF k \in sending
          THEN dialogs[k] # None /\ \E i \in Slots : HeldIn(calls, k) = {i}
          ELSE HeldIn(calls, k) = {}

\* A step that holds no call and lets none go, and closes no dialog.
LEMMA HeldUndisturbed ==
    ASSUME HeldInv, sending' = sending,
           \A k \in Kinds : dialogs[k] # None => dialogs'[k] # None,
           \A i \in Slots :
              /\ (calls'[i] # None /\ calls'[i].held) <=> (calls[i] # None /\ calls[i].held)
              /\ calls[i] # None /\ calls[i].held =>
                    calls'[i].leg = calls[i].leg /\ calls'[i].op = calls[i].op
    PROVE  HeldInv'
<1>1. \A k : HeldIn(calls', k) = HeldIn(calls, k)
  BY DEF HeldIn
<1> QED BY <1>1 DEF HeldInv

\* One call set to one that is not held, where none was held before.
LEMMA UnheldSet ==
    ASSUME DeskInv, HeldInv, NEW i \in Slots, NEW c, c # None => ~c.held,
           calls[i] # None => ~calls[i].held, calls' = [calls EXCEPT ![i] = c],
           sending' = sending, \A k \in Kinds : dialogs[k] # None => dialogs'[k] # None
    PROVE  HeldInv'
<1>1. \A j \in Slots : calls'[j] = IF j = i THEN c ELSE calls[j]
  BY DEF DeskInv, DeskTypeOK
<1> QED BY <1>1, HeldUndisturbed

\* A dialog that closes lets its own calls go and no others.
LEMMA ReleasedHeld ==
    ASSUME NEW k, NEW cs \in [Slots -> Call \cup {None}]
    PROVE  /\ HeldIn(Released(k, cs), k) = {}
           /\ \A j : j # k => HeldIn(Released(k, cs), j) = HeldIn(cs, j)
           /\ \A i \in Slots : Released(k, cs)[i] # None /\ Released(k, cs)[i].held =>
                 /\ cs[i] # None /\ cs[i].held /\ KindOf(cs[i].op) # k
                 /\ Released(k, cs)[i] = cs[i]
<1>1. \A c \in Call : LET d == [c EXCEPT !.held = FALSE]
                      IN d \in Call /\ d.op = c.op /\ ~d.held /\ d # None
  BY DeskAssumption DEF Call
<1>2. \A i \in Slots : cs[i] # None => cs[i] \in Call
  OBVIOUS
<1>3. ASSUME NEW i \in Slots
      PROVE  IF cs[i] # None /\ cs[i].held /\ KindOf(cs[i].op) = k
             THEN Released(k, cs)[i] # None /\ ~Released(k, cs)[i].held
             ELSE Released(k, cs)[i] = cs[i]
  <2>1. CASE cs[i] # None /\ cs[i].held /\ KindOf(cs[i].op) = k
    <3>1. Released(k, cs)[i] = [cs[i] EXCEPT !.held = FALSE]
      BY <2>1 DEF Released
    <3> QED BY <1>1, <1>2, <2>1, <3>1
  <2>2. CASE ~(cs[i] # None /\ cs[i].held /\ KindOf(cs[i].op) = k)
    BY <2>2 DEF Released
  <2> QED BY <2>1, <2>2
<1> QED BY <1>3 DEF HeldIn

\* A dialog that closes over calls that differ from those under way, if at all, in a
\* call of its own kind.
LEMMA ClosedHeld ==
    ASSUME DeskInv, HeldInv, NEW k \in Kinds, NEW cs \in [Slots -> Call \cup {None}],
           \A i \in Slots : \/ cs[i] = calls[i]
                            \/ /\ calls[i] # None /\ KindOf(calls[i].op) = k
                               /\ cs[i] # None => cs[i].op = calls[i].op,
           Close(k, cs)
    PROVE  HeldInv'
<1>1. calls' = Released(k, cs) /\ sending' = sending \ {k}
  BY DEF Close
<1>2. \A j \in Kinds : j # k => dialogs'[j] = dialogs[j]
  BY DEF Close, DeskInv, DeskTypeOK
<1>3. /\ HeldIn(calls', k) = {}
      /\ \A j : j # k => HeldIn(calls', j) = HeldIn(cs, j)
      /\ \A j \in Slots : calls'[j] # None /\ calls'[j].held =>
            /\ cs[j] # None /\ cs[j].held /\ KindOf(cs[j].op) # k
            /\ calls'[j] = cs[j]
  BY <1>1, ReleasedHeld
<1>4. \A j : j # k => HeldIn(cs, j) = HeldIn(calls, j)
  BY DEF HeldIn
<1>5. \A j \in Slots : calls'[j] # None /\ calls'[j].held =>
                          calls'[j].leg = "post" /\ calls'[j].op \in DialogOps
  BY <1>3 DEF HeldInv
<1>6. ASSUME NEW j \in Kinds
      PROVE  IF j \in sending'
             THEN dialogs'[j] # None /\ \E l \in Slots : HeldIn(calls', j) = {l}
             ELSE HeldIn(calls', j) = {}
  <2>1. CASE j = k
    BY <1>1, <1>3, <2>1
  <2>2. CASE j # k
    BY <1>1, <1>2, <1>3, <1>4, <2>2 DEF HeldInv
  <2> QED BY <2>1, <2>2
<1> QED BY <1>5, <1>6 DEF HeldInv

\* A button that asks without holding.
LEMMA UnheldStart ==
    ASSUME DeskInv, HeldInv, NEW op, NEW p, NEW leg, NEW seen,
           Start(Asking(op, p, leg, seen, FALSE)),
           sending' = sending, dialogs' = dialogs
    PROVE  HeldInv'
<1>1. PICK i \in Slots : calls[i] = None /\ SetCall(i, Asking(op, p, leg, seen, FALSE))
  BY DEF Start
<1>2. ~Asking(op, p, leg, seen, FALSE).held
  BY DEF Asking
<1> QED BY <1>1, <1>2, UnheldSet DEF SetCall

LEMMA HeldBySubmit ==
    ASSUME DeskInv, HeldInv, NEW k \in Kinds, SubmitDialog(k)
    PROVE  HeldInv'
<1> DEFINE c == Asking(dialogs[k], selected.id, "post", selected.status, TRUE)
<1>1. dialogs[k] \in DialogOps /\ dialogs[k] # None /\ KindOf(dialogs[k]) = k
  BY DEF SubmitDialog, DeskInv, DeskTypeOK
<1>2. PICK i \in Slots : calls[i] = None /\ calls' = [calls EXCEPT ![i] = c]
  BY DEF SubmitDialog, Start, SetCall
<1>3. c.held /\ c.op = dialogs[k] /\ c.leg = "post"
  BY DEF Asking
<1>4. c # None
  <2>1. c \in Call
    BY <1>1, RowStage, AskingIsMeant DEF SubmitDialog, DeskInv, Legs, PostOps
  <2> QED BY <2>1, DeskAssumption
<1> HIDE DEF c
<1>5. \A j \in Slots : calls'[j] = IF j = i THEN c ELSE calls[j]
  BY <1>2 DEF DeskInv, DeskTypeOK
<1>6. HeldIn(calls, k) = {} /\ sending' = sending \cup {k} /\ dialogs' = dialogs
  BY DEF SubmitDialog, HeldInv
<1>7. HeldIn(calls', k) = {i}
  BY <1>1, <1>3, <1>4, <1>5, <1>6 DEF HeldIn
<1>8. \A j : j # k => HeldIn(calls', j) = HeldIn(calls, j)
  BY <1>1, <1>2, <1>3, <1>5 DEF HeldIn
<1>9. \A j \in Slots : calls'[j] # None /\ calls'[j].held
                        => calls'[j].leg = "post" /\ calls'[j].op \in DialogOps
  BY <1>1, <1>3, <1>5 DEF HeldInv
<1> QED BY <1>1, <1>6, <1>7, <1>8, <1>9 DEF HeldInv

LEMMA HeldByAnswer ==
    ASSUME DeskInv, HeldInv, NEW i \in Slots, NEW c \in Call \cup {None},
           calls[i] # None, c # None => c.op = calls[i].op /\ c.held = calls[i].held,
           Dismiss(calls[i], [calls EXCEPT ![i] = c])
    PROVE  HeldInv'
<1>1. CASE calls[i].op \in DialogOps
  <2> DEFINE cs == [calls EXCEPT ![i] = c]
  <2>1. cs \in [Slots -> Call \cup {None}]
    BY DEF DeskInv, DeskTypeOK
  <2>2. \A j \in Slots : cs[j] = IF j = i THEN c ELSE calls[j]
    BY DEF DeskInv, DeskTypeOK
  <2>3. KindOf(calls[i].op) \in Kinds /\ Close(KindOf(calls[i].op), cs)
    BY <1>1 DEF Dismiss, KindOf, Kinds
  <2> HIDE DEF cs
  <2> QED BY <2>1, <2>2, <2>3, ClosedHeld
<1>2. CASE calls[i].op \notin DialogOps
  <2>1. ~calls[i].held
    BY <1>2 DEF HeldInv
  <2> QED BY <1>2, <2>1, UnheldSet DEF Dismiss
<1> QED BY <1>1, <1>2

LEMMA HeldByReload ==
    ASSUME DeskInv, HeldInv, NEW i \in Slots,
           ServeRows(i) \/ RowsArrive(i) \/ RowsFail(i) \/ ReportArrives(i)
    PROVE  HeldInv'
<1>1. calls[i] \in Call /\ ~calls[i].held
  <2>1. calls[i] # None /\ (calls[i].leg # "post" \/ calls[i].got # None)
    BY DEF ServeRows, RowsArrive, RowsFail, ReportArrives
  <2>2. calls[i] \in Call /\ calls[i].leg # "post"
    BY <2>1, CallIsMeant DEF Meant
  <2>3. calls[i].held => FALSE
    BY <2>1, <2>2 DEF HeldInv
  <2> QED BY <2>2, <2>3
<1>2. PICK c : calls' = [calls EXCEPT ![i] = c] /\ (c # None => ~c.held)
  <2>1. CASE ServeRows(i)
    <3>1. ~[calls[i] EXCEPT !.got = status].held
      BY <1>1 DEF Call
    <3>2. calls' = [calls EXCEPT ![i] = [calls[i] EXCEPT !.got = status]]
      BY <2>1 DEF ServeRows
    <3> QED BY <3>1, <3>2
  <2>2. CASE RowsArrive(i)
    <3>1. ~[calls[i] EXCEPT !.leg = "report", !.got = None].held
      BY <1>1 DEF Call
    <3> QED BY <2>2, <3>1 DEF RowsArrive, SetCall
  <2>3. CASE RowsFail(i)
    <3>1. ~[calls[i] EXCEPT !.leg = "rowsAgain", !.got = None].held
      BY <1>1 DEF Call
    <3> QED BY <2>3, <3>1 DEF RowsFail, SetCall
  <2>4. CASE ReportArrives(i)
    BY <2>4 DEF ReportArrives, SetCall
  <2> QED BY <2>1, <2>2, <2>3, <2>4
<1>3. sending' = sending /\ dialogs' = dialogs
  BY DEF ServeRows, RowsArrive, RowsFail, ReportArrives
<1> QED BY <1>1, <1>2, <1>3, UnheldSet

LEMMA HeldStep == DeskInv /\ HeldInv /\ [DeskNext]_deskVars => HeldInv'
<1> SUFFICES ASSUME DeskInv, HeldInv, [DeskNext]_deskVars PROVE HeldInv'
  OBVIOUS
<1>1. ASSUME NEW p \in Plans, OpenPlan(p) PROVE HeldInv'
  BY <1>1, UnheldStart DEF OpenPlan
<1>2. ASSUME NEW p \in Plans, OthersMove(p) PROVE HeldInv'
  BY <1>2, HeldUndisturbed DEF OthersMove
<1>3. ASSUME NEW p \in Plans, NEW op \in AckOps, PressAck(op, p) PROVE HeldInv'
  BY <1>3, UnheldStart DEF PressAck
<1>4. ASSUME NEW op \in LifecycleOps, PressLifecycle(op) PROVE HeldInv'
  BY <1>4, UnheldStart DEF PressLifecycle
<1>5. ASSUME NEW op \in DialogOps, OpenDialog(op) PROVE HeldInv'
  <2>1. op # None
    BY DeskAssumption DEF PostOps
  <2>2. \A k \in Kinds : dialogs[k] # None => dialogs'[k] # None
    BY <1>5, <2>1 DEF OpenDialog, DeskInv, DeskTypeOK
  <2> QED BY <1>5, <2>2, HeldUndisturbed DEF OpenDialog
<1>6. ASSUME NEW k \in Kinds, SubmitDialog(k) PROVE HeldInv'
  BY <1>6, HeldBySubmit
<1>7. ASSUME NEW k \in Kinds, CloseDialog(k) PROVE HeldInv'
  <2>1. calls \in [Slots -> Call \cup {None}]
    BY DEF DeskInv, DeskTypeOK
  <2> QED BY <1>7, <2>1, ClosedHeld DEF CloseDialog
<1>8. ASSUME NEW i \in Slots, AnswerOk(i) PROVE HeldInv'
  <2> DEFINE leg == IF calls[i].op = "modify" THEN "list" ELSE "rows"
             c == [calls[i] EXCEPT !.leg = leg]
  <2>1. calls[i] \in Call /\ Meant(calls[i]) /\ calls[i] # None /\ calls[i].leg = "post"
    BY <1>8, CallIsMeant DEF AnswerOk
  <2>2. leg \in {"list", "rows"}
    OBVIOUS
  <2>3. [calls EXCEPT ![i].leg = leg] = [calls EXCEPT ![i] = c]
    OBVIOUS
  <2>4. Dismiss(calls[i], [calls EXCEPT ![i] = c])
    BY <1>8, <2>3 DEF AnswerOk
  <2> HIDE DEF leg
  <2>5. c \in Call /\ c.op = calls[i].op /\ c.held = calls[i].held
    BY <2>1, <2>2 DEF Call, Legs
  <2> HIDE DEF c
  <2> QED BY <2>1, <2>4, <2>5, HeldByAnswer
<1>9. ASSUME NEW i \in Slots, AnswerError(i) PROVE HeldInv'
  <2>1. /\ calls[i] \in Call /\ Meant(calls[i]) /\ calls[i] # None
        /\ calls[i].leg = "post" /\ calls[i].op \in PostOps
    BY <1>9, CallIsMeant DEF AnswerError, Meant
  <2>2. PICK c \in AfterError(calls[i]) : Dismiss(calls[i], [calls EXCEPT ![i] = c])
    BY <1>9 DEF AnswerError
  <2>3. \/ c = None
        \/ \E leg \in {"rowsAgain", "list"} : c = [calls[i] EXCEPT !.leg = leg]
    BY <2>1 DEF AfterError, PostOps, DialogOps, AckOps, LifecycleOps
  <2>4. c \in Call \cup {None} /\ (c # None => c.op = calls[i].op /\ c.held = calls[i].held)
    BY <2>1, <2>3 DEF Call, Legs
  <2> QED BY <2>1, <2>2, <2>4, HeldByAnswer
<1>10. ASSUME NEW i \in Slots,
              ServeRows(i) \/ RowsArrive(i) \/ RowsFail(i) \/ ReportArrives(i)
       PROVE  HeldInv'
  BY <1>10, HeldByReload
<1>11. CASE UNCHANGED deskVars
  BY <1>11, HeldUndisturbed DEF deskVars
<1> QED
  BY <1>1, <1>2, <1>3, <1>4, <1>5, <1>6, <1>7, <1>8, <1>9, <1>10, <1>11 DEF DeskNext, Answer

LEMMA HeldInit == DeskInit => HeldInv
<1> SUFFICES ASSUME DeskInit PROVE HeldInv
  OBVIOUS
<1>1. \A j \in Slots : calls[j] = None \/ ~calls[j].held
  BY DEF DeskInit, Asking
<1> QED BY <1>1 DEF DeskInit, HeldInv, HeldIn

\* A submit button is held exactly while one request of its own dialog is under way
\* (atlas-approvals.tsx:191-212, 465-475, 1013-1041, 1055-1074).
THEOREM DeskSubmitHeld == DeskSpec => []SubmitHeldByOwnCall
<1>1. HeldInv => SubmitHeldByOwnCall
  <2> SUFFICES ASSUME HeldInv, NEW k \in Kinds
               PROVE  IF k \in sending
                      THEN /\ dialogs[k] # None
                           /\ \E i \in Slots : Awaited(k) = {i} /\ calls[i].leg = "post"
                      ELSE Awaited(k) = {}
    BY DEF SubmitHeldByOwnCall
  <2>1. Awaited(k) = HeldIn(calls, k)
    BY DEF Awaited, HeldIn
  <2>2. CASE k \in sending
    <3>1. PICK i \in Slots : HeldIn(calls, k) = {i}
      BY <2>2 DEF HeldInv
    <3>2. calls[i] # None /\ calls[i].held
      BY <3>1 DEF HeldIn
    <3> QED BY <2>1, <2>2, <3>1, <3>2 DEF HeldInv
  <2>3. CASE k \notin sending
    BY <2>1, <2>3 DEF HeldInv
  <2> QED BY <2>2, <2>3
<1> QED BY <1>1, HeldInit, HeldStep, DeskAlways, PTL DEF DeskSpec
----------------------------------------------------------------------------
(* What late answers select and move. *)

\* A list that opens a plan again is the answer of a call of a button, for its plan.
LEMMA ReopenedByAnswer ==
    ASSUME DeskInv, NEW i \in Slots, RowsArrive(i), selected' # selected
    PROVE  /\ calls[i] # None /\ calls[i].got # None
           /\ calls[i].op \in PostOps /\ calls[i].plan = selected'.id
<1>1. calls[i] # None /\ calls[i].got # None /\ Meant(calls[i])
  BY CallIsMeant DEF RowsArrive
<1>2. /\ calls[i].leg # "list"
      /\ selected' = [id |-> calls[i].plan, status |-> calls[i].got[calls[i].plan]]
  BY DEF RowsArrive, Select
<1>3. calls[i].op \in PostOps
  BY <1>1, <1>2 DEF Meant
<1> QED BY <1>1, <1>2, <1>3

\* Only a click and a list change the row in the detail panel.
LEMMA WhatSelects ==
    ASSUME [DeskNext]_deskVars, selected' # selected
    PROVE  \/ \E p \in Plans : OpenPlan(p)
           \/ \E i \in Slots : RowsArrive(i)
BY DEF DeskNext, Answer, OpenPlan, OthersMove, PressAck, PressLifecycle, OpenDialog,
   SubmitDialog, CloseDialog, AnswerOk, AnswerError, ServeRows, RowsFail, ReportArrives,
   deskVars

\* No list brings a plan past the signatures into the detail panel
\* (atlas-approvals.tsx:366-390, 465-475).
THEOREM DeskLateStages == DeskSpec => LateStagesByOwnAnswer
<1>1. DeskInv /\ [DeskNext]_deskVars =>
        [ selected' # selected /\ selected' # None /\ selected'.status \in LateStages
          => \E i \in Slots : /\ calls[i] # None /\ calls[i].got # None
                              /\ calls[i].op \in PostOps
                              /\ calls[i].plan = selected'.id ]_deskVars
  <2> SUFFICES ASSUME DeskInv, [DeskNext]_deskVars, selected' # selected,
                      selected'.status \in LateStages
               PROVE  \E i \in Slots : /\ calls[i] # None /\ calls[i].got # None
                                       /\ calls[i].op \in PostOps
                                       /\ calls[i].plan = selected'.id
    OBVIOUS
  <2>1. ASSUME NEW p \in Plans, OpenPlan(p) PROVE FALSE
    <3>1. selected'.status \in Early
      BY <2>1 DEF OpenPlan, Select
    <3> QED BY <3>1, LadderStages
  <2> QED BY <2>1, WhatSelects, ReopenedByAnswer
<1> QED BY <1>1, DeskAlways, PTL DEF DeskSpec, LateStagesByOwnAnswer

\* The stage an endpoint moves a plan from is the one its button is shown for.
LEMMA TakesWhatIsShown ==
    ASSUME NEW c \in Call, Meant(c), c.leg = "post", Takes(c.op, c.plan),
           Leaves(c.op, c.plan) # status[c.plan]
    PROVE  \/ status[c.plan] = c.seen
           \/ c.op \in {"cancel", "modify"}
           \/ c.op \in DialogOps /\ ~DialogButton(c.op, c.seen)
<1>1. c.op \in PostOps
  BY DEF Meant
<1>2. CASE c.op \in AckOps
  BY <1>2 DEF Meant, Leaves, AckOps, LifecycleOps
<1>3. CASE c.op \in LifecycleOps \ {"cancel"}
  <2>1. LifecycleButton(c.op, c.seen)
    BY <1>3 DEF Meant
  <2>2. LifecycleButton(c.op, status[c.plan])
    BY <1>3 DEF Takes, AckOps, LifecycleOps
  <2> QED BY <1>3, <2>1, <2>2 DEF LifecycleButton, LifecycleOps
<1>4. CASE c.op \in DialogOps
  BY <1>4 DEF Takes, DialogButton, AckOps, DialogOps, LifecycleOps
<1> QED BY <1>1, <1>2, <1>3, <1>4 DEF PostOps

\* Whose leg a post's answer changes: only its own.
LEMMA OtherCallsPost ==
    ASSUME DeskInv, NEW i \in Slots, NEW j \in Slots, i # j, calls[i] # None,
           calls[i].leg = "post", AnswerOk(j) \/ AnswerError(j)
    PROVE  calls'[i] # None /\ calls'[i].leg = "post"
<1>1. \E next : Dismiss(calls[j], [calls EXCEPT ![j] = next]) /\ next \in Call \cup {None}
  <2>1. /\ calls[j] \in Call /\ Meant(calls[j]) /\ calls[j].leg = "post"
        /\ calls[j].op \in PostOps
    BY CallIsMeant DEF AnswerOk, AnswerError, Meant
  <2>2. CASE AnswerOk(j)
    <3> DEFINE leg == IF calls[j].op = "modify" THEN "list" ELSE "rows"
               next == [calls[j] EXCEPT !.leg = leg]
    <3>1. [calls EXCEPT ![j].leg = leg] = [calls EXCEPT ![j] = next]
      OBVIOUS
    <3>2. next \in Call
      BY <2>1, NextLeg
    <3> QED BY <2>2, <3>1, <3>2 DEF AnswerOk
  <2>3. CASE AnswerError(j)
    <3>1. PICK next \in AfterError(calls[j]) :
             Dismiss(calls[j], [calls EXCEPT ![j] = next])
      BY <2>3 DEF AnswerError
    <3>2. \/ next = None
          \/ \E leg \in {"rowsAgain", "list"} : next = [calls[j] EXCEPT !.leg = leg]
      BY <2>1 DEF AfterError, PostOps, DialogOps, AckOps, LifecycleOps
    <3>3. next \in Call \cup {None}
      BY <2>1, <3>2, NextLeg
    <3> QED BY <3>1, <3>3
  <2> QED BY <2>2, <2>3
<1>2. PICK next \in Call \cup {None} : Dismiss(calls[j], [calls EXCEPT ![j] = next])
  BY <1>1
<1> DEFINE cs == [calls EXCEPT ![j] = next]
<1>3. cs \in [Slots -> Call \cup {None}] /\ cs[i] = calls[i]
  BY DEF DeskInv, DeskTypeOK
<1>4. calls' = cs \/ calls' = Released(KindOf(calls[j].op), cs)
  BY <1>2 DEF Dismiss, Close
<1> HIDE DEF cs
<1>5. CASE calls' = cs
  BY <1>3, <1>5
<1>6. CASE calls' = Released(KindOf(calls[j].op), cs)
  <2>1. calls'[i] \in Call /\ calls'[i].leg = calls[i].leg
    BY <1>3, <1>6, ReleasedFacts
  <2> QED BY <2>1, DeskAssumption
<1> QED BY <1>4, <1>5, <1>6

\* The backend applies for the operator what the operator saw
\* (atlas-approvals.tsx:392-436, 756-981; plans.py:337-459).
THEOREM DeskAppliedAsSeen == DeskSpec => AppliedAsSeen
<1>1. ASSUME DeskInv, [DeskNext]_deskVars, NEW i \in Slots,
             calls[i] # None, calls[i].leg = "post",
             calls'[i] = None \/ calls'[i].leg # "post",
             status' # status
      PROVE  \/ status[calls[i].plan] = calls[i].seen
             \/ calls[i].op \in {"cancel", "modify"}
             \/ calls[i].op \in DialogOps /\ ~DialogButton(calls[i].op, calls[i].seen)
  <2>1. \E j \in Slots : /\ AnswerOk(j) \/ AnswerError(j)
                         /\ Apply(calls[j])
    BY <1>1
    DEF DeskNext, Answer, OpenPlan, OthersMove, PressAck, PressLifecycle, OpenDialog,
        SubmitDialog, CloseDialog, AnswerOk, AnswerError, ServeRows, RowsArrive, RowsFail,
        ReportArrives, deskVars
  <2>2. PICK j \in Slots : (AnswerOk(j) \/ AnswerError(j)) /\ Apply(calls[j])
    BY <2>1
  <2>3. i = j
    BY <1>1, <2>2, OtherCallsPost
  <2>4. /\ Takes(calls[i].op, calls[i].plan)
        /\ status' = [status EXCEPT ![calls[i].plan] = Leaves(calls[i].op, calls[i].plan)]
    BY <2>2, <2>3 DEF Apply, Take
  <2>5. Leaves(calls[i].op, calls[i].plan) # status[calls[i].plan]
    BY <1>1, <2>4 DEF DeskInv, DeskTypeOK
  <2> QED BY <1>1, <2>4, <2>5, CallIsMeant, TakesWhatIsShown
<1>2. DeskInv /\ [DeskNext]_deskVars =>
        [ \A i \in Slots :
            LET c == calls[i] IN
            /\ c # None /\ c.leg = "post"
            /\ calls'[i] = None \/ calls'[i].leg # "post"
            /\ status' # status
            => \/ status[c.plan] = c.seen
               \/ c.op \in {"cancel", "modify"}
               \/ c.op \in DialogOps /\ ~DialogButton(c.op, c.seen) ]_deskVars
  BY <1>1
<1> QED BY <1>2, DeskAlways, PTL DEF DeskSpec, AppliedAsSeen
=============================================================================
