----------------------------- MODULE LedgerDesk -----------------------------
(***************************************************************************)
(* The audit ledger's page (components/dashboard/atlas-ledger.tsx): a      *)
(* verification of the chain and then the newest entries, asked for when   *)
(* the page mounts and by the button, which waits for the last one.  The   *)
(* chain itself is Ledger's.                                               *)
(***************************************************************************)
EXTENDS Absent

VARIABLES
    chainOk,       \* the chain verifies, in the backend
    verifying,     \* what the page waits for, None when the button is free
    verdict,       \* the verdict shown, None before one
    entriesShown,  \* the table of entries is shown
    skeleton,      \* the entries' skeleton is shown in its place
    verifyError,   \* the error banner
    roleGate       \* a refusal is remembered

ASSUME LedgerDeskAssumption == None \notin {"verify", "intact", "broken", "entries"}

ledgerDeskVars == <<chainOk, verifying, verdict, entriesShown, skeleton,
                    verifyError, roleGate>>

LedgerDeskTypeOK ==
    /\ chainOk \in BOOLEAN
    /\ verifying \in {None, "verify", "intact", "broken", "entries"}
    /\ verdict \in {None, "intact", "broken"}
    /\ entriesShown \in BOOLEAN /\ skeleton \in BOOLEAN
    /\ verifyError \in BOOLEAN /\ roleGate \in BOOLEAN

LedgerDeskInit ==
    /\ chainOk = TRUE /\ verifying = "verify" /\ verdict = None
    /\ entriesShown = FALSE /\ skeleton = TRUE
    /\ verifyError = FALSE /\ roleGate = FALSE

Reverify ==
    /\ verifying = None
    /\ verifying' = "verify" /\ verifyError' = FALSE
    /\ UNCHANGED <<chainOk, verdict, entriesShown, skeleton, roleGate>>

ServeVerify ==
    /\ verifying = "verify"
    /\ verifying' = IF chainOk THEN "intact" ELSE "broken"
    /\ UNCHANGED <<chainOk, verdict, entriesShown, skeleton, verifyError, roleGate>>

VerdictArrives ==
    /\ verifying \in {"intact", "broken"}
    /\ verdict' = verifying /\ verifying' = "entries"
    /\ UNCHANGED <<chainOk, entriesShown, skeleton, verifyError, roleGate>>
\* MUTANT of VerifyRefused: the entries stay under the inspector's card.
VerifyRefusedKept ==
    /\ verifying = "verify"
    /\ verdict' = None /\ skeleton' = FALSE
    /\ roleGate' = TRUE /\ verifying' = None
    /\ UNCHANGED <<chainOk, entriesShown, verifyError>>

\* Refused for the role of the token: nothing of the ledger stays on the page.
VerifyRefused ==
    /\ verifying = "verify"
    /\ verdict' = None /\ entriesShown' = FALSE /\ skeleton' = FALSE
    /\ roleGate' = TRUE /\ verifying' = None
    /\ UNCHANGED <<chainOk, verifyError>>

\* Failed otherwise: the verdict and the entries of before stay.
VerifyFails ==
    /\ verifying \in {"verify", "intact", "broken"}
    /\ verifyError' = TRUE /\ verifying' = None
    /\ UNCHANGED <<chainOk, verdict, entriesShown, skeleton, roleGate>>

EntriesArrive ==
    /\ verifying = "entries"
    /\ entriesShown' = TRUE /\ roleGate' = FALSE
    /\ skeleton' = FALSE /\ verifying' = None
    /\ UNCHANGED <<chainOk, verdict, verifyError>>

\* Any failure of the entries counts as a refusal.
EntriesFail ==
    /\ verifying = "entries"
    /\ entriesShown' = FALSE /\ roleGate' = TRUE
    /\ skeleton' = FALSE /\ verifying' = None
    /\ UNCHANGED <<chainOk, verdict, verifyError>>

\* A row is changed behind the guard triggers, or restored.
ChainTurns ==
    /\ chainOk' = ~chainOk
    /\ UNCHANGED <<verifying, verdict, entriesShown, skeleton, verifyError, roleGate>>

LedgerDeskNext ==
    \/ Reverify \/ ServeVerify \/ VerdictArrives \/ VerifyRefused \/ VerifyFails
    \/ EntriesArrive \/ EntriesFail \/ ChainTurns

LedgerDeskSpec == LedgerDeskInit /\ [][LedgerDeskNext]_ledgerDeskVars

\* Entries are shown only under a verdict of the chain they are part of and never
\* after a refusal, through any sequence of refusals, failures and new verifications
\* (atlas-ledger.tsx:40-73, 189-269).
EntriesUnderVerdict == entriesShown => verdict # None /\ ~roleGate /\ ~skeleton
============================================================================
