------------------------------ MODULE LiveFeed ------------------------------
(***************************************************************************)
(* The live event stream of a tab (lib/live.ts), mounted with the console's *)
(* shell and mounted anew with every other operator.  A mount runs a chain  *)
(* of attempts: ask for a one-time ticket, open an event source with it,    *)
(* and after a failure try again.  Unmounting closes the source the mount   *)
(* holds; the answers and timers under way run on.                          *)
(***************************************************************************)
EXTENDS Naturals, FiniteSets

CONSTANTS MaxHooks,       \* bound: mounts of the hook
          MaxAttempts,    \* bound: connection attempts, over all mounts
          MaxEvents       \* the events kept (50 in the code)

ASSUME FeedAssumption ==
    MaxHooks \in Nat /\ MaxAttempts \in Nat /\ MaxEvents \in Nat

Hooks    == 1..MaxHooks
Attempts == 1..MaxAttempts

VARIABLES
    signedIn,   \* the tab holds a token
    hook,       \* the mount last made, by number
    mounted,    \* it is still mounted
    streamState,     \* what the mount shows: connecting, live or stale
    events,     \* how many events it lists
    used,       \* attempts made so far
    owner,      \* attempt -> the mount that made it
    phase,      \* attempt -> where it stands
    timer,      \* attempts whose opening timeout is pending
    esRef,      \* mount -> the attempt whose event source it holds, or 0
    retry       \* mount -> retry timers pending

feedVars == <<signedIn, hook, mounted, streamState, events, used, owner, phase, timer,
              esRef, retry>>

\* A source is silent when it is dead and no error has told the page.
Phases == {"unused", "asking", "opening", "open", "silent", "closed"}
UnderWay == {"asking", "opening", "open", "silent"}
Source == {"opening", "open", "silent"}

FeedTypeOK ==
    /\ signedIn \in BOOLEAN /\ mounted \in BOOLEAN
    /\ hook \in 0..MaxHooks
    /\ streamState \in {"connecting", "live", "stale"}
    /\ events \in 0..MaxEvents
    /\ used \in 0..MaxAttempts
    /\ owner \in [Attempts -> 0..MaxHooks]
    /\ phase \in [Attempts -> Phases]
    /\ timer \subseteq Attempts
    /\ esRef \in [Hooks -> 0..MaxAttempts]
    /\ retry \in [Hooks -> Nat]

FeedInit ==
    /\ signedIn \in BOOLEAN /\ hook = 0 /\ mounted = FALSE
    /\ streamState = "connecting" /\ events = 0 /\ used = 0
    /\ owner = [a \in Attempts |-> 0] /\ phase = [a \in Attempts |-> "unused"]
    /\ timer = {}
    /\ esRef = [h \in Hooks |-> 0] /\ retry = [h \in Hooks |-> 0]

Shows(h) == mounted /\ h = hook

\* setState of a mount: the state of one that is gone is nobody's.
Show(h, s) == streamState' = IF Shows(h) THEN s ELSE streamState

\* Closing the event source a mount holds, if it holds one.
Closed(h) ==
    [a \in Attempts |->
        IF a = esRef[h] /\ phase[a] \in Source THEN "closed" ELSE phase[a]]

\* A new attempt of mount h, the sources in ph closed already.
StartAttempt(h, ph) ==
    /\ used < MaxAttempts
    /\ used' = used + 1
    /\ owner' = [owner EXCEPT ![used + 1] = h]
    /\ phase' = [ph EXCEPT ![used + 1] = "asking"]
    /\ timer' = timer \cup {used + 1}

NoAttempt(ph) == phase' = ph /\ UNCHANGED <<used, owner, timer>>

\* Mounting: the old mount's source is closed, the new one connects at once,
\* and without a token connecting returns in silence.
MountFeed ==
    /\ hook < MaxHooks
    /\ hook' = hook + 1 /\ mounted' = TRUE
    /\ streamState' = "connecting" /\ events' = 0
    /\ LET left == IF mounted THEN Closed(hook) ELSE phase
       IN IF signedIn THEN StartAttempt(hook + 1, left) ELSE NoAttempt(left)
    /\ UNCHANGED <<signedIn, esRef, retry>>

UnmountFeed ==
    /\ mounted
    /\ mounted' = FALSE
    /\ phase' = Closed(hook)
    /\ UNCHANGED <<signedIn, hook, streamState, events, used, owner, timer, esRef, retry>>

\* The retry timer of a mount, gone or not.
Reconnect(h) ==
    /\ retry[h] > 0
    /\ retry' = [retry EXCEPT ![h] = @ - 1]
    /\ IF signedIn
       THEN /\ StartAttempt(h, Closed(h))
            /\ IF streamState = "live" THEN UNCHANGED streamState ELSE Show(h, "connecting")
       ELSE NoAttempt(Closed(h)) /\ UNCHANGED streamState
    /\ UNCHANGED <<signedIn, hook, mounted, events, esRef>>

TicketMinted(a) ==
    /\ phase[a] = "asking"
    /\ phase' = [phase EXCEPT ![a] = "opening"]
    /\ esRef' = [esRef EXCEPT ![owner[a]] = a]
    /\ UNCHANGED <<signedIn, hook, mounted, streamState, events, used, owner, timer, retry>>
\* MUTANT of AttemptFails: the source that failed is not closed.
AttemptFailsOpen(a) ==
    /\ timer' = timer \ {a}
    /\ Show(owner[a], "stale")
    /\ retry' = [retry EXCEPT ![owner[a]] = @ + 1]
    /\ UNCHANGED <<signedIn, hook, mounted, events, used, owner, phase, esRef>>

\* MUTANT of AttemptFails: the failure is not shown.
AttemptFailsUnseen(a) ==
    /\ phase' = [phase EXCEPT ![a] = "closed"]
    /\ timer' = timer \ {a}
    /\ retry' = [retry EXCEPT ![owner[a]] = @ + 1]
    /\ UNCHANGED <<signedIn, hook, mounted, streamState, events, used, owner, esRef>>

\* Both failures end the attempt, show STALE and set the retry timer.
AttemptFails(a) ==
    /\ phase' = [phase EXCEPT ![a] = "closed"]
    /\ timer' = timer \ {a}
    /\ Show(owner[a], "stale")
    /\ retry' = [retry EXCEPT ![owner[a]] = @ + 1]
    /\ UNCHANGED <<signedIn, hook, mounted, events, used, owner, esRef>>

TicketRefused(a) == phase[a] = "asking" /\ AttemptFails(a)
StreamError(a)   == phase[a] \in Source /\ AttemptFails(a)

StreamOpens(a) ==
    /\ phase[a] = "opening"
    /\ phase' = [phase EXCEPT ![a] = "open"]
    /\ timer' = timer \ {a}
    /\ Show(owner[a], "live")
    /\ UNCHANGED <<signedIn, hook, mounted, events, used, owner, esRef, retry>>
\* MUTANT of StreamEvent: the list of events is not cut to its length.
StreamEventUncut(a) ==
    /\ phase[a] = "open"
    /\ Show(owner[a], "live")
    /\ events' = IF Shows(owner[a]) THEN events + 1 ELSE events
    /\ events <= MaxEvents
    /\ UNCHANGED <<signedIn, hook, mounted, used, owner, phase, timer, esRef, retry>>

StreamEvent(a) ==
    /\ phase[a] = "open"
    /\ Show(owner[a], "live")
    /\ events' = IF Shows(owner[a]) /\ events < MaxEvents THEN events + 1 ELSE events
    /\ UNCHANGED <<signedIn, hook, mounted, used, owner, phase, timer, esRef, retry>>

GoesSilent(a) ==
    /\ phase[a] = "open"
    /\ phase' = [phase EXCEPT ![a] = "silent"]
    /\ UNCHANGED <<signedIn, hook, mounted, streamState, events, used, owner, timer, esRef, retry>>

\* Ten seconds without an open: the source the mount holds is closed and no
\* retry is set.  The close stands in a state update, which React may or may
\* not still run for a mount that is gone.
OpenTimeout(a) ==
    /\ a \in timer
    /\ timer' = timer \ {a}
    /\ \/ /\ Shows(owner[a]) /\ streamState = "live"
          /\ UNCHANGED <<phase, streamState>>
       \/ /\ Shows(owner[a]) /\ streamState # "live"
          /\ phase' = Closed(owner[a]) /\ streamState' = "stale"
       \/ /\ ~Shows(owner[a])
          /\ phase' \in {phase, Closed(owner[a])} /\ UNCHANGED streamState
    /\ UNCHANGED <<signedIn, hook, mounted, events, used, owner, esRef, retry>>
\* MUTANT of Watchdog: it looks only at a stream that was live before.
WatchdogOfLive ==
    /\ mounted /\ streamState = "stale"
    /\ UNCHANGED feedVars

\* Every 15 seconds, whatever is not live is stale.
Watchdog ==
    /\ mounted /\ streamState # "live"
    /\ streamState' = "stale"
    /\ UNCHANGED <<signedIn, hook, mounted, events, used, owner, phase, timer, esRef, retry>>

\* The session signs in or out, or another operator takes over.
TokenChanges ==
    /\ signedIn' = ~signedIn
    /\ UNCHANGED <<hook, mounted, streamState, events, used, owner, phase, timer, esRef, retry>>

FeedNext ==
    \/ MountFeed \/ UnmountFeed \/ Watchdog \/ TokenChanges
    \/ \E h \in Hooks : Reconnect(h)
    \/ \E a \in Attempts :
          \/ TicketMinted(a) \/ TicketRefused(a) \/ StreamError(a)
          \/ StreamOpens(a) \/ StreamEvent(a) \/ GoesSilent(a) \/ OpenTimeout(a)

FeedSpec == FeedInit /\ [][FeedNext]_feedVars

\* A mount never has two attempts, or an attempt and a retry, under way: an
\* event is listed once, and a closed source is not opened again beside its
\* successor (live.ts:44-127, where every failure schedules the next attempt).
OneAttemptPerMount ==
    \A h \in Hooks :
        Cardinality({a \in Attempts : owner[a] = h /\ phase[a] \in UnderWay})
            + retry[h] <= 1

\* The console says LIVE only over a source that did open and that nothing has
\* closed since: neither a timeout nor a late answer of an earlier attempt
\* leaves LIVE behind (live.ts:57-63, 102-114).
LiveOverOpenSource ==
    mounted /\ streamState = "live" =>
        \E a \in Attempts : owner[a] = hook /\ phase[a] \in {"open", "silent"}

\* Connecting does not persist: with or without a token, an answer or a
\* timeout, the mount becomes live or stale, or is unmounted (live.ts:55-56).
ConnectingEnds == [](mounted /\ streamState = "connecting" =>
                        <>(~mounted \/ streamState # "connecting"))
============================================================================
