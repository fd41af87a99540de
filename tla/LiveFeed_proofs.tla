-------------------------- MODULE LiveFeed_proofs --------------------------
(***************************************************************************)
(* What the live event stream of a tab keeps, for any number of mounts,    *)
(* connection attempts and events.                                         *)
(***************************************************************************)
EXTENDS LiveFeed, FiniteSetTheorems, TLAPS

\* Attempts are made in order, each by a mount of its time; a mount holds the
\* source of an attempt of its own.
FeedOwners ==
    /\ mounted => hook > 0
    /\ timer \subseteq 1..used
    /\ \A a \in Attempts : phase[a] # "unused" <=> a <= used
    /\ \A a \in Attempts : a <= used => owner[a] \in 1..hook
    /\ \A h \in Hooks : esRef[h] # 0 => esRef[h] <= used /\ owner[esRef[h]] = h
    /\ \A h \in Hooks : h > hook => retry[h] = 0

\* One attempt of a mount under way, or one retry, and never both.
FeedOne ==
    /\ \A h \in Hooks : retry[h] <= 1
    /\ \A a, b \in Attempts :
          /\ phase[a] \in UnderWay /\ phase[b] \in UnderWay /\ owner[a] = owner[b]
          => a = b
    /\ \A a \in Attempts : phase[a] \in UnderWay => retry[owner[a]] = 0

FeedInv == FeedTypeOK /\ FeedOwners /\ FeedOne /\ LiveOverOpenSource

LEMMA FeedInitInv == FeedInit => FeedInv
<1> SUFFICES ASSUME FeedInit PROVE FeedInv
  OBVIOUS
<1> USE FeedAssumption DEF FeedInit
<1>1. FeedTypeOK
  <2>1. /\ owner \in [Attempts -> 0..MaxHooks] /\ phase \in [Attempts -> Phases]
        /\ esRef \in [Hooks -> 0..MaxAttempts] /\ retry \in [Hooks -> Nat]
    BY DEF Phases
  <2>2. hook \in 0..MaxHooks /\ events \in 0..MaxEvents /\ used \in 0..MaxAttempts
    OBVIOUS
  <2> QED BY <2>1, <2>2 DEF FeedTypeOK
<1>2. FeedOwners
  BY DEF FeedOwners, Attempts, Hooks
<1>3. FeedOne
  BY DEF FeedOne, UnderWay
<1> QED BY <1>1, <1>2, <1>3 DEF FeedInv, LiveOverOpenSource

\* Closing touches no source but one of the mount's own.
LEMMA ClosedFacts ==
    ASSUME FeedInv, NEW h \in Hooks
    PROVE  /\ Closed(h) \in [Attempts -> Phases]
           /\ \A a \in Attempts :
                 \/ Closed(h)[a] = phase[a]
                 \/ Closed(h)[a] = "closed" /\ phase[a] \in Source /\ owner[a] = h
<1>1. Closed(h) \in [Attempts -> Phases]
  BY DEF FeedInv, FeedTypeOK, Closed, Phases
<1>2. \A a \in Attempts : a = esRef[h] => owner[a] = h
  BY DEF FeedInv, FeedTypeOK, FeedOwners, Attempts
<1> QED BY <1>1, <1>2 DEF Closed

\* What every handler leaves of the phases, the owners aside: nothing is under way
\* that was not, but for the attempt that starts.
LEMMA StartKeeps ==
    ASSUME FeedInv, NEW h \in Hooks, NEW ph \in [Attempts -> Phases],
           StartAttempt(h, ph),
           hook' \in 0..MaxHooks, h <= hook', hook <= hook',
           \A a \in Attempts : ph[a] = phase[a] \/ (ph[a] = "closed" /\ phase[a] \in Source),
           \A a \in Attempts : phase[a] \in UnderWay /\ owner[a] = h => FALSE
    PROVE  /\ used' \in 0..MaxAttempts /\ owner' \in [Attempts -> 0..MaxHooks]
           /\ phase' \in [Attempts -> Phases] /\ timer' \subseteq 1..used'
           /\ timer' \subseteq Attempts
           /\ \A a \in Attempts : phase'[a] # "unused" <=> a <= used'
           /\ \A a \in Attempts : a <= used' => owner'[a] \in 1..hook'
           /\ \A a \in Attempts : a <= used => owner'[a] = owner[a] /\ phase'[a] = ph[a]
           /\ \A a \in Attempts : phase'[a] \in UnderWay =>
                 (phase[a] \in UnderWay /\ owner'[a] = owner[a]) \/ (a = used' /\ owner'[a] = h)
           /\ \A a, b \in Attempts :
                 phase'[a] \in UnderWay /\ phase'[b] \in UnderWay /\ owner'[a] = owner'[b]
                 => a = b
<1>1. /\ used \in Nat /\ used < MaxAttempts /\ used' = used + 1 /\ used' \in Attempts
      /\ owner' = [owner EXCEPT ![used'] = h]
      /\ phase' = [ph EXCEPT ![used'] = "asking"]
      /\ timer' = timer \cup {used'}
  BY FeedAssumption DEF StartAttempt, FeedInv, FeedTypeOK, Attempts
<1>2. \A a \in Attempts : a # used' => owner'[a] = owner[a] /\ phase'[a] = ph[a]
  BY <1>1 DEF FeedInv, FeedTypeOK
<1>3. owner'[used'] = h /\ phase'[used'] = "asking"
  BY <1>1 DEF FeedInv, FeedTypeOK
<1>4. /\ owner' \in [Attempts -> 0..MaxHooks] /\ phase' \in [Attempts -> Phases]
      /\ timer' \subseteq 1..used' /\ timer' \subseteq Attempts
      /\ used' \in 0..MaxAttempts
  BY <1>1, FeedAssumption DEF FeedInv, FeedTypeOK, FeedOwners, Hooks, Phases, Attempts
<1>5. \A a \in Attempts : a \in Nat /\ a >= 1
  BY DEF Attempts
<1>5a. \A a \in Attempts : a # used' => (a <= used' <=> a <= used)
  BY <1>1, <1>5
<1>5b. \A a \in Attempts : a <= used => a # used'
  BY <1>1, <1>5
<1>6. \A a \in Attempts : phase'[a] # "unused" <=> a <= used'
  <2> TAKE a \in Attempts
  <2>1. phase[a] # "unused" <=> a <= used
    BY DEF FeedInv, FeedOwners
  <2>2. CASE a = used'
    BY <1>1, <1>3, <2>2
  <2>3. CASE a # used'
    <3>1. phase'[a] = phase[a] \/ (phase'[a] = "closed" /\ phase[a] \in Source)
      BY <1>2, <2>3
    <3> QED BY <1>5a, <2>1, <2>3, <3>1 DEF Source
  <2> QED BY <2>2, <2>3
<1>7. \A a \in Attempts : a <= used' => owner'[a] \in 1..hook'
  <2> SUFFICES ASSUME NEW a \in Attempts, a <= used' PROVE owner'[a] \in 1..hook'
    OBVIOUS
  <2>1. CASE a = used'
    BY <1>3, <2>1, FeedAssumption DEF Hooks
  <2>2. CASE a # used'
    <3>1. owner'[a] = owner[a] /\ owner[a] \in 1..hook
      BY <1>2, <1>5a, <2>2 DEF FeedInv, FeedOwners
    <3> QED BY <3>1 DEF FeedInv, FeedTypeOK
  <2> QED BY <2>1, <2>2
<1>8. \A a \in Attempts : phase'[a] \in UnderWay =>
         (phase[a] \in UnderWay /\ owner'[a] = owner[a]) \/ (a = used' /\ owner'[a] = h)
  <2> SUFFICES ASSUME NEW a \in Attempts, a # used', phase'[a] \in UnderWay
               PROVE  phase[a] \in UnderWay /\ owner'[a] = owner[a]
    BY <1>3
  <2> QED BY <1>2 DEF UnderWay, Source
<1>9. \A a, b \in Attempts :
         phase'[a] \in UnderWay /\ phase'[b] \in UnderWay /\ owner'[a] = owner'[b] => a = b
  BY <1>8 DEF FeedInv, FeedOne
<1>10. \A a \in Attempts : a <= used => owner'[a] = owner[a] /\ phase'[a] = ph[a]
  BY <1>2, <1>5b
<1> QED BY <1>4, <1>6, <1>7, <1>8, <1>9, <1>10

LEMMA MountStep == FeedInv /\ MountFeed => FeedInv'
<1> SUFFICES ASSUME FeedInv, MountFeed PROVE FeedInv'
  OBVIOUS
<1> USE FeedAssumption DEF Hooks
<1> DEFINE left == IF mounted THEN Closed(hook) ELSE phase
<1>1. /\ hook' = hook + 1 /\ hook' \in 1..MaxHooks /\ hook \in 0..MaxHooks
      /\ mounted' = TRUE /\ streamState' = "connecting" /\ events' = 0
      /\ UNCHANGED <<signedIn, esRef, retry>>
      /\ IF signedIn THEN StartAttempt(hook + 1, left) ELSE NoAttempt(left)
  BY DEF MountFeed, FeedInv, FeedTypeOK
<1>2. /\ left \in [Attempts -> Phases]
      /\ \A a \in Attempts : left[a] = phase[a] \/ (left[a] = "closed" /\ phase[a] \in Source)
  <2>1. CASE mounted
    <3>1. hook \in Hooks
      BY <1>1, <2>1 DEF FeedInv, FeedOwners
    <3> QED BY <2>1, <3>1, ClosedFacts
  <2>2. CASE ~mounted
    BY <2>2 DEF FeedInv, FeedTypeOK
  <2> QED BY <2>1, <2>2 DEF FeedInv, FeedTypeOK
<1>3. \A a \in Attempts : ~(phase[a] \in UnderWay /\ owner[a] = hook')
  <2> SUFFICES ASSUME NEW a \in Attempts, phase[a] \in UnderWay PROVE owner[a] # hook'
    OBVIOUS
  <2>1. owner[a] \in 1..hook
    BY DEF FeedInv, FeedOwners, UnderWay
  <2> QED BY <1>1, <2>1
<1>4. CASE signedIn
  <2>1. StartAttempt(hook', left)
    BY <1>1, <1>4
  <2>2. /\ used' \in 0..MaxAttempts /\ owner' \in [Attempts -> 0..MaxHooks]
        /\ phase' \in [Attempts -> Phases] /\ timer' \subseteq 1..used'
        /\ timer' \subseteq Attempts
        /\ \A a \in Attempts : phase'[a] # "unused" <=> a <= used'
        /\ \A a \in Attempts : a <= used' => owner'[a] \in 1..hook'
        /\ \A a \in Attempts : a <= used => owner'[a] = owner[a]
        /\ \A a \in Attempts : phase'[a] \in UnderWay =>
              (phase[a] \in UnderWay /\ owner'[a] = owner[a]) \/ (a = used' /\ owner'[a] = hook')
        /\ \A a, b \in Attempts :
              phase'[a] \in UnderWay /\ phase'[b] \in UnderWay /\ owner'[a] = owner'[b]
              => a = b
    BY <1>1, <1>2, <1>3, <2>1, StartKeeps
  <2>3. used' = used + 1 /\ used \in Nat
    BY <2>1 DEF StartAttempt, FeedInv, FeedTypeOK
  <2>4. FeedTypeOK'
    BY <1>1, <2>2 DEF FeedInv, FeedTypeOK
  <2>5. FeedOwners'
    <3>1. \A g \in Hooks : esRef'[g] # 0 => esRef'[g] <= used' /\ owner'[esRef'[g]] = g
      <4> SUFFICES ASSUME NEW g \in Hooks, esRef[g] # 0
                   PROVE  esRef[g] <= used' /\ owner'[esRef[g]] = g
        BY <1>1
      <4>1. esRef[g] <= used /\ owner[esRef[g]] = g
        BY DEF FeedInv, FeedOwners
      <4>2. esRef[g] \in Attempts
        BY DEF FeedInv, FeedTypeOK, Attempts
      <4>3. esRef[g] \in Nat
        BY <4>2 DEF Attempts
      <4>4. owner'[esRef[g]] = g
        BY <2>2, <4>1, <4>2
      <4> QED BY <2>3, <4>1, <4>3, <4>4
    <3>2. \A g \in Hooks : g > hook' => retry'[g] = 0
      BY <1>1 DEF FeedInv, FeedOwners
    <3> QED BY <1>1, <2>2, <3>1, <3>2 DEF FeedOwners
  <2>6. FeedOne'
    BY <1>1, <2>2 DEF FeedInv, FeedOwners, FeedOne
  <2> QED BY <1>1, <2>4, <2>5, <2>6 DEF FeedInv, LiveOverOpenSource
<1>5. CASE ~signedIn
  <2>1. phase' = left /\ UNCHANGED <<used, owner, timer>>
    BY <1>1, <1>5 DEF NoAttempt
  <2>2. FeedTypeOK'
    BY <1>1, <1>2, <2>1 DEF FeedInv, FeedTypeOK
  <2>3. FeedOwners'
    <3>1. \A a \in Attempts : phase'[a] # "unused" <=> a <= used'
      BY <1>2, <2>1 DEF FeedInv, FeedOwners, Source
    <3>2. \A a \in Attempts : a <= used' => owner'[a] \in 1..hook'
      BY <1>1, <2>1 DEF FeedInv, FeedOwners
    <3>3. \A g \in Hooks : g > hook' => retry'[g] = 0
      BY <1>1 DEF FeedInv, FeedOwners
    <3> QED BY <1>1, <2>1, <3>1, <3>2, <3>3 DEF FeedInv, FeedOwners
  <2>4. FeedOne'
    BY <1>1, <1>2, <2>1 DEF FeedInv, FeedOne, UnderWay, Source
  <2> QED BY <1>1, <2>2, <2>3, <2>4 DEF FeedInv, LiveOverOpenSource
<1> QED BY <1>4, <1>5 DEF FeedInv, FeedTypeOK

LEMMA ReconnectStep == ASSUME FeedInv, NEW h \in Hooks, Reconnect(h) PROVE FeedInv'
<1> USE FeedAssumption DEF Hooks
<1>1. /\ retry[h] = 1 /\ retry' = [retry EXCEPT ![h] = 0]
      /\ h <= hook /\ hook \in 0..MaxHooks
  <2>1. retry \in [Hooks -> Nat] /\ retry[h] <= 1 /\ retry[h] > 0
    BY DEF Reconnect, FeedInv, FeedTypeOK, FeedOne
  <2>2. retry[h] = 1
    BY <2>1
  <2>3. retry' = [retry EXCEPT ![h] = 0]
    BY <2>2 DEF Reconnect
  <2>4. hook \in 0..MaxHooks /\ (h > hook => retry[h] = 0)
    BY DEF FeedInv, FeedTypeOK, FeedOwners
  <2> QED BY <2>2, <2>3, <2>4
<1>2. \A a \in Attempts : phase[a] \in UnderWay /\ owner[a] = h => FALSE
  BY <1>1 DEF FeedInv, FeedOne
<1>3. /\ Closed(h) = phase
  BY <1>2, ClosedFacts DEF FeedInv, FeedTypeOK, Source, UnderWay, Closed
<1>4. UNCHANGED <<signedIn, hook, mounted, events, esRef>>
  BY DEF Reconnect
<1>5. ~(Shows(h) /\ streamState = "live")
  BY <1>2 DEF FeedInv, LiveOverOpenSource, Shows, UnderWay
<1>6. streamState' \in {streamState, "connecting"}
  BY DEF Reconnect, Show
<1>7. CASE signedIn
  <2>1. StartAttempt(h, phase)
    BY <1>3, <1>7 DEF Reconnect
  <2>2. /\ used' \in 0..MaxAttempts /\ owner' \in [Attempts -> 0..MaxHooks]
        /\ phase' \in [Attempts -> Phases] /\ timer' \subseteq 1..used'
        /\ timer' \subseteq Attempts
        /\ \A a \in Attempts : phase'[a] # "unused" <=> a <= used'
        /\ \A a \in Attempts : a <= used' => owner'[a] \in 1..hook'
        /\ \A a \in Attempts : a <= used => owner'[a] = owner[a] /\ phase'[a] = phase[a]
        /\ \A a \in Attempts : phase'[a] \in UnderWay =>
              (phase[a] \in UnderWay /\ owner'[a] = owner[a]) \/ (a = used' /\ owner'[a] = h)
        /\ \A a, b \in Attempts :
              phase'[a] \in UnderWay /\ phase'[b] \in UnderWay /\ owner'[a] = owner'[b]
              => a = b
    <3>1. phase \in [Attempts -> Phases]
      BY DEF FeedInv, FeedTypeOK
    <3> QED BY <1>1, <1>2, <1>4, <2>1, <3>1, StartKeeps
  <2>3. used' = used + 1 /\ used \in Nat
    BY <2>1 DEF StartAttempt, FeedInv, FeedTypeOK
  <2>4. FeedTypeOK'
    BY <1>1, <1>4, <1>6, <2>2 DEF FeedInv, FeedTypeOK
  <2>5. FeedOwners'
    <3>1. \A g \in Hooks : esRef'[g] # 0 => esRef'[g] <= used' /\ owner'[esRef'[g]] = g
      <4> SUFFICES ASSUME NEW g \in Hooks, esRef[g] # 0
                   PROVE  esRef[g] <= used' /\ owner'[esRef[g]] = g
        BY <1>4
      <4>1. esRef[g] <= used /\ owner[esRef[g]] = g
        BY DEF FeedInv, FeedOwners
      <4>2. esRef[g] \in Attempts
        BY DEF FeedInv, FeedTypeOK, Attempts
      <4>3. esRef[g] \in Nat
        BY <4>2 DEF Attempts
      <4>4. owner'[esRef[g]] = g
        BY <2>2, <4>1, <4>2
      <4> QED BY <2>3, <4>1, <4>3, <4>4
    <3>2. \A g \in Hooks : g > hook' => retry'[g] = 0
      BY <1>1, <1>4 DEF FeedInv, FeedTypeOK, FeedOwners
    <3>3. mounted' => hook' > 0
      BY <1>4 DEF FeedInv, FeedOwners
    <3> QED BY <2>2, <3>1, <3>2, <3>3 DEF FeedOwners
  <2>6. FeedOne'
    <3>1. \A g \in Hooks : retry'[g] <= 1
      BY <1>1 DEF FeedInv, FeedTypeOK, FeedOne
    <3>2. \A a \in Attempts : phase'[a] \in UnderWay => retry'[owner'[a]] = 0
      BY <1>1, <1>2, <2>2, <2>3 DEF FeedInv, FeedTypeOK, FeedOwners, FeedOne, UnderWay, Attempts
    <3> QED BY <2>2, <3>1, <3>2 DEF FeedOne
  <2>7. LiveOverOpenSource'
    <3>1. SUFFICES ASSUME mounted', streamState' = "live"
                   PROVE  \E a \in Attempts :
                             owner'[a] = hook /\ phase'[a] \in {"open", "silent"}
      BY <1>4 DEF LiveOverOpenSource
    <3>2. PICK a \in Attempts : owner[a] = hook /\ phase[a] \in {"open", "silent"}
      BY <1>4, <1>6, <3>1 DEF FeedInv, LiveOverOpenSource
    <3>3. a <= used
      BY <3>2 DEF FeedInv, FeedOwners
    <3> QED BY <2>2, <3>2, <3>3
  <2> QED BY <2>4, <2>5, <2>6, <2>7 DEF FeedInv
<1>8. CASE ~signedIn
  <2>1. UNCHANGED <<used, owner, timer, phase, streamState>>
    BY <1>3, <1>8 DEF Reconnect, NoAttempt
  <2>2. FeedTypeOK' /\ FeedOwners' /\ FeedOne'
    BY <1>1, <1>4, <2>1 DEF FeedInv, FeedTypeOK, FeedOwners, FeedOne
  <2> QED BY <1>4, <2>1, <2>2 DEF FeedInv, LiveOverOpenSource
<1> QED BY <1>7, <1>8 DEF FeedInv, FeedTypeOK

\* An attempt whose phase is under way or whose timer is pending has a mount.
LEMMA OwnerIsMount ==
    ASSUME FeedInv, NEW a \in Attempts, phase[a] # "unused" \/ a \in timer
    PROVE  owner[a] \in Hooks /\ owner[a] <= hook /\ a <= used
BY FeedAssumption DEF FeedInv, FeedTypeOK, FeedOwners, Hooks, Attempts

LEMMA FailStep ==
    ASSUME FeedInv, NEW a \in Attempts, phase[a] \in UnderWay, AttemptFails(a)
    PROVE  FeedInv'
<1>1. owner[a] \in Hooks /\ owner[a] <= hook /\ a <= used
  BY OwnerIsMount DEF UnderWay
<1>2. retry[owner[a]] = 0
  BY DEF FeedInv, FeedOne
<1>3. /\ phase' = [phase EXCEPT ![a] = "closed"] /\ timer' = timer \ {a}
      /\ retry' = [retry EXCEPT ![owner[a]] = 1]
      /\ UNCHANGED <<signedIn, hook, mounted, events, used, owner, esRef>>
      /\ Show(owner[a], "stale")
  BY <1>1, <1>2 DEF AttemptFails, FeedInv, FeedTypeOK
<1>4. FeedTypeOK'
  BY <1>3 DEF FeedInv, FeedTypeOK, Phases, Show
<1>5. FeedOwners'
  BY <1>1, <1>3 DEF FeedInv, FeedTypeOK, FeedOwners, UnderWay, Hooks
<1>6. FeedOne'
  <2>1. \A h \in Hooks : retry'[h] <= 1
    BY <1>3 DEF FeedInv, FeedTypeOK, FeedOne
  <2>2. \A b \in Attempts : phase'[b] \in UnderWay => b # a /\ phase[b] \in UnderWay
    BY <1>3 DEF FeedInv, FeedTypeOK, UnderWay
  <2>3. \A b \in Attempts : phase'[b] \in UnderWay => retry'[owner'[b]] = 0
    BY <1>3, <2>2, OwnerIsMount DEF FeedInv, FeedTypeOK, FeedOne, UnderWay
  <2> QED BY <1>3, <2>1, <2>2, <2>3 DEF FeedInv, FeedOne
<1>7. LiveOverOpenSource'
  BY <1>3 DEF FeedInv, FeedTypeOK, LiveOverOpenSource, Show, Shows
<1> QED BY <1>4, <1>5, <1>6, <1>7 DEF FeedInv

\* Steps of an attempt that goes on, and those that leave the attempts alone.
LEMMA MoveStep ==
    ASSUME FeedInv, NEW a \in Attempts,
           TicketMinted(a) \/ StreamOpens(a) \/ StreamEvent(a) \/ GoesSilent(a)
    PROVE  FeedInv'
<1>1. owner[a] \in Hooks /\ owner[a] <= hook /\ a <= used
  BY OwnerIsMount DEF TicketMinted, StreamOpens, StreamEvent, GoesSilent
<1>2. /\ UNCHANGED <<signedIn, hook, mounted, used, owner, retry>>
      /\ timer' \subseteq timer
      /\ phase[a] \in UnderWay
      /\ \/ phase' = phase
         \/ \E s \in UnderWay : phase' = [phase EXCEPT ![a] = s]
  BY DEF TicketMinted, StreamOpens, StreamEvent, GoesSilent, UnderWay
<1>3. /\ phase' \in [Attempts -> Phases]
      /\ phase'[a] \in UnderWay
      /\ \A b \in Attempts : b # a => phase'[b] = phase[b]
  BY <1>2 DEF FeedInv, FeedTypeOK, Phases, UnderWay
<1>4. \/ esRef' = esRef
      \/ esRef' = [esRef EXCEPT ![owner[a]] = a]
  BY DEF TicketMinted, StreamOpens, StreamEvent, GoesSilent
<1>5. FeedTypeOK'
  <2>1. esRef' \in [Hooks -> 0..MaxAttempts]
    BY <1>4, FeedAssumption DEF FeedInv, FeedTypeOK, Attempts
  <2>2. streamState' \in {"connecting", "live", "stale"} /\ events' \in 0..MaxEvents
    BY FeedAssumption
    DEF TicketMinted, StreamOpens, StreamEvent, GoesSilent, Show, FeedInv, FeedTypeOK
  <2> QED BY <1>2, <1>3, <2>1, <2>2 DEF FeedInv, FeedTypeOK
<1>6. FeedOwners'
  <2>1. \A h \in Hooks : esRef'[h] # 0 => esRef'[h] <= used /\ owner[esRef'[h]] = h
    BY <1>1, <1>4 DEF FeedInv, FeedTypeOK, FeedOwners
  <2>2. \A b \in Attempts : phase'[b] # "unused" <=> b <= used
    BY <1>1, <1>3 DEF FeedInv, FeedOwners, UnderWay
  <2> QED BY <1>2, <2>1, <2>2 DEF FeedInv, FeedOwners
<1>7. FeedOne'
  BY <1>2, <1>3 DEF FeedInv, FeedOne
<1>8. LiveOverOpenSource'
  <2> SUFFICES ASSUME mounted, streamState' = "live"
               PROVE  \E b \in Attempts : owner[b] = hook /\ phase'[b] \in {"open", "silent"}
    BY <1>2 DEF LiveOverOpenSource
  <2>1. \/ streamState = "live" /\ UNCHANGED phase
        \/ streamState = "live" /\ phase[a] = "asking"
        \/ streamState = "live" /\ phase'[a] = "silent"
        \/ phase'[a] \in {"open", "silent"} /\ (streamState = "live" \/ owner[a] = hook)
    BY DEF TicketMinted, StreamOpens, StreamEvent, GoesSilent, Show, Shows, FeedInv, FeedTypeOK
  <2>2. CASE owner[a] = hook /\ phase'[a] \in {"open", "silent"}
    BY <2>2
  <2>3. CASE streamState = "live" /\ ~(owner[a] = hook /\ phase'[a] \in {"open", "silent"})
    <3>1. PICK b \in Attempts : owner[b] = hook /\ phase[b] \in {"open", "silent"}
      BY <2>3 DEF FeedInv, LiveOverOpenSource
    <3>2. phase'[b] = phase[b]
      <4>1. CASE b = a
        BY <2>1, <2>3, <3>1, <4>1
      <4>2. CASE b # a
        BY <1>3, <4>2
      <4> QED BY <4>1, <4>2
    <3> QED BY <3>1, <3>2
  <2> QED BY <2>1, <2>2, <2>3
<1> QED BY <1>5, <1>6, <1>7, <1>8 DEF FeedInv

LEMMA CloseStep ==
    ASSUME FeedInv, NEW h \in Hooks, phase' = Closed(h), timer' \subseteq timer,
           UNCHANGED <<signedIn, hook, events, used, owner, esRef, retry>>,
           \/ mounted' = FALSE /\ UNCHANGED streamState
           \/ UNCHANGED mounted /\ Shows(h) /\ streamState' = "stale"
           \/ UNCHANGED <<mounted, streamState>> /\ ~Shows(h)
    PROVE  FeedInv'
<1>1. /\ phase' \in [Attempts -> Phases]
      /\ \A a \in Attempts :
            \/ phase'[a] = phase[a]
            \/ phase'[a] = "closed" /\ phase[a] \in Source /\ owner[a] = h
  BY ClosedFacts
<1>2. FeedTypeOK'
  BY <1>1 DEF FeedInv, FeedTypeOK
<1>3. FeedOwners'
  BY <1>1 DEF FeedInv, FeedOwners, Source
<1>4. FeedOne'
  BY <1>1 DEF FeedInv, FeedOne, UnderWay, Source
<1>5. LiveOverOpenSource'
  BY <1>1 DEF FeedInv, LiveOverOpenSource, Shows
<1> QED BY <1>2, <1>3, <1>4, <1>5 DEF FeedInv

LEMMA FeedStep == FeedInv /\ [FeedNext]_feedVars => FeedInv'
<1> SUFFICES ASSUME FeedInv, [FeedNext]_feedVars PROVE FeedInv'
  OBVIOUS
<1>1. CASE MountFeed
  BY <1>1, MountStep
<1>2. CASE UnmountFeed
  <2>1. hook \in Hooks
    BY <1>2, FeedAssumption DEF UnmountFeed, FeedInv, FeedTypeOK, FeedOwners, Hooks
  <2> QED BY <1>2, <2>1, CloseStep DEF UnmountFeed
<1>3. CASE Watchdog \/ TokenChanges \/ UNCHANGED feedVars
  <2>1. /\ UNCHANGED <<hook, mounted, events, used, owner, phase, timer, esRef, retry>>
        /\ streamState' \in {streamState, "stale"} /\ signedIn' \in BOOLEAN
    BY <1>3 DEF Watchdog, TokenChanges, feedVars, FeedInv, FeedTypeOK
  <2>2. FeedTypeOK'
    BY <2>1 DEF FeedInv, FeedTypeOK
  <2>3. FeedOwners' /\ FeedOne'
    BY <2>1 DEF FeedInv, FeedOwners, FeedOne
  <2>4. LiveOverOpenSource'
    BY <2>1 DEF FeedInv, LiveOverOpenSource
  <2> QED BY <2>2, <2>3, <2>4 DEF FeedInv
<1>4. ASSUME NEW h \in Hooks, Reconnect(h) PROVE FeedInv'
  BY <1>4, ReconnectStep
<1>5. ASSUME NEW a \in Attempts, TicketRefused(a) \/ StreamError(a) PROVE FeedInv'
  BY <1>5, FailStep DEF TicketRefused, StreamError, UnderWay, Source
<1>6. ASSUME NEW a \in Attempts,
             TicketMinted(a) \/ StreamOpens(a) \/ StreamEvent(a) \/ GoesSilent(a)
      PROVE  FeedInv'
  BY <1>6, MoveStep
<1>7. ASSUME NEW a \in Attempts, OpenTimeout(a) PROVE FeedInv'
  <2>1. owner[a] \in Hooks
    BY <1>7, OwnerIsMount DEF OpenTimeout
  <2>2. CASE phase' = phase /\ streamState' = streamState
    BY <1>7, <2>2 DEF OpenTimeout, FeedInv, FeedTypeOK, FeedOwners, FeedOne, LiveOverOpenSource
  <2>3. CASE ~(phase' = phase /\ streamState' = streamState)
    BY <1>7, <2>1, <2>3, CloseStep DEF OpenTimeout
  <2> QED BY <2>2, <2>3
<1> QED BY <1>1, <1>2, <1>3, <1>4, <1>5, <1>6, <1>7 DEF FeedNext

LEMMA FeedAlways == FeedSpec => []FeedInv
BY FeedInitInv, FeedStep, PTL DEF FeedSpec

\* The stream's state keeps its type (live.ts:34-42).
THEOREM FeedTypeCorrect == FeedSpec => []FeedTypeOK
BY FeedAlways, PTL DEF FeedInv

\* One attempt or one retry of a mount under way (live.ts:44-127).
THEOREM FeedOneAttempt == FeedSpec => []OneAttemptPerMount
<1>1. FeedInv => OneAttemptPerMount
  <2> SUFFICES ASSUME FeedInv, NEW h \in Hooks
               PROVE  Cardinality({a \in Attempts : owner[a] = h /\ phase[a] \in UnderWay})
                         + retry[h] <= 1
    BY DEF OneAttemptPerMount
  <2> DEFINE mine == {a \in Attempts : owner[a] = h /\ phase[a] \in UnderWay}
  <2>1. CASE mine = {}
    <3>1. retry[h] \in Nat /\ retry[h] <= 1
      BY DEF FeedInv, FeedTypeOK, FeedOne
    <3>2. Cardinality(mine) = 0
      BY <2>1, FS_EmptySet
    <3> QED BY <3>1, <3>2
  <2>2. CASE mine # {}
    <3>1. PICK a \in Attempts : a \in mine
      BY <2>2
    <3>2. mine = {a}
      BY <3>1 DEF FeedInv, FeedOne
    <3>3. Cardinality(mine) = 1
      BY <3>2, FS_Singleton
    <3>4. retry[h] = 0
      BY <3>1 DEF FeedInv, FeedOne
    <3> QED BY <3>3, <3>4
  <2> QED BY <2>1, <2>2
<1> QED BY <1>1, FeedAlways, PTL

\* LIVE is shown only over a source that opened and that nothing closed
\* (live.ts:57-63, 102-114).
THEOREM FeedLiveOverOpenSource == FeedSpec => []LiveOverOpenSource
BY FeedAlways, PTL DEF FeedInv
=============================================================================
