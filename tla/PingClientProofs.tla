------------------------- MODULE PingClientProofs -------------------------
(***************************************************************************)
(* What the check-in client guarantees for any number of runs, monitors    *)
(* and flushes: a run ends once, a flush covers what was dispatched before *)
(* it, and a failure is said once for each monitor.                        *)
(***************************************************************************)
EXTENDS PingClient, FiniteSetTheorems, TLAPS

\* The tracked set is exactly what is in flight.
Typed ==
  /\ stage \in [CheckIns -> {"unsent", "inFlight", "settled"}]
  /\ inFlight = {c \in CheckIns : stage[c] = "inFlight"}
  /\ terminal \in [Runs -> Terminals \cup {"none"}]
  /\ flush \in [Flushers -> [at : {"idle", "waiting", "flushed", "expired"},
                             pending : SUBSET CheckIns]]
  /\ before \in [Flushers -> SUBSET CheckIns]

\* A terminal check-in that was sent is the one its run memoised.
Ended ==
  \A r \in Runs : \A a \in Terminals : stage[<<r, a>>] # "unsent" => terminal[r] = a

\* What a flush must cover it waits for, unless it had settled already.
Covered ==
  \A f \in Flushers :
    /\ \A c \in before[f] : c \in flush[f].pending \/ stage[c] = "settled"
    /\ flush[f].at = "flushed" => \A c \in flush[f].pending : stage[c] = "settled"

\* The ledger holds the failures that were reported, each printed once.
Spoken ==
  /\ reported \in SUBSET (Loud \X Monitors)
  /\ warned = reported
  /\ spoken \in [Warnings -> Nat]
  /\ \A w \in Warnings : spoken[w] = (IF w \in warned THEN 1 ELSE 0)

\* What holds of the client whichever of its ways of ending a run is used, so
\* that the modules that compose it may rely on it too.
Core == Typed /\ Covered /\ Spoken

CInv == Core /\ Ended

-----------------------------------------------------------------------------
\* Check-ins are pairs, and no action is both a terminal one and another.
LEMMA CheckInsArePairs ==
  /\ \A r \in Runs, a \in Actions : <<r, a>> \in CheckIns
  /\ \A c \in CheckIns : c[1] \in Runs /\ MonitorOf[c[1]] \in Monitors
  /\ Terminals \subseteq Actions
  /\ "start" \in Actions /\ "heartbeat" \in Actions
  /\ "start" \notin Terminals /\ "heartbeat" \notin Terminals
  /\ "none" \notin Terminals
BY DEF CheckIns, Actions, Terminals, Monitors

\* What no sink takes has a place in the ledger.
LEMMA LoudWarnings ==
  Loud \X Monitors \subseteq Warnings
BY DEF Warnings, Subjects, Outcomes

\* A new client is inside the invariant.
THEOREM InitCInv == ClientInit => CInv
<1> SUFFICES ASSUME ClientInit PROVE CInv
  OBVIOUS
<1>1. Typed
  BY DEF ClientInit, Typed
<1>2. Ended
  BY CheckInsArePairs DEF ClientInit, Ended
<1>3. Covered
  BY DEF ClientInit, Covered
<1>4. Spoken
  BY DEF ClientInit, Spoken
<1> QED
  BY <1>1, <1>2, <1>3, <1>4 DEF CInv, Core

\* A check-in that is dispatched for the first time is tracked, and nobody who
\* flushes has to wait for it.
LEMMA DispatchTracks ==
  ASSUME Typed, Covered, NEW r \in Runs, NEW a \in Actions,
         Dispatch(<<r, a>>),
         stage[<<r, a>>] = "unsent",
         terminal' \in [Runs -> Terminals \cup {"none"}],
         UNCHANGED <<flush, before>>
  PROVE  Typed' /\ Covered'
<1>0. <<r, a>> \in CheckIns
  BY CheckInsArePairs
<1>1. Typed'
  BY <1>0 DEF Dispatch, Typed
<1>2. Covered'
  <2> SUFFICES ASSUME NEW f \in Flushers
               PROVE  /\ \A c \in before[f] : c \in flush[f].pending \/ stage'[c] = "settled"
                      /\ flush[f].at = "flushed"
                           => \A c \in flush[f].pending : stage'[c] = "settled"
    BY DEF Covered
  <2>1. \A c \in CheckIns : stage[c] = "settled" => stage'[c] = "settled"
    BY <1>0 DEF Dispatch, Typed
  <2>2. before[f] \subseteq CheckIns /\ flush[f].pending \subseteq CheckIns
    BY DEF Typed
  <2> QED
    BY <2>1, <2>2 DEF Covered
<1> QED
  BY <1>1, <1>2

LEMMA DispatchCore ==
  ASSUME Core, NEW r \in Runs, NEW a \in Actions,
         Dispatch(<<r, a>>),
         stage[<<r, a>>] = "unsent",
         terminal' \in [Runs -> Terminals \cup {"none"}],
         UNCHANGED <<warned, flush, before, spoken, reported>>
  PROVE  Core'
<1>1. Typed' /\ Covered'
  BY DispatchTracks DEF Core
<1>2. Spoken'
  BY DEF Core, Spoken
<1> QED
  BY <1>1, <1>2 DEF Core

\* With the memo of its run where it is a terminal one, the run ends once.
LEMMA DispatchStep ==
  ASSUME CInv, NEW r \in Runs, NEW a \in Actions,
         Dispatch(<<r, a>>),
         stage[<<r, a>>] = "unsent",
         terminal' \in [Runs -> Terminals \cup {"none"}],
         \A q \in Runs : q # r \/ a \notin Terminals => terminal'[q] = terminal[q],
         a \in Terminals => terminal[r] = "none" /\ terminal'[r] = a,
         UNCHANGED <<warned, flush, before, spoken, reported>>
  PROVE  CInv'
<1> USE DEF CInv
<1>0. <<r, a>> \in CheckIns /\ Typed
  BY CheckInsArePairs DEF Core
<1>1. Core'
  BY DispatchCore
<1>2. Ended'
  <2> SUFFICES ASSUME NEW q \in Runs, NEW b \in Terminals, stage'[<<q, b>>] # "unsent"
               PROVE  terminal'[q] = b
    BY DEF Ended
  <2>0. <<q, b>> \in CheckIns
    BY CheckInsArePairs
  <2>1. CASE <<q, b>> = <<r, a>>
    BY <2>1
  <2>2. CASE <<q, b>> # <<r, a>>
    <3>1. stage[<<q, b>>] # "unsent"
      BY <1>0, <2>0, <2>2 DEF Dispatch, Typed
    <3>2. terminal[q] = b
      BY <3>1 DEF Ended
    <3>3. b # "none"
      BY CheckInsArePairs
    <3> QED
      BY <3>2, <3>3
  <2> QED
    BY <2>1, <2>2
<1> QED
  BY <1>1, <1>2

\* Nothing the client does for its callers leaves the invariant.
LEMMA CallerStep == CInv /\ Callers => CInv'
<1> SUFFICES ASSUME CInv, NEW r \in Runs,
                    Ping(r) \/ StartRun(r) \/ \E a \in Terminals : SendTerminal(r, a)
             PROVE  CInv'
  BY DEF Callers
<1>0. terminal \in [Runs -> Terminals \cup {"none"}]
  BY DEF CInv, Core, Typed
<1>1. ASSUME NEW a \in {"heartbeat", "start"}, Call(r, a) PROVE CInv'
  BY <1>0, <1>1, DispatchStep, CheckInsArePairs DEF Call
<1>2. ASSUME NEW a \in Terminals, SendTerminal(r, a) PROVE CInv'
  <2>1. CASE terminal[r] = "none"
    <3>1. stage[<<r, a>>] = "unsent"
      BY <2>1, CheckInsArePairs DEF CInv, Ended
    <3>2. Dispatch(<<r, a>>) /\ terminal' = [terminal EXCEPT ![r] = a]
      BY <1>2, <2>1 DEF SendTerminal
    <3>3. terminal' \in [Runs -> Terminals \cup {"none"}]
      BY <1>0, <3>2
    <3>4. terminal'[r] = a /\ \A q \in Runs : q # r => terminal'[q] = terminal[q]
      BY <1>0, <3>2
    <3>5. UNCHANGED <<warned, flush, before, spoken, reported>>
      BY <1>2 DEF SendTerminal
    <3> QED
      BY <2>1, <3>1, <3>2, <3>3, <3>4, <3>5, DispatchStep, CheckInsArePairs
  <2>2. CASE terminal[r] # "none"
    <3>1. UNCHANGED clientVars
      BY <1>2, <2>2 DEF SendTerminal, clientVars
    <3> QED
      BY <3>1 DEF CInv, Core, Typed, Ended, Covered, Spoken, clientVars
  <2> QED
    BY <2>1, <2>2
<1> QED
  BY <1>1, <1>2 DEF Ping, StartRun

\* Nor does the settlement of a check-in, whatever its outcome and its sink.
LEMMA SettleTracks ==
  ASSUME Typed, Covered, NEW c \in CheckIns, SettleCheckIn(c) PROVE Typed' /\ Covered'
<1>1. Typed'
  BY DEF SettleCheckIn, Untracked, Typed
<1>2. Covered'
  <2>1. \A d \in CheckIns : stage[d] = "settled" => stage'[d] = "settled"
    BY DEF SettleCheckIn, Typed
  <2>2. \A f \in Flushers : before[f] \subseteq CheckIns /\ flush[f].pending \subseteq CheckIns
    BY DEF Typed
  <2> QED
    BY <2>1, <2>2 DEF SettleCheckIn, Covered
<1> QED
  BY <1>1, <1>2

LEMMA SettleCore == ASSUME Core, NEW c \in CheckIns, SettleCheckIn(c) PROVE Core'
<1> USE DEF Core
<1>1. Typed' /\ Covered'
  BY SettleTracks
<1>3. Spoken'
  <2>1. PICK outcome \in Outcomes :
          IF c[1] \in Sinks \/ outcome \in Quiet
            THEN UNCHANGED <<warned, spoken, reported>>
            ELSE /\ reported' = reported \cup {<<outcome, MonitorOf[c[1]]>>}
                 /\ WarnOnce(outcome, MonitorOf[c[1]])
    BY DEF SettleCheckIn
  <2>2. CASE UNCHANGED <<warned, spoken, reported>>
    BY <2>2 DEF Spoken
  <2>3. CASE /\ outcome \in Loud
             /\ reported' = reported \cup {<<outcome, MonitorOf[c[1]]>>}
             /\ WarnOnce(outcome, MonitorOf[c[1]])
    <3> DEFINE w == <<outcome, MonitorOf[c[1]]>>
    <3>1. w \in Loud \X Monitors /\ w \in Warnings
      BY <2>3, CheckInsArePairs, LoudWarnings
    <3>2. CASE w \in warned
      BY <2>3, <3>1, <3>2 DEF WarnOnce, Spoken
    <3>3. CASE w \notin warned
      <4>1. warned' = warned \cup {w} /\ reported' = reported \cup {w}
        BY <2>3, <3>3 DEF WarnOnce
      <4>2. spoken' = [spoken EXCEPT ![w] = @ + 1]
        BY <2>3, <3>3 DEF WarnOnce
      <4>3. spoken[w] = 0
        BY <3>1, <3>3 DEF Spoken
      <4>4. spoken' \in [Warnings -> Nat]
        BY <3>1, <4>2 DEF Spoken
      <4>5. \A v \in Warnings : spoken'[v] = (IF v \in warned' THEN 1 ELSE 0)
        BY <3>1, <4>1, <4>2, <4>3 DEF Spoken
      <4> QED
        BY <3>1, <4>1, <4>4, <4>5 DEF Spoken
    <3> QED
      BY <3>2, <3>3
  <2> QED
    BY <2>1, <2>2, <2>3 DEF Outcomes
<1> QED
  BY <1>1, <1>3

LEMMA SettleStep == ASSUME CInv, NEW c \in CheckIns, SettleCheckIn(c) PROVE CInv'
<1>1. Core'
  BY SettleCore DEF CInv
<1>2. Ended'
  BY CheckInsArePairs DEF CInv, Core, SettleCheckIn, Typed, Ended
<1> QED
  BY <1>1, <1>2 DEF CInv

\* Nor does a flush: taken, ended by settlement, or ended by its budget.
LEMMA FlushTracks ==
  ASSUME Typed, Covered, NEW f \in Flushers, FlushCall(f) \/ FlushSettled(f) \/ FlushExpired(f)
  PROVE  Typed' /\ Covered'
<1>0. UNCHANGED <<stage, inFlight, terminal, warned, spoken, reported>>
  BY DEF FlushCall, FlushSettled, FlushExpired
<1>1. CASE FlushCall(f)
  <2>1. Typed'
    BY <1>0, <1>1 DEF FlushCall, Typed
  <2>2. /\ before'[f] = {c \in CheckIns : stage[c] # "unsent"}
        /\ flush'[f].pending = inFlight
        /\ flush'[f].at = "flushed" => inFlight = {}
    BY <1>1 DEF FlushCall, Typed
  <2>3. \A g \in Flushers : g # f => before'[g] = before[g] /\ flush'[g] = flush[g]
    BY <1>1 DEF FlushCall, Typed
  <2>4. \A c \in CheckIns : stage[c] # "unsent" => c \in inFlight \/ stage[c] = "settled"
    BY DEF Typed
  <2>5. Covered'
    BY <1>0, <2>2, <2>3, <2>4 DEF Covered
  <2> QED
    BY <2>1, <2>5
<1>2. CASE FlushSettled(f) \/ FlushExpired(f)
  <2>1. Typed'
    BY <1>0, <1>2 DEF FlushSettled, FlushExpired, Typed
  <2>2. /\ UNCHANGED before
        /\ \A g \in Flushers : flush'[g].pending = flush[g].pending
        /\ \A g \in Flushers : g # f => flush'[g].at = flush[g].at
        /\ flush'[f].at = "flushed" => \A c \in flush[f].pending : stage[c] = "settled"
    BY <1>2 DEF FlushSettled, FlushExpired, AllSettled, Typed
  <2>3. Covered'
    BY <1>0, <2>2 DEF Covered
  <2> QED
    BY <2>1, <2>3
<1> QED
  BY <1>1, <1>2

LEMMA FlushCore ==
  ASSUME Core, NEW f \in Flushers, FlushCall(f) \/ FlushSettled(f) \/ FlushExpired(f)
  PROVE  Core'
<1>1. Typed' /\ Covered'
  BY FlushTracks DEF Core
<1>2. Spoken'
  BY DEF Core, Spoken, FlushCall, FlushSettled, FlushExpired
<1> QED
  BY <1>1, <1>2 DEF Core

LEMMA FlushStep ==
  ASSUME CInv, NEW f \in Flushers, FlushCall(f) \/ FlushSettled(f) \/ FlushExpired(f)
  PROVE  CInv'
<1>1. Core'
  BY FlushCore DEF CInv
<1>2. UNCHANGED <<stage, terminal>>
  BY DEF FlushCall, FlushSettled, FlushExpired
<1> QED
  BY <1>1, <1>2 DEF CInv, Ended

\* The invariant holds of every behaviour of the client and its callers.
THEOREM ClientInvariant == ClientSpec => []CInv
<1>1. CInv /\ [Client \/ Callers]_clientVars => CInv'
  <2> SUFFICES ASSUME CInv, [Client \/ Callers]_clientVars PROVE CInv'
    OBVIOUS
  <2>1. CASE Client
    BY <2>1, SettleStep, FlushStep DEF Client
  <2>2. CASE Callers
    BY <2>2, CallerStep
  <2>3. CASE UNCHANGED clientVars
    BY <2>3 DEF CInv, Core, Typed, Ended, Covered, Spoken, clientVars
  <2> QED
    BY <2>1, <2>2, <2>3
<1> QED
  BY <1>1, InitCInv, PTL DEF ClientSpec

-----------------------------------------------------------------------------
\* The state of the client is well typed, its tracked set never holding what
\* has settled.
THEOREM ClientTypeCorrect == ClientSpec => []ClientTypeOK
<1>1. CInv => ClientTypeOK
  BY LoudWarnings DEF CInv, Core, Typed, Spoken, ClientTypeOK
<1> QED
  BY <1>1, ClientInvariant, PTL

\* However often and in whatever order a run's success() and fail() are called,
\* at most one of the two check-ins leaves.
THEOREM RunsEndOnce == ClientSpec => []OneTerminalPerRun
<1>1. CInv => OneTerminalPerRun
  <2> SUFFICES ASSUME CInv, NEW r \in Runs
               PROVE  Cardinality({a \in Terminals : stage[<<r, a>>] # "unsent"}) <= 1
    BY DEF OneTerminalPerRun
  <2> DEFINE sent == {a \in Terminals : stage[<<r, a>>] # "unsent"}
  <2>1. sent \subseteq {terminal[r]}
    BY DEF CInv, Ended
  <2>2. IsFiniteSet({terminal[r]}) /\ Cardinality({terminal[r]}) = 1
    BY FS_Singleton
  <2> QED
    BY <2>1, <2>2, FS_Subset
<1> QED
  BY <1>1, ClientInvariant, PTL

\* A flush its budget did not cut short covers every check-in dispatched before
\* it was called.
THEOREM FlushCoversWhatCameBefore == ClientSpec => []FlushCovers
<1>1. CInv => FlushCovers
  BY DEF CInv, Core, Covered, FlushCovers
<1> QED
  BY <1>1, ClientInvariant, PTL

\* A failure no sink took is printed once for its monitor.
THEOREM EachFailureIsSaidOnce == ClientSpec => []LoudOnce
<1>1. CInv => LoudOnce
  BY DEF CInv, Core, Spoken, LoudOnce, Warnings, Subjects
<1> QED
  BY <1>1, ClientInvariant, PTL

\* A run ends once and a failure is said once, whatever is called how often.
THEOREM WhatIsSaidOnce == ClientSpec => []SaidOnce
BY ClientTypeCorrect, RunsEndOnce, EachFailureIsSaidOnce, PTL DEF SaidOnce

=============================================================================
