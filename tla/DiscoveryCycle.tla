--------------------------- MODULE DiscoveryCycle ---------------------------
(***************************************************************************)
(* One autonomous LIVE cycle after another: the batch of the universe and  *)
(* the symbols being stalked are scanned one by one, the best signals are  *)
(* claimed, evaluated and executed. Meanwhile candles close, positions are *)
(* closed, the terminal monitor pauses and resumes the stalking by what it *)
(* sees, cycles fail and the process ends. What candles show is chosen.    *)
(***************************************************************************)
EXTENDS Naturals, Sequences, FiniteSets, FiniteSetsExt, SequencesExt

CONSTANTS
    Universe,        \* the ranked symbols of a snapshot, a sequence
    BatchSize,
    TopN,            \* signals taken from a scan
    MaxPositions,    \* max_open_positions
    MaxBars,         \* candles a setup is observed
    MaxCandidates,   \* setups observed at a time
    LastCandle       \* bound: how many candles close

ASSUME UniverseAssumption ==
    /\ Universe \in Seq(ToSet(Universe)) /\ Universe # <<>> /\ BatchSize \in 1 .. Len(Universe)
    /\ MaxPositions \in Nat /\ MaxBars \in Nat \ {0} /\ LastCandle \in Nat

Markets == ToSet(Universe)
Candles == 0 .. LastCandle
Unset == [status |-> "none"]

VARIABLES
    stalked,     \* is the strategy one whose setups are stalked?
    candle,      \* the last candle that closed
    setups,      \* SetupStalkingService._setups
    paused,      \* and whether it is paused
    offset,      \* _next_offset of the universe
    cycle,       \* where the cycle is
    claims,      \* stored: opportunities claimed
    attempted,   \* how often each was evaluated
    opened,      \* open positions
    swept        \* symbols scanned in this sweep

cycleVars == <<stalked, candle, setups, paused, offset, cycle, claims, attempted, opened, swept>>

Between(how) == [at |-> "idle", ended |-> how]
Batch == {Universe[i] : i \in (offset + 1) .. Min({offset + BatchSize, Len(Universe)})}
With(st) == {s \in Markets : setups[s].status = st}

CycleInit ==
    /\ stalked \in BOOLEAN /\ candle = 0 /\ setups = [s \in Markets |-> Unset]
    /\ paused = FALSE /\ offset = 0 /\ cycle = Between("completed")
    /\ claims = {} /\ attempted = [o \in Markets \X Candles |-> 0] /\ opened = 0 /\ swept = {}

(* set_paused: what was observed is dropped.                               *)
SetPaused(p) ==
    /\ paused' = p
    /\ setups' = IF p /\ ~paused THEN [s \in Markets |-> Unset] ELSE setups

(* execute_global_report, up to the scan.                                  *)
CycleBegins ==
    /\ cycle.at = "idle"
    /\ SetPaused(opened >= MaxPositions)
    /\ cycle' = IF opened >= MaxPositions THEN Between("completed")
                ELSE [at |-> "scanning", candle |-> candle, found |-> {},
                      left |-> Batch \cup With("stalking")]
    /\ UNCHANGED <<stalked, candle, offset, claims, attempted, opened, swept>>

-----------------------------------------------------------------------------
(* The scan of a symbol.                                                   *)

(* register_candidate: the setup starts with its reversal seen or not.     *)
Registered(s, k) ==
    IF \/ setups[s].status = "triggered"
       \/ Cardinality(With("stalking")) >= MaxCandidates
    THEN {setups[s]}
    ELSE [status : {"stalking"}, bar : {0}, last : {k}, confirmed : BOOLEAN]

Observed(r, k) == [r EXCEPT !.bar = @ + 1, !.last = k]

Window(r) == IF r.bar >= MaxBars THEN [r EXCEPT !.status = "expired"] ELSE r

(* on_candle_update of a setup that is being observed, with the guards of  *)
(* a trigger: it is breached; its reversal is seen; its target is retested *)
(* and the guards let it pass or reject it; or it waits on, as it does     *)
(* when the guards are not ready.                                          *)
Advanced(r, k) ==
    LET next == Observed(r, k)
    IN  {[next EXCEPT !.status = "invalidated"], Window(next)}
        \cup {IF r.confirmed THEN [next EXCEPT !.status = "triggered"]
                             ELSE Window([next EXCEPT !.confirmed = TRUE])}

(* StrategyService.generate_signal: what may become of the symbol's setup. *)
Evaluated(s, k) ==
    IF paused \/ (setups[s] # Unset /\ k <= setups[s].last) THEN {setups[s]}
    ELSE IF setups[s].status = "stalking" THEN Advanced(setups[s], k)
    ELSE Registered(s, k) \cup {setups[s]}

Scanned(s) == cycle.left \ {s}

(* A symbol is evaluated; a trigger that the filters of the discovery      *)
(* reject is invalidated, one they let pass is a signal.                   *)
Evaluate(s) ==
    /\ cycle.at = "scanning" /\ s \in cycle.left /\ swept' = swept \cup {s}
    /\ \E r \in IF stalked THEN Evaluated(s, cycle.candle) ELSE {Unset}, passes \in BOOLEAN :
         LET signal == ~stalked \/ (r.status = "triggered" /\ r # setups[s])
         IN  /\ setups' = [setups EXCEPT ![s] = IF stalked /\ signal /\ ~passes
                                                THEN [r EXCEPT !.status = "invalidated"] ELSE r]
             /\ cycle' = [cycle EXCEPT !.left = Scanned(s),
                                       !.found = IF signal /\ passes THEN @ \cup {s} ELSE @]
    /\ UNCHANGED <<stalked, candle, paused, offset, claims, attempted, opened>>

(* It is dropped unevaluated: too few candles, an error of the strategy or,*)
(* for one that is not observed, a market that is not fit.                 *)
Drop(s) ==
    /\ cycle.at = "scanning" /\ s \in cycle.left
    /\ cycle' = [cycle EXCEPT !.left = Scanned(s)] /\ swept' = swept \cup {s}
    /\ UNCHANGED <<stalked, candle, setups, paused, offset, claims, attempted, opened>>

(* complete_batch, once the whole of it was scanned.                       *)
Completed == IF offset + BatchSize >= Len(Universe) THEN 0 ELSE offset + BatchSize

MayRank == cycle.at = "scanning" /\ cycle.left = {}

Rank ==
    /\ MayRank
    /\ offset' = Completed /\ swept' = IF Completed = 0 THEN {} ELSE swept
    /\ \E best \in kSubset(Min({TopN, Cardinality(cycle.found)}), cycle.found) :
          cycle' = [at |-> "taking", candle |-> cycle.candle, signals |-> best]
    /\ UNCHANGED <<stalked, candle, setups, paused, claims, attempted, opened>>

-----------------------------------------------------------------------------
(* The signals of a scan.                                                  *)

Opportunity(s) == <<s, cycle.candle>>
Invalidated(s) ==
    [setups EXCEPT ![s] = IF @ = Unset THEN @ ELSE [@ EXCEPT !.status = "invalidated"]]

(* No signal is left, or the governor of the requests says to wait.        *)
StopTaking ==
    /\ cycle.at = "taking" /\ cycle' = Between("completed")
    /\ UNCHANGED <<stalked, candle, setups, paused, offset, claims, attempted, opened, swept>>

(* Mutant of Claimed: what was claimed may be claimed again.               *)
ClaimedAgain(o) == TRUE

(* claim: an insert that does nothing if the row is there.                 *)
Claimed(o) == o \notin claims

Claim(s) ==
    /\ cycle.at = "taking" /\ s \in cycle.signals
    /\ claims' = claims \cup {Opportunity(s)}
    /\ cycle' = IF Claimed(Opportunity(s))
                THEN [at |-> "entering", candle |-> cycle.candle, symbol |-> s,
                      signals |-> cycle.signals \ {s}]
                ELSE [cycle EXCEPT !.signals = @ \ {s}]
    /\ attempted' = IF Claimed(Opportunity(s))
                    THEN [attempted EXCEPT ![Opportunity(s)] = @ + 1] ELSE attempted
    /\ UNCHANGED <<stalked, candle, setups, paused, offset, opened, swept>>

Taking == [at |-> "taking", candle |-> cycle.candle, signals |-> cycle.signals]

(* Mutant of Refused: the setup of a refused entry is left as it is.       *)
RefusedSilently(s) == setups

Refused(s) == Invalidated(s)

(* The risk, the intent, the quote or the entry says no; the governor ends *)
(* the cycle, and an entry that must be recovered raises.                  *)
EntryRefused ==
    /\ cycle.at = "entering" /\ setups' = Refused(cycle.symbol)
    /\ \E end \in {Taking, Between("completed"), Between("unsafe")} : cycle' = end
    /\ UNCHANGED <<stalked, candle, paused, offset, claims, attempted, opened, swept>>

EntryConsumed == [setups EXCEPT ![cycle.symbol] =
                IF @ = Unset THEN @ ELSE [@ EXCEPT !.status = "consumed"]]

(* The entry is protected and its setup consumed. If the runtime does not  *)
(* adopt the position the cycle raises; with the last place of the         *)
(* portfolio the stalking is paused and the cycle ends.                    *)
EntryExecuted ==
    /\ cycle.at = "entering" /\ opened < MaxPositions /\ opened' = opened + 1
    /\ \/ cycle' = Between("unsafe") /\ setups' = EntryConsumed /\ UNCHANGED paused
       \/ opened' < MaxPositions /\ cycle' = Taking /\ setups' = EntryConsumed /\ UNCHANGED paused
       \/ opened' >= MaxPositions /\ cycle' = Between("completed") /\ SetPaused(TRUE)
    /\ UNCHANGED <<stalked, candle, offset, claims, attempted, swept>>

-----------------------------------------------------------------------------
(* The rest of the world.                                                  *)

(* A request fails: the cycle ends where it is, to be begun anew.          *)
CycleFails ==
    /\ cycle.at # "idle" /\ cycle' = Between("failed")
    /\ UNCHANGED <<stalked, candle, setups, paused, offset, claims, attempted, opened, swept>>

(* The process ends and starts again: only claims and positions are stored.*)
CycleRestart ==
    /\ cycle' = Between("failed") /\ setups' = [s \in Markets |-> Unset]
    /\ paused' = FALSE /\ offset' = 0 /\ swept' = {}
    /\ UNCHANGED <<stalked, candle, claims, attempted, opened>>

(* collect_status: the monitor counts positions of its own, later ones or  *)
(* earlier ones.                                                           *)
MonitorPauses ==
    /\ SetPaused(~paused)
    /\ UNCHANGED <<stalked, candle, offset, cycle, claims, attempted, opened, swept>>

CandleCloses ==
    /\ candle < LastCandle /\ candle' = candle + 1
    /\ UNCHANGED <<stalked, setups, paused, offset, cycle, claims, attempted, opened, swept>>

PositionCloses ==
    /\ opened > 0 /\ opened' = opened - 1
    /\ UNCHANGED <<stalked, candle, setups, paused, offset, cycle, claims, attempted, swept>>

CycleNext ==
    \/ CycleBegins \/ Rank \/ StopTaking \/ EntryRefused \/ EntryExecuted
    \/ \E s \in Markets : Evaluate(s) \/ Drop(s) \/ Claim(s)
    \/ CycleFails \/ CycleRestart \/ MonitorPauses \/ CandleCloses \/ PositionCloses

CycleSpec == CycleInit /\ [][CycleNext]_cycleVars

-----------------------------------------------------------------------------
(* Properties.                                                             *)

CycleTypeOK ==
    /\ candle \in Candles /\ offset \in 0 .. Len(Universe) - 1 /\ opened \in 0 .. MaxPositions
    /\ claims \subseteq Markets \X Candles /\ swept \subseteq Markets
    /\ \A s \in Markets : setups[s] # Unset => setups[s].bar \in 0 .. MaxBars

(* "Replay denial": however often a candle is scanned, by cycles that were *)
(* cut or after a restart, an entry on it is attempted once.               *)
OneAttemptPerCandle == \A o \in Markets \X Candles : attempted[o] <= 1

(* What a cycle takes on it brings to an end. A setup advances by one bar  *)
(* per candle, not on the one it was seen on; one whose opportunity was    *)
(* claimed does not stay triggered, unless the cycle failed; and a batch   *)
(* is completed once it was scanned, so that no sweep passes a symbol by,  *)
(* whatever cycles failed or were skipped.                                 *)
TakenIsFinished ==
    [][/\ \A s \in Markets : setups'[s] # setups[s] /\ setups[s].status = "stalking"
             /\ setups'[s].status \in {"stalking", "triggered", "expired"}
             => setups'[s].last > setups[s].last /\ setups'[s].bar = setups[s].bar + 1
       /\ cycle.at = "entering" /\ cycle'.at # "entering" /\ cycle' # Between("failed")
             => setups'[cycle.symbol].status # "triggered"
       /\ cycle'.at = "taking" /\ cycle.at = "scanning" => Batch \subseteq swept]_cycleVars

(* "Auto-expire trigger if candle has closed and order was unexecuted":    *)
(* a trigger that no cycle took is gone when a later candle is evaluated.  *)
TriggersExpire ==
    [][\A s \in Markets : Evaluate(s) /\ ~paused /\ setups[s].status = "triggered"
          /\ cycle.candle > setups[s].last => setups'[s].status # "triggered"]_cycleVars
=============================================================================
