--------------------------- MODULE SessionSwitch ---------------------------
(***************************************************************************)
(* MarketTypeSwitchService, RuntimeRestartCoordinator and the loop of main:*)
(* the operator, or a finished operator exit, replaces the LIVE session by *)
(* one with another exchange, execution policy or strategy. A choice is    *)
(* checked, saved in the database of the session, staged, acknowledged and *)
(* committed; the runner stops and the next session begins. A process that *)
(* starts restores the choices it finds in the database it boots from.     *)
(* A database is named by the exchanges it was scoped with, one by one.    *)
(***************************************************************************)
EXTENDS Naturals, Sequences, SequencesExt

CONSTANTS
    Connectors,    \* exchanges
    FirstChoice,   \* the environment's exchange, policy and strategy
    Policies,
    NewStrategy,   \* the one strategy that may be selected
    MaxSwitches,   \* bound: sessions replaced
    MaxStarts,     \* bound: processes started
    MaxLapses      \* bound: saves and messages that fail

NotChosen == "unset"

(* In LIVE mode the settings admit two policies, the autonomous one and    *)
(* that of a single symbol.                                                *)
ASSUME ChoiceAssumption ==
    /\ FirstChoice \in [exchange : Connectors, policy : Policies, strategy : {FirstChoice.strategy}]
    /\ NotChosen \notin Connectors \cup Policies \cup {FirstChoice.strategy, NewStrategy}
    /\ \A p, q, r \in Policies : p = q \/ q = r \/ p = r

Nothing == [kind |-> NotChosen, value |-> NotChosen]
Kinds == {"exchange", "policy", "strategy"}
Switchers == {"telegram", "exit"}

VARIABLES
    saved,      \* durable: the choices in each database that has any
    boot,       \* where the session is, its and main()'s settings, its database
    runtime,    \* active, in a cycle, in in-process recovery
    holding,    \* exchanges where a position is open
    staged,     \* the coordinator's target, and whether it is committed
    switch,     \* where each switcher is, and with what
    told,       \* what the operator was last told, and in which database it is
    asked,      \* what was asked for since
    astray,     \* did a process come up with an exchange nobody was told of?
    rushed,      \* was the runtime activated while its exchange was being switched?
    spent       \* switches, starts and lapses so far

switchVars == <<saved, boot, runtime, holding, staged, switch, told, asked, astray, rushed, spent>>

Base == <<FirstChoice.exchange>>
Still == [active |-> FALSE, cycle |-> FALSE, recovering |-> FALSE]
Unstaged == [target |-> Nothing, committed |-> FALSE]
Quiet == [w \in Switchers |-> [at |-> "idle", target |-> Nothing]]
Stored(file) == IF file \in DOMAIN saved THEN saved[file] ELSE [k \in Kinds |-> NotChosen]
Or(value, other) == IF value = NotChosen THEN other ELSE value
Up == boot.at # "down"

SwitchInit ==
    /\ saved = <<>> /\ holding = {} /\ runtime = Still
    /\ boot = [at |-> "down", file |-> Base, activate |-> TRUE, main |-> FirstChoice,
               config |-> FirstChoice]
    /\ staged = Unstaged /\ switch = Quiet
    /\ told = [k \in Kinds |-> [value |-> FirstChoice[k], file |-> Base]]
    /\ asked = [k \in Kinds |-> {}] /\ astray = FALSE /\ rushed = FALSE
    /\ spent = [switches |-> 0, starts |-> 0, lapses |-> 0]

-----------------------------------------------------------------------------
(* The process.                                                            *)

(* main(), before its loop.                                                *)
Restored(file) == [k \in Kinds |-> Or(Stored(file)[k], FirstChoice[k])]

(* get_scoped_database_path scopes the path it is given.                   *)
Scoped(file, exchange) ==
    IF exchange = Last(file) THEN file ELSE Append(file, exchange)

(* _restore_runtime_settings, when the session opens its database; main()  *)
(* does not hear of the strategy it finds there.                           *)
Opened(main, file, activate) ==
    [at |-> "recovering", file |-> file, activate |-> activate, main |-> main,
     config |-> [main EXCEPT !.strategy = Or(Stored(file).strategy, @)]]

Start ==
    /\ boot.at = "down" /\ spent.starts < MaxStarts
    /\ spent' = [spent EXCEPT !.starts = @ + 1]
    /\ LET main == Restored(Base)
       IN  /\ boot' = Opened(main, Scoped(Base, main.exchange), TRUE)
           /\ astray' = (astray \/ main.exchange # told["exchange"].value)
    /\ UNCHANGED <<saved, runtime, holding, staged, switch, told, asked, rushed>>

EndOfProcess ==
    /\ Up /\ boot' = [boot EXCEPT !.at = "down"]
    /\ runtime' = Still /\ staged' = Unstaged /\ switch' = Quiet
    /\ UNCHANGED <<saved, holding, told, asked, astray, rushed, spent>>

(* Is an exchange being switched, checked or not?                          *)
Moving == \/ staged.committed /\ staged.target.kind = "exchange"
          \/ \E w \in Switchers : switch[w].at # "idle" /\ switch[w].target.kind = "exchange"
Activate == runtime' = [runtime EXCEPT !.active = TRUE, !.recovering = FALSE]
            /\ rushed' = (rushed \/ Moving)

(* The recovery at the start of a session; it may leave it paused.         *)
Recovered ==
    /\ boot.at = "recovering" /\ boot' = [boot EXCEPT !.at = "running"]
    /\ \/ boot.activate /\ Activate
       \/ UNCHANGED <<runtime, rushed>>
    /\ UNCHANGED <<saved, holding, staged, switch, told, asked, astray, spent>>

(* run_until_restart: the runner stops when its cycle is over, everything  *)
(* is closed and the committed target consumed. main() then saves it again *)
(* through a provider that is closed, which fails and is only logged.      *)
NextSession ==
    /\ boot.at = "running" /\ staged.committed /\ ~runtime.cycle
    /\ LET target == staged.target
           main   == [boot.main EXCEPT ![target.kind] = target.value]
       IN  boot' = Opened(main, Scoped(boot.file, main.exchange), target.kind \notin {"policy", "strategy"})
    /\ runtime' = Still /\ staged' = Unstaged /\ switch' = Quiet
    /\ UNCHANGED <<saved, holding, told, asked, astray, rushed, spent>>

-----------------------------------------------------------------------------
(* The runner and the venues.                                              *)

Resume ==
    /\ boot.at = "running" /\ switch["telegram"].at = "idle"
    /\ ~runtime.active /\ ~runtime.recovering /\ Activate
    /\ UNCHANGED <<saved, boot, holding, staged, switch, told, asked, astray, spent>>

Pause ==
    /\ switch["telegram"].at = "idle" /\ runtime.active
    /\ runtime' = [runtime EXCEPT !.active = FALSE]
    /\ UNCHANGED <<saved, boot, holding, staged, switch, told, asked, astray, rushed, spent>>

(* A cycle begins, ends, or fails: the runner then pauses and recovers.    *)
Cycle(next) ==
    /\ boot.at = "running"
    /\ \/ runtime.active /\ ~runtime.cycle /\ next = [runtime EXCEPT !.cycle = TRUE]
       \/ runtime.cycle /\ next = [runtime EXCEPT !.cycle = FALSE]
       \/ runtime.cycle /\ next = [Still EXCEPT !.recovering = TRUE]
    /\ runtime' = next
    /\ UNCHANGED <<saved, boot, holding, staged, switch, told, asked, astray, rushed, spent>>

RecoversInProcess ==
    /\ boot.at = "running" /\ runtime.recovering /\ Activate
    /\ UNCHANGED <<saved, boot, holding, staged, switch, told, asked, astray, spent>>

OpenPosition ==
    /\ runtime.cycle /\ holding' = holding \cup {boot.config.exchange}
    /\ UNCHANGED <<saved, boot, runtime, staged, switch, told, asked, astray, rushed, spent>>

Close(e) ==
    /\ e \in holding /\ holding' = holding \ {e}
    /\ UNCHANGED <<saved, boot, runtime, staged, switch, told, asked, astray, rushed, spent>>

-----------------------------------------------------------------------------
(* The switch.                                                             *)

Put(w, place, target) == switch' = [switch EXCEPT ![w] = [at |-> place, target |-> target]]
Lapse == spent.lapses < MaxLapses /\ spent' = [spent EXCEPT !.lapses = @ + 1]

Targets ==
    {[kind |-> "exchange", value |-> e] : e \in Connectors}
    \cup {[kind |-> "policy", value |-> p] : p \in Policies}
    \cup {[kind |-> "strategy", value |-> NewStrategy]}

Paused == ~runtime.active /\ ~runtime.cycle

(* What prepare...() checks before it first awaits. A strategy may be      *)
(* selected whatever is open or under way.                                 *)
Request(w, target) ==
    /\ Up /\ switch[w].at = "idle" /\ spent.switches < MaxSwitches
    /\ target.value # boot.config[target.kind]
    /\ w = "exit" => target.kind = "policy"
    /\ target.kind = "exchange" => Paused
    /\ Put(w, IF target.kind = "strategy" THEN "save" ELSE "positions", target)
    /\ asked' = [asked EXCEPT ![target.kind] = @ \cup {target.value}]
    /\ spent' = [spent EXCEPT !.switches = @ + 1]
    /\ UNCHANGED <<saved, boot, runtime, holding, staged, told, astray, rushed>>

(* Mutant of Flat: nobody looks.                                           *)
FlatUnseen == TRUE

Flat == boot.config.exchange \notin holding

(* The positions are read; for a policy the rest is checked after that.    *)
CheckPositions(w) ==
    /\ switch[w].at = "positions"
    /\ IF Flat /\ (switch[w].target.kind = "policy" => Paused /\ ~runtime.recovering)
       THEN Put(w, "save", switch[w].target)
       ELSE Put(w, "idle", Nothing)
    /\ UNCHANGED <<saved, boot, runtime, holding, staged, told, asked, astray, rushed, spent>>

Saved(target) ==
    saved' = [f \in DOMAIN saved \cup {boot.file} |->
                IF f = boot.file THEN [Stored(f) EXCEPT ![target.kind] = target.value] ELSE saved[f]]

(* The choice is saved, then staged; with another one staged that raises,  *)
(* and the choice stays saved.                                             *)
SaveAndStage(w) ==
    /\ switch[w].at = "save"
    /\ LET target == switch[w].target
       IN  /\ Saved(target)
           /\ IF staged.target = Nothing
              THEN staged' = [target |-> target, committed |-> FALSE] /\ Put(w, "staged", target)
              ELSE UNCHANGED staged /\ Put(w, "idle", Nothing)
    /\ UNCHANGED <<boot, runtime, holding, told, asked, astray, rushed, spent>>

SaveFails(w) ==
    /\ switch[w].at = "save" /\ Lapse /\ Put(w, "idle", Nothing)
    /\ Saved(switch[w].target) \/ UNCHANGED saved
    /\ UNCHANGED <<boot, runtime, holding, staged, told, asked, astray, rushed>>

(* The operator is told, then the target is committed.                     *)
CommitTarget(w) ==
    /\ switch[w].at = "staged" /\ Put(w, "idle", Nothing)
    /\ LET target == switch[w].target
       IN  /\ staged' = [staged EXCEPT !.committed = TRUE]
           /\ told' = [told EXCEPT ![target.kind] = [value |-> target.value, file |-> boot.file]]
           /\ asked' = [asked EXCEPT ![target.kind] = {}]
    /\ UNCHANGED <<saved, boot, runtime, holding, astray, rushed, spent>>

(* The message fails: the target stays staged, and every later one raises. *)
MessageFails ==
    /\ switch["telegram"].at = "staged" /\ Lapse /\ Put("telegram", "idle", Nothing)
    /\ UNCHANGED <<saved, boot, runtime, holding, staged, told, asked, astray, rushed>>

SwitchNext ==
    \/ Start \/ EndOfProcess \/ Recovered \/ NextSession \/ Resume \/ Pause \/ OpenPosition
    \/ RecoversInProcess \/ MessageFails
    \/ \E next \in [active : BOOLEAN, cycle : BOOLEAN, recovering : BOOLEAN] : Cycle(next)
    \/ \E e \in Connectors : Close(e)
    \/ \E w \in Switchers :
          \/ CheckPositions(w) \/ SaveAndStage(w) \/ SaveFails(w) \/ CommitTarget(w)
          \/ \E target \in Targets : Request(w, target)

SwitchSpec == SwitchInit /\ [][SwitchNext]_switchVars

-----------------------------------------------------------------------------
(* Properties.                                                             *)

Settings == [exchange : Connectors, policy : Policies, strategy : {FirstChoice.strategy, NewStrategy}]
Goals   == Targets \cup {Nothing}

(* Every variable stays in its type.                                       *)
SwitchTypeOK ==
    /\ \A f \in DOMAIN saved : \A k \in Kinds : Or(saved[f][k], FirstChoice[k]) \in {c[k] : c \in Settings}
    /\ boot.at \in {"down", "recovering", "running"} /\ {boot.main, boot.config} \subseteq Settings
    /\ boot.file \in Seq(Connectors)
    /\ runtime \in [active : BOOLEAN, cycle : BOOLEAN, recovering : BOOLEAN]
    /\ holding \subseteq Connectors /\ staged \in [target : Goals, committed : BOOLEAN]
    /\ switch \in [Switchers -> [at : {"idle", "positions", "save", "staged"}, target : Goals]]

(* Choices persist and are not lost at a restart (README.md): what the     *)
(* operator was told of is what the next process comes up with, unless     *)
(* something else was asked for since - and may be saved although it was   *)
(* refused. It fails, and no run checks it: after a change of the exchange *)
(* a choice is saved in a database no process boots from.                  *)
ChoicesSurvive ==
    [][boot.at = "down" /\ boot'.at # "down" =>
       \A k \in Kinds : boot'.config[k] \in asked[k] \cup {told[k].value}]_switchVars

(* The part that holds: of the choices saved in the database processes     *)
(* boot from.                                                              *)
BootedChoicesSurvive ==
    [][boot.at = "down" /\ boot'.at # "down" =>
       \A k \in Kinds : told[k].file = Base =>
          boot'.config[k] \in asked[k] \cup {told[k].value}]_switchVars

(* No session runs on one exchange with the positions of another's left    *)
(* open behind it - as long as nothing activates the runtime while its     *)
(* exchange is being switched, and the choices survive.                    *)
NothingLeftBehind ==
    ~rushed /\ ~astray /\ Up => holding \subseteq {boot.config.exchange}
=============================================================================
