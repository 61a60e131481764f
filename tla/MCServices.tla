----------------------------- MODULE MCServices -----------------------------
(* Seven components that keep state of their own and meet only through     *)
(* what each assumes of the others: one of them runs in each behaviour.    *)
EXTENDS SharedConnection, SchemaMigration, ExecutionAuthorization, MarketStreams, UserData,
        SessionSwitch, StopManagement

CONSTANTS
    insert, save, replace,           \* calls of the store
    bot, backfill,                   \* processes that open the file
    btc, eth, om, atom,              \* symbols
    telegram, reconciler,            \* who stops a stream
    binance, bitget,                 \* exchanges, policies and strategies
    auto, single, pinbar, pier

ThreeCalls   == {insert, save, replace}
Transactions == {save, replace}
OneOrTwo     == [c \in ThreeCalls |-> IF c \in Transactions THEN 2 ELSE 1]

TwoProcesses == {bot, backfill}
ThreeScripts == <<2, 2, 1>>
Columns      == {<<2, 1>>, <<2, 2>>}
OlderTool    == [p \in TwoProcesses |-> IF p = bot THEN 3 ELSE 2]

Contained == {<<om, atom>>}

Configured == [exchange |-> binance, policy |-> auto, strategy |-> pinbar]

VARIABLE part    \* the component that runs
parts == <<part, connectionVars, schemaVars, authorizationVars, streamVars, userVars,
           switchVars, stopVars>>

Init ==
    /\ part \in {"store", "schema", "authorization", "streams", "user", "session", "stops"}
    /\ ConnectionInit /\ SchemaInit /\ AuthorizationInit /\ StreamInit
    /\ UserInit /\ SwitchInit /\ StopInit

Next ==
    \/ /\ part = "store" /\ ConnectionNext
       /\ UNCHANGED <<part, schemaVars, authorizationVars, streamVars, userVars, switchVars, stopVars>>
    \/ /\ part = "schema" /\ SchemaNext
       /\ UNCHANGED <<part, connectionVars, authorizationVars, streamVars, userVars, switchVars, stopVars>>
    \/ /\ part = "authorization" /\ AuthorizationNext
       /\ UNCHANGED <<part, connectionVars, schemaVars, streamVars, userVars, switchVars, stopVars>>
    \/ /\ part = "streams" /\ StreamNext
       /\ UNCHANGED <<part, connectionVars, schemaVars, authorizationVars, userVars, switchVars, stopVars>>
    \/ /\ part = "user" /\ UserNext
       /\ UNCHANGED <<part, connectionVars, schemaVars, authorizationVars, streamVars, switchVars, stopVars>>
    \/ /\ part = "session" /\ SwitchNext
       /\ UNCHANGED <<part, connectionVars, schemaVars, authorizationVars, streamVars, userVars, stopVars>>
    \/ /\ part = "stops" /\ StopNext
       /\ UNCHANGED <<part, connectionVars, schemaVars, authorizationVars, streamVars, userVars, switchVars>>

(* The fairness of UserFairSpec and of StopSpec: only in its part is an    *)
(* action that StopFairness names ever enabled.                            *)
Spec == Init /\ [][Next]_parts /\ WF_userVars(part = "user" /\ Service) /\ StopFairness

(* Every variable of every component stays in its type.                    *)
ServicesTypeOK == ConnectionTypeOK /\ SchemaTypeOK /\ AuthorizationTypeOK /\ StreamTypeOK
                  /\ UserTypeOK /\ SwitchTypeOK /\ StopTypeOK

(* ReadyInTheEnd, of the component that runs.                              *)
UserDataComesBack == part = "user" => ReadyInTheEnd
=============================================================================
