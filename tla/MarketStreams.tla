--------------------------- MODULE MarketStreams ---------------------------
(***************************************************************************)
(* LiveMarketStreamService over an adapter that keeps one subscription per *)
(* topic (Bybit; Binance and Bitget differ in Announces and Within). A     *)
(* stream is a task that reads a queue; a stop cancels the task, awaits    *)
(* it, unsubscribes the symbol and only then gives up the ownership.       *)
(***************************************************************************)
EXTENDS Naturals, FiniteSets

CONSTANTS
    StreamSymbols,
    Stoppers,      \* tasks that stop streams: Telegram, the reconciliation
    Within,        \* pairs <<s, t>>: the name of s is part of the name of t
    Announces,     \* does a removed subscription end its stream?
    MaxStreams     \* bound: streams ever started

ASSUME StreamAssumption == MaxStreams \in Nat

Streams == 1 .. MaxStreams
None == 0

VARIABLES
    stream,       \* the streams started so far
    owner,        \* _owned_streams
    stopping,     \* where each stopper is, and with which stream
    collided    \* have two stops worked on one symbol at a time?

streamVars == <<stream, owner, stopping, collided>>

Resting == [step |-> "none"]
Alive(n) == stream[n].task # "done"

StreamInit ==
    /\ stream = <<>> /\ owner = [s \in StreamSymbols |-> None]
    /\ stopping = [c \in Stoppers |-> Resting] /\ collided = FALSE

(* Every caller of start looks first whether the identity is owned: that a *)
(* second start is answered with the running stream is for none of them.   *)
MayStart(s) == owner[s] = None /\ Cardinality(DOMAIN stream) < MaxStreams

StartStream(s) ==
    /\ MayStart(s)
    /\ LET n == Cardinality(DOMAIN stream) + 1
       IN  /\ stream' = [m \in 1 .. n |-> IF m < n THEN stream[m]
                            ELSE [symbol |-> s, task |-> "new", status |-> "starting",
                                  heard |-> FALSE, cancelled |-> FALSE]]
           /\ owner' = [owner EXCEPT ![s] = n]
    /\ UNCHANGED <<stopping, collided>>

(* _consume_stream: the seed price is fetched, then the topic is read; a   *)
(* task cancelled before its first step never runs.                        *)
Consume(n) ==
    /\ ~stream[n].cancelled
    /\ \/ /\ stream[n].task = "new"
          /\ stream' = [stream EXCEPT ![n].task = "seeding", ![n].status = "running"]
       \/ /\ stream[n].task = "seeding"
          /\ stream' = [stream EXCEPT ![n].task = "reading", ![n].heard = TRUE]
    /\ UNCHANGED <<owner, stopping, collided>>

(* A price that is not one, an error of the adapter, or the end marker.    *)
StreamFails(n) ==
    /\ stream[n].heard /\ ~stream[n].cancelled
    /\ stream' = [stream EXCEPT ![n].task = "done", ![n].status = "failed", ![n].heard = FALSE]
    /\ UNCHANGED <<owner, stopping, collided>>

(* Mutant of TaskCancelled: the queue of the task is kept.                 *)
TaskCancelledHeard(n) ==
    /\ stream[n].cancelled /\ Alive(n) /\ stream' = [stream EXCEPT ![n].task = "done"]
    /\ UNCHANGED <<owner, stopping, collided>>

(* The task ends, and gives its queue back.                                *)
TaskCancelled(n) ==
    /\ stream[n].cancelled /\ Alive(n)
    /\ stream' = [stream EXCEPT ![n].task = "done", ![n].heard = FALSE]
    /\ UNCHANGED <<owner, stopping, collided>>

(* stop, up to its first await.                                            *)
StopBegins(c, s) ==
    /\ stopping[c] = Resting /\ owner[s] # None
    /\ stream' = [stream EXCEPT ![owner[s]].status = "stopping",
                                ![owner[s]].cancelled = Alive(owner[s])]
    /\ stopping' = [stopping EXCEPT ![c] = [step |-> "gather", symbol |-> s, stream |-> owner[s]]]
    /\ collided' = (collided \/ \E d \in Stoppers : stopping[d] # Resting
                                                        /\ stopping[d].symbol = s)
    /\ UNCHANGED owner

(* Mutant of Gathered: the cancelled task is not awaited.                  *)
GatheredAtOnce(n) == TRUE

Gathered(n) == ~Alive(n)

(* The topics in which the symbol's name is found.                         *)
Topics(s) == {t \in StreamSymbols : t = s \/ <<s, t>> \in Within}

(* unsubscribe: subscriptions go, and with them the queues of the tasks    *)
(* that still read them; the message to the venue may take its time.       *)
StopUnsubscribes(c) ==
    /\ stopping[c].step = "gather" /\ Gathered(stopping[c].stream)
    /\ stream' = [n \in DOMAIN stream |->
          IF stream[n].heard /\ stream[n].symbol \in Topics(stopping[c].symbol)
          THEN [stream[n] EXCEPT !.heard = FALSE,
                                 !.task = IF Announces THEN "done" ELSE @,
                                 !.status = IF Announces THEN "failed" ELSE @]
          ELSE stream[n]]
    /\ stopping' = [stopping EXCEPT ![c].step = "unsubscribed"]
    /\ UNCHANGED <<owner, collided>>

(* Whatever came of it, the symbol is free again.                          *)
StopReleases(c) ==
    /\ stopping[c].step = "unsubscribed"
    /\ owner' = [owner EXCEPT ![stopping[c].symbol] = None]
    /\ stopping' = [stopping EXCEPT ![c] = Resting]
    /\ UNCHANGED <<stream, collided>>

StreamNext ==
    \/ \E s \in StreamSymbols : StartStream(s) \/ \E c \in Stoppers : StopBegins(c, s)
    \/ \E n \in DOMAIN stream : Consume(n) \/ StreamFails(n) \/ TaskCancelled(n)
    \/ \E c \in Stoppers : StopUnsubscribes(c) \/ StopReleases(c)

StreamSpec == StreamInit /\ [][StreamNext]_streamVars

-----------------------------------------------------------------------------
(* Properties.                                                             *)

StreamTypeOK ==
    /\ DOMAIN stream \subseteq Streams /\ owner \in [StreamSymbols -> {None} \cup Streams]
    /\ \A s \in StreamSymbols : owner[s] # None => stream[owner[s]].symbol = s
    /\ \A n \in DOMAIN stream : stream[n].heard => stream[n].task = "reading"
    /\ \A c \in Stoppers : stopping[c].step \in {"none", "gather", "unsubscribed"}

(* No other symbol's stop is found in the topic of this one.               *)
Apart(s) == \A r \in StreamSymbols : s \in Topics(r) => r = s

(* "The original stream remains the sole owner until an explicit stop      *)
(* releases it": a task that runs is the owned one of its symbol, and once *)
(* it reads its topic it is not left without it when no other symbol's     *)
(* name is part of its own - unless two stops of one symbol met, when the  *)
(* later one releases what was started in between.                         *)
StreamsOwned == ~collided =>
    \A n \in DOMAIN stream : Alive(n) =>
        /\ owner[stream[n].symbol] = n
        /\ stream[n].task = "reading" /\ stream[n].status = "running" /\ Apart(stream[n].symbol)
              => stream[n].heard

(* "Stop one owned ticker stream without affecting other identities": a    *)
(* stream loses its subscription by its own end or by a stop of its own    *)
(* symbol.                                                                 *)
OthersUndisturbed ==
    [][\A n \in DOMAIN stream, c \in Stoppers :
          stopping[c].step = "gather" /\ stopping'[c].step = "unsubscribed"
          /\ stream[n].symbol # stopping[c].symbol => stream'[n] = stream[n]]_streamVars
=============================================================================
