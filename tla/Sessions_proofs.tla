--------------------------- MODULE Sessions_proofs ---------------------------
(***************************************************************************)
(* The tasks and sessions that live beside the runner: a stream has one    *)
(* owner, a READY account cache is the account of the venue, and a session *)
(* leaves nothing open behind and loses no choice.                         *)
(***************************************************************************)
EXTENDS MarketStreams, UserData, SessionSwitch, Sequences, TLAPS, FiniteSetTheorems

-----------------------------------------------------------------------------
(***************************************************************************)
(* MarketStreams                                                           *)
(***************************************************************************)

Stream == [symbol : StreamSymbols, task : {"new", "seeding", "reading", "done"},
           status : {"starting", "running", "stopping", "failed"}, heard : BOOLEAN,
           cancelled : BOOLEAN]
Stopping == [step : {"gather", "unsubscribed"}, symbol : StreamSymbols, stream : 1 .. Len(stream)]

(* A stream owned or stopped under a symbol is one of that symbol.         *)
StreamShapes ==
    /\ stream \in Seq(Stream) /\ Len(stream) <= MaxStreams
    /\ owner \in [StreamSymbols -> 0 .. Len(stream)]
    /\ \A s \in StreamSymbols : owner[s] # None => stream[owner[s]].symbol = s
    /\ stopping \in [Stoppers -> {Resting} \cup Stopping]
    /\ collided \in BOOLEAN

(* Only a task that reads has its topic, and a cancelled one no longer     *)
(* counts as running.                                                      *)
Tasks == \A n \in DOMAIN stream :
    /\ stream[n].heard => stream[n].task = "reading"
    /\ stream[n].cancelled => stream[n].status # "running"

(* A stop holds what it stops until it releases it, and by then its task   *)
(* is done; every other task alive is the owned one, and reads.            *)
Held ==
    /\ \A c \in Stoppers : stopping[c] # Resting =>
          /\ owner[stopping[c].symbol] = stopping[c].stream
          /\ stopping[c].step = "unsubscribed" => ~Alive(stopping[c].stream)
    /\ \A c, d \in Stoppers : stopping[c] # Resting /\ stopping[d] # Resting
          /\ stopping[c].symbol = stopping[d].symbol => c = d
    /\ \A n \in DOMAIN stream : Alive(n) =>
          /\ owner[stream[n].symbol] = n
          /\ stream[n].task = "reading" /\ stream[n].status = "running" /\ Apart(stream[n].symbol)
                => stream[n].heard

StreamInv == StreamShapes /\ Tasks /\ (~collided => Held)

-----------------------------------------------------------------------------
LEMMA StreamInitial == StreamInit => StreamInv
<1> SUFFICES ASSUME StreamInit PROVE StreamInv
  OBVIOUS
<1>1. stream = <<>> /\ stream \in Seq(Stream) /\ Len(stream) = 0 /\ DOMAIN stream = {}
  BY DEF StreamInit
<1>2. owner \in [StreamSymbols -> 0 .. 0] /\ \A s \in StreamSymbols : owner[s] = None
  BY DEF StreamInit, None
<1>3. stopping \in [Stoppers -> {Resting}] /\ \A c \in Stoppers : stopping[c] = Resting
  BY DEF StreamInit
<1>4. collided = FALSE /\ collided \in BOOLEAN
  BY DEF StreamInit
<1>5. StreamShapes
  <2>1. owner \in [StreamSymbols -> 0 .. Len(stream)]
    BY <1>1, <1>2
  <2>2. stopping \in [Stoppers -> {Resting} \cup Stopping]
    BY <1>3
  <2> QED
    BY <1>1, <1>2, <1>4, <2>1, <2>2, StreamAssumption DEF StreamShapes
<1> QED
  BY <1>1, <1>3, <1>5 DEF StreamInv, Tasks, Held

LEMMA Numbering ==
    ASSUME StreamShapes
    PROVE  /\ Len(stream) \in Nat /\ DOMAIN stream = 1 .. Len(stream)
           /\ Cardinality(DOMAIN stream) = Len(stream)
           /\ \A n \in DOMAIN stream : stream[n] \in Stream
<1>1. Len(stream) \in Nat /\ DOMAIN stream = 1 .. Len(stream)
  BY DEF StreamShapes
<1>2. Cardinality(1 .. Len(stream)) = Len(stream)
  <2>1. Cardinality(1 .. Len(stream)) = IF 1 > Len(stream) THEN 0 ELSE Len(stream) - 1 + 1
    <3>1. 1 \in Int /\ Len(stream) \in Int
      BY <1>1
    <3> QED
      BY <3>1, FS_Interval, Zenon
  <2> QED
    BY <1>1, <2>1
<1> QED
  BY <1>1, <1>2 DEF StreamShapes

(* A stream changes, and nothing else does.                                *)
LEMMA OneStream ==
    ASSUME StreamInv, NEW n \in DOMAIN stream, NEW r \in Stream,
           stream' = [stream EXCEPT ![n] = r], UNCHANGED <<owner, stopping, collided>>,
           r.symbol = stream[n].symbol,
           r.heard => r.task = "reading", r.cancelled => r.status # "running",
           r.task # "done" => Alive(n),
           r.task = "reading" /\ r.status = "running" => r.heard
    PROVE  StreamInv'
<1>1. DOMAIN stream = 1 .. Len(stream) /\ Len(stream) \in Nat /\ StreamShapes
  BY Numbering DEF StreamInv
<1>2. stream' \in Seq(Stream) /\ Len(stream') = Len(stream) /\ DOMAIN stream' = DOMAIN stream
  BY <1>1 DEF StreamShapes
<1>3. \A m \in DOMAIN stream : stream'[m] = IF m = n THEN r ELSE stream[m]
  BY <1>1
<1>4. \A m \in DOMAIN stream : stream'[m].symbol = stream[m].symbol /\ (Alive(m)' => Alive(m))
  BY <1>3 DEF Alive
<1>5. StreamShapes'
  BY <1>1, <1>2, <1>4 DEF StreamShapes, Stopping, None
<1>6. Tasks'
  BY <1>2, <1>3 DEF StreamInv, Tasks
<1>7. ASSUME Held PROVE Held'
  <2>1. \A c \in Stoppers : stopping[c] # Resting => stopping[c].stream \in DOMAIN stream
    BY <1>1 DEF StreamShapes, Stopping
  <2>2. \A m \in DOMAIN stream : Alive(m)' =>
          /\ owner[stream'[m].symbol] = m
          /\ stream'[m].task = "reading" /\ stream'[m].status = "running" /\ Apart(stream'[m].symbol)
                => stream'[m].heard
    BY <1>3, <1>4, <1>7 DEF Held
  <2> QED
    BY <1>2, <1>4, <1>7, <2>1, <2>2 DEF Held
<1> QED
  BY <1>5, <1>6, <1>7 DEF StreamInv

LEMMA StartKeeps == ASSUME StreamInv, NEW s \in StreamSymbols, StartStream(s) PROVE StreamInv'
<1> DEFINE n == Len(stream) + 1
           new == [symbol |-> s, task |-> "new", status |-> "starting", heard |-> FALSE,
                   cancelled |-> FALSE]
<1>1. /\ DOMAIN stream = 1 .. Len(stream) /\ Len(stream) \in Nat /\ StreamShapes
      /\ Cardinality(DOMAIN stream) = Len(stream) /\ \A m \in DOMAIN stream : stream[m] \in Stream
  BY Numbering DEF StreamInv
<1>2. /\ owner[s] = None /\ Len(stream) < MaxStreams
      /\ stream' = [m \in 1 .. n |-> IF m < n THEN stream[m] ELSE new]
      /\ owner' = [owner EXCEPT ![s] = n] /\ UNCHANGED <<stopping, collided>>
  BY <1>1 DEF StartStream, MayStart
<1>3. new \in Stream
  BY DEF Stream
<1>4. /\ stream' \in Seq(Stream) /\ Len(stream') = n /\ DOMAIN stream' = 1 .. n
      /\ stream'[n] = new /\ \A m \in 1 .. Len(stream) : stream'[m] = stream[m]
  <2> HIDE DEF new
  <2>1. stream' \in [1 .. n -> Stream] /\ n \in Nat
    BY <1>1, <1>2, <1>3
  <2> QED
    BY <1>1, <1>2, <2>1
<1>5. /\ new.symbol = s /\ ~new.heard /\ ~new.cancelled /\ new.task = "new"
  OBVIOUS
<1> HIDE DEF new
<1>6. \A m \in 1 .. n : m \in 1 .. Len(stream) \/ m = n
  BY <1>1
<1>7. StreamShapes'
  <2>1. owner' \in [StreamSymbols -> 0 .. n]
    BY <1>1, <1>2 DEF StreamShapes
  <2>2. \A t \in StreamSymbols : owner'[t] # None => stream'[owner'[t]].symbol = t
    BY <1>1, <1>2, <1>4, <1>5 DEF StreamShapes, None
  <2>3. stopping' \in [Stoppers -> {Resting} \cup Stopping']
    <3>1. Stopping \subseteq Stopping'
      BY <1>1, <1>4 DEF Stopping
    <3> QED
      BY <1>1, <1>2, <3>1 DEF StreamShapes
  <2> QED
    BY <1>1, <1>2, <1>4, <2>1, <2>2, <2>3, StreamAssumption DEF StreamShapes
<1>8. Tasks'
  BY <1>1, <1>4, <1>5, <1>6 DEF StreamInv, Tasks
<1>9. ASSUME Held PROVE Held'
  <2>1. \A c \in Stoppers : stopping[c] # Resting =>
          /\ stopping[c].stream \in 1 .. Len(stream) /\ stopping[c].symbol # s
    BY <1>1, <1>2, <1>9 DEF Held, StreamShapes, Stopping, None
  <2>2. \A m \in 1 .. Len(stream) : Alive(m)' <=> Alive(m)
    BY <1>4 DEF Alive
  <2>3. \A m \in 1 .. Len(stream) : Alive(m) => stream[m].symbol # s
    BY <1>1, <1>2, <1>9 DEF Held, None
  <2>4. \A m \in 1 .. n : Alive(m)' =>
          /\ owner'[stream'[m].symbol] = m
          /\ stream'[m].task = "reading" /\ stream'[m].status = "running" /\ Apart(stream'[m].symbol)
                => stream'[m].heard
    <3>1. ASSUME NEW m \in 1 .. Len(stream), Alive(m)'
          PROVE  /\ owner'[stream'[m].symbol] = m
                 /\ stream'[m].task = "reading" /\ stream'[m].status = "running" /\ Apart(stream'[m].symbol)
                       => stream'[m].heard
      <4>1. m \in DOMAIN stream /\ Alive(m) /\ stream'[m] = stream[m]
        BY <1>1, <1>4, <2>2, <3>1
      <4>2. stream[m].symbol # s /\ stream[m].symbol \in StreamSymbols
        BY <1>1, <2>3, <4>1 DEF Stream
      <4>3. owner'[stream[m].symbol] = owner[stream[m].symbol]
        BY <1>1, <1>2, <4>2 DEF StreamShapes
      <4> QED
        BY <1>9, <4>1, <4>3 DEF Held
    <3>2. owner'[stream'[n].symbol] = n /\ stream'[n].task # "reading"
      BY <1>1, <1>2, <1>4, <1>5 DEF StreamShapes
    <3> QED
      BY <1>6, <3>1, <3>2
  <2>5. \A c \in Stoppers : stopping[c] # Resting =>
          /\ owner'[stopping[c].symbol] = stopping[c].stream
          /\ stopping[c].step = "unsubscribed" => ~Alive(stopping[c].stream)'
    <3>1. \A c \in Stoppers : stopping[c] # Resting => stopping[c].symbol \in StreamSymbols
      BY <1>1 DEF StreamShapes, Stopping
    <3> QED
      BY <1>1, <1>2, <1>9, <2>1, <2>2, <3>1 DEF Held, StreamShapes
  <2> QED
    BY <1>2, <1>4, <1>9, <2>4, <2>5 DEF Held
<1> QED
  BY <1>2, <1>7, <1>8, <1>9 DEF StreamInv

LEMMA ConsumeKeeps ==
    ASSUME StreamInv, NEW n \in DOMAIN stream, Consume(n) \/ StreamFails(n) \/ TaskCancelled(n)
    PROVE  StreamInv'
<1>1. stream[n] \in Stream /\ stream \in Seq(Stream)
  BY Numbering DEF StreamInv, StreamShapes
<1>2. UNCHANGED <<owner, stopping, collided>>
  BY DEF Consume, StreamFails, TaskCancelled
<1>3. CASE Consume(n)
  <2>1. CASE stream[n].task = "new" /\ stream' = [stream EXCEPT ![n].task = "seeding", ![n].status = "running"]
    <3> DEFINE r == [stream[n] EXCEPT !.task = "seeding", !.status = "running"]
    <3>1. r \in Stream /\ r.symbol = stream[n].symbol /\ r.heard = stream[n].heard
          /\ r.cancelled = stream[n].cancelled /\ r.task = "seeding" /\ r.status = "running"
      BY <1>1 DEF Stream
    <3>2. stream' = [stream EXCEPT ![n] = r]
      BY <2>1
    <3>3. ~stream[n].cancelled /\ ~stream[n].heard /\ Alive(n)
      BY <1>3, <2>1 DEF Consume, StreamInv, Tasks, Alive
    <3> HIDE DEF r
    <3> QED
      BY <1>2, <3>1, <3>2, <3>3, OneStream
  <2>2. CASE stream[n].task = "seeding" /\ stream' = [stream EXCEPT ![n].task = "reading", ![n].heard = TRUE]
    <3> DEFINE r == [stream[n] EXCEPT !.task = "reading", !.heard = TRUE]
    <3>1. r \in Stream /\ r.symbol = stream[n].symbol /\ r.status = stream[n].status
          /\ r.cancelled = stream[n].cancelled /\ r.task = "reading" /\ r.heard = TRUE
      BY <1>1 DEF Stream
    <3>2. stream' = [stream EXCEPT ![n] = r]
      BY <2>2
    <3>3. ~stream[n].cancelled /\ Alive(n)
      BY <1>3, <2>2 DEF Consume, Alive
    <3> HIDE DEF r
    <3> QED
      BY <1>2, <3>1, <3>2, <3>3, OneStream
  <2> QED
    BY <1>3, <2>1, <2>2 DEF Consume
<1>4. CASE StreamFails(n)
  <2> DEFINE r == [stream[n] EXCEPT !.task = "done", !.status = "failed", !.heard = FALSE]
  <2>1. r \in Stream /\ r.symbol = stream[n].symbol /\ ~r.heard /\ r.task = "done" /\ r.status = "failed"
    BY <1>1 DEF Stream
  <2>2. stream' = [stream EXCEPT ![n] = r]
    BY <1>4 DEF StreamFails
  <2> HIDE DEF r
  <2> QED
    BY <1>2, <2>1, <2>2, OneStream
<1>5. CASE TaskCancelled(n)
  <2> DEFINE r == [stream[n] EXCEPT !.task = "done", !.heard = FALSE]
  <2>1. r \in Stream /\ r.symbol = stream[n].symbol /\ ~r.heard /\ r.task = "done"
        /\ r.status = stream[n].status /\ r.cancelled = stream[n].cancelled
    BY <1>1 DEF Stream
  <2>2. stream' = [stream EXCEPT ![n] = r]
    BY <1>5 DEF TaskCancelled
  <2>3. stream[n].cancelled => stream[n].status # "running"
    BY DEF StreamInv, Tasks
  <2> HIDE DEF r
  <2> QED
    BY <1>2, <2>1, <2>2, <2>3, OneStream
<1> QED
  BY <1>3, <1>4, <1>5

LEMMA StopBeginsKeeps ==
    ASSUME StreamInv, NEW c \in Stoppers, NEW s \in StreamSymbols, StopBegins(c, s)
    PROVE  StreamInv'
<1> DEFINE n == owner[s]
           r == [stream[n] EXCEPT !.status = "stopping", !.cancelled = Alive(n)]
           stop == [step |-> "gather", symbol |-> s, stream |-> n]
<1>1. /\ StreamShapes /\ Tasks /\ DOMAIN stream = 1 .. Len(stream) /\ Len(stream) \in Nat
      /\ \A m \in DOMAIN stream : stream[m] \in Stream
  BY Numbering DEF StreamInv
<1>2. n \in DOMAIN stream /\ stream[n].symbol = s /\ stopping[c] = Resting /\ UNCHANGED owner
  BY <1>1 DEF StopBegins, StreamShapes, None
<1>3. r \in Stream /\ r.symbol = s /\ r.task = stream[n].task /\ r.heard = stream[n].heard
      /\ r.status = "stopping"
  <2>1. Alive(n) \in BOOLEAN /\ stream[n] \in Stream
    BY <1>1, <1>2 DEF Alive
  <2> HIDE DEF n
  <2> QED
    BY <1>2, <2>1 DEF Stream, n
<1>4. stream' = [stream EXCEPT ![n] = r]
  BY DEF StopBegins
<1>5. stopping' = [stopping EXCEPT ![c] = stop]
  BY DEF StopBegins
<1>6. collided' = (collided \/ \E d \in Stoppers : stopping[d] # Resting /\ stopping[d].symbol = s)
  BY DEF StopBegins
<1> HIDE DEF r
<1>7. /\ stream' \in Seq(Stream) /\ Len(stream') = Len(stream) /\ DOMAIN stream' = DOMAIN stream
      /\ \A m \in DOMAIN stream : stream'[m] = IF m = n THEN r ELSE stream[m]
  BY <1>1, <1>2, <1>3, <1>4 DEF StreamShapes
<1>8. stop \in Stopping /\ stop # Resting /\ stop.symbol = s /\ stop.stream = n /\ stop.step = "gather"
  BY <1>1, <1>2 DEF Stopping, Resting
<1> HIDE DEF stop, n
<1>9. \A m \in DOMAIN stream : stream'[m].symbol = stream[m].symbol /\ (Alive(m)' <=> Alive(m))
  BY <1>2, <1>3, <1>7 DEF Alive
<1>10. \A d \in Stoppers : stopping'[d] = IF d = c THEN stop ELSE stopping[d]
  BY <1>1, <1>5 DEF StreamShapes
<1>11. StreamShapes'
  <2>1. Stopping' = Stopping
    BY <1>7 DEF Stopping
  <2>2. collided' \in BOOLEAN
    BY <1>1, <1>6 DEF StreamShapes
  <2>3. stopping' \in [Stoppers -> {Resting} \cup Stopping]
    BY <1>1, <1>5, <1>8 DEF StreamShapes
  <2>4. \A t \in StreamSymbols : owner[t] # None => owner[t] \in DOMAIN stream
    BY <1>1 DEF StreamShapes, None
  <2> QED
    BY <1>1, <1>2, <1>7, <1>9, <2>1, <2>2, <2>3, <2>4 DEF StreamShapes
<1>12. Tasks'
  BY <1>1, <1>2, <1>3, <1>7 DEF Tasks
<1>13. ASSUME ~collided' PROVE Held'
  <2>1. Held /\ \A d \in Stoppers : stopping[d] # Resting => stopping[d].symbol # s
    BY <1>6, <1>13 DEF StreamInv
  <2>2. \A d \in Stoppers : stopping[d] # Resting => stopping[d].stream \in DOMAIN stream
    BY <1>1 DEF StreamShapes, Stopping
  <2>3. (\A d \in Stoppers : stopping[d] # Resting =>
           /\ owner[stopping[d].symbol] = stopping[d].stream
           /\ stopping[d].step = "unsubscribed" => ~Alive(stopping[d].stream))'
    <3>1. ASSUME NEW d \in Stoppers, stopping'[d] # Resting
          PROVE  /\ owner'[stopping'[d].symbol] = stopping'[d].stream
                 /\ stopping'[d].step = "unsubscribed" => ~(Alive(stopping[d].stream)')
      <4>1. CASE d = c
        BY <1>2, <1>8, <1>10, <4>1 DEF n
      <4>2. CASE d # c
        <5>1. stopping'[d] = stopping[d] /\ stopping[d].stream \in DOMAIN stream
          BY <1>10, <2>2, <3>1, <4>2
        <5> QED
          BY <1>2, <1>9, <2>1, <3>1, <5>1 DEF Held, Alive
      <4> QED
        BY <4>1, <4>2
    <3> QED
      BY <3>1
  <2>4. \A d, e \in Stoppers : stopping'[d] # Resting /\ stopping'[e] # Resting
          /\ stopping'[d].symbol = stopping'[e].symbol => d = e
    BY <1>8, <1>10, <2>1 DEF Held
  <2>5. \A m \in DOMAIN stream : Alive(m)' =>
          /\ owner[stream'[m].symbol] = m
          /\ stream'[m].task = "reading" /\ stream'[m].status = "running" /\ Apart(stream'[m].symbol)
                => stream'[m].heard
    BY <1>3, <1>7, <1>9, <2>1 DEF Held
  <2> QED
    BY <1>2, <1>7, <2>3, <2>4, <2>5 DEF Held, Alive
<1> QED
  BY <1>11, <1>12, <1>13 DEF StreamInv

(* While no stops met, an unsubscription wakes no task, and takes the      *)
(* topic of none whose name it shares with no other symbol.                *)
LEMMA UnsubscribesOwn ==
    ASSUME StreamInv, ~collided, NEW c \in Stoppers, StopUnsubscribes(c),
           NEW n \in DOMAIN stream
    PROVE  /\ Alive(n)' => Alive(n) /\ stream'[n].task = stream[n].task
                                   /\ stream'[n].status = stream[n].status
           /\ Apart(stream[n].symbol) => stream'[n].heard = stream[n].heard
<1>1. /\ StreamShapes /\ Tasks /\ Held /\ stream[n] \in Stream
  BY Numbering DEF StreamInv
<1>2. stopping[c] # Resting /\ stopping[c] \in Stopping
  <2>1. stopping[c].step = "gather"
    BY DEF StopUnsubscribes
  <2> QED
    BY <1>1, <2>1 DEF StreamShapes, Resting
<1>3. stopping[c].symbol \in StreamSymbols /\ ~Alive(stopping[c].stream)
      /\ owner[stopping[c].symbol] = stopping[c].stream
  BY <1>1, <1>2 DEF StopUnsubscribes, Gathered, Held, Stopping
<1>4. ASSUME stream[n].heard, Apart(stream[n].symbol)
      PROVE  stream[n].symbol \notin Topics(stopping[c].symbol)
  <2>1. Alive(n) /\ owner[stream[n].symbol] = n
    BY <1>1, <1>4 DEF Tasks, Held, Alive
  <2>2. stream[n].symbol # stopping[c].symbol
    BY <1>3, <2>1
  <2> QED
    BY <1>3, <1>4, <2>2 DEF Apart
<1>5. \/ stream'[n] = stream[n]
      \/ /\ stream[n].heard /\ stream[n].symbol \in Topics(stopping[c].symbol)
         /\ \/ stream'[n] = [stream[n] EXCEPT !.heard = FALSE, !.task = "done", !.status = "failed"]
            \/ stream'[n] = [stream[n] EXCEPT !.heard = FALSE, !.task = stream[n].task,
                                              !.status = stream[n].status]
  BY DEF StopUnsubscribes
<1> QED
  BY <1>1, <1>4, <1>5 DEF Alive, Stream

LEMMA UnsubscribesKeeps ==
    ASSUME StreamInv, NEW c \in Stoppers, StopUnsubscribes(c)
    PROVE  StreamInv'
<1>1. /\ StreamShapes /\ Tasks /\ DOMAIN stream = 1 .. Len(stream) /\ Len(stream) \in Nat
      /\ \A n \in DOMAIN stream : stream[n] \in Stream
  BY Numbering DEF StreamInv
<1>2. stopping[c] # Resting /\ stopping[c] \in Stopping
  <2>1. stopping[c].step = "gather"
    BY DEF StopUnsubscribes
  <2> QED
    BY <1>1, <2>1 DEF StreamShapes, Resting
<1> DEFINE q == [stopping[c] EXCEPT !.step = "unsubscribed"]
<1>3. /\ stopping' = [stopping EXCEPT ![c] = q] /\ UNCHANGED <<owner, collided>>
      /\ ~Alive(stopping[c].stream)
  BY DEF StopUnsubscribes, Gathered
<1>4. q \in Stopping /\ q # Resting /\ q.symbol = stopping[c].symbol
      /\ q.stream = stopping[c].stream /\ q.step = "unsubscribed"
  BY <1>2 DEF Stopping, Resting
<1> HIDE DEF q
<1>5. \A d \in Stoppers : stopping'[d] = IF d = c THEN q ELSE stopping[d]
  BY <1>1, <1>3 DEF StreamShapes
<1>6. \A n \in DOMAIN stream :
        /\ stream'[n] \in Stream /\ stream'[n].symbol = stream[n].symbol
        /\ stream'[n].heard => stream'[n] = stream[n]
        /\ stream'[n].cancelled => stream'[n].status # "running"
  <2> SUFFICES ASSUME NEW n \in DOMAIN stream
               PROVE  /\ stream'[n] \in Stream /\ stream'[n].symbol = stream[n].symbol
                      /\ stream'[n].heard => stream'[n] = stream[n]
                      /\ stream'[n].cancelled => stream'[n].status # "running"
    OBVIOUS
  <2>1. \/ stream'[n] = stream[n]
        \/ stream'[n] = [stream[n] EXCEPT !.heard = FALSE, !.task = "done", !.status = "failed"]
        \/ stream'[n] = [stream[n] EXCEPT !.heard = FALSE, !.task = stream[n].task,
                                          !.status = stream[n].status]
    BY DEF StopUnsubscribes
  <2>2. stream[n] \in Stream /\ (stream[n].cancelled => stream[n].status # "running")
    BY <1>1 DEF Tasks
  <2> QED
    BY <2>1, <2>2 DEF Stream
<1>7. stream' \in Seq(Stream) /\ Len(stream') = Len(stream) /\ DOMAIN stream' = DOMAIN stream
  <2>1. DOMAIN stream' = DOMAIN stream /\ stream' = [n \in DOMAIN stream |-> stream'[n]]
    BY DEF StopUnsubscribes
  <2>2. stream' \in [1 .. Len(stream) -> Stream]
    BY <1>1, <1>6, <2>1
  <2> QED
    BY <1>1, <2>1, <2>2
<1>8. StreamShapes'
  <2>1. Stopping' = Stopping
    BY <1>7 DEF Stopping
  <2>2. stopping' \in [Stoppers -> {Resting} \cup Stopping]
    BY <1>1, <1>3, <1>4 DEF StreamShapes
  <2>3. \A t \in StreamSymbols : owner[t] # None => owner[t] \in DOMAIN stream
    BY <1>1 DEF StreamShapes, None
  <2> QED
    BY <1>1, <1>3, <1>6, <1>7, <2>1, <2>2, <2>3 DEF StreamShapes
<1>9. Tasks'
  BY <1>1, <1>6, <1>7 DEF Tasks
<1>10. ASSUME ~collided PROVE Held'
  <2>1. Held /\ UNCHANGED owner
    BY <1>3, <1>10 DEF StreamInv
  <2>2. \A n \in DOMAIN stream :
          /\ Alive(n)' => Alive(n) /\ stream'[n].task = stream[n].task
                                  /\ stream'[n].status = stream[n].status
          /\ Apart(stream[n].symbol) => stream'[n].heard = stream[n].heard
    BY <1>10, UnsubscribesOwn
  <2>3. ASSUME NEW d \in Stoppers, stopping'[d] # Resting
        PROVE  /\ owner[stopping'[d].symbol] = stopping'[d].stream
               /\ stopping'[d].step = "unsubscribed" => stream'[stopping'[d].stream].task = "done"
    <3>1. stopping[d] # Resting /\ stopping'[d].symbol = stopping[d].symbol
          /\ stopping'[d].stream = stopping[d].stream
      BY <1>2, <1>4, <1>5, <2>3
    <3>2. stopping[d].stream \in DOMAIN stream
      BY <1>1, <3>1 DEF StreamShapes, Stopping
    <3>3. stopping'[d].step = "unsubscribed" => ~Alive(stopping[d].stream)
      BY <1>3, <1>5, <2>1, <2>3, <3>1 DEF Held
    <3>4. Alive(stopping[d].stream)' => Alive(stopping[d].stream)
      BY <2>2, <3>1, <3>2 DEF Alive
    <3> QED
      BY <2>1, <3>1, <3>3, <3>4 DEF Held, Alive
  <2>4. ASSUME NEW d \in Stoppers, NEW e \in Stoppers, stopping'[d] # Resting, stopping'[e] # Resting,
               stopping'[d].symbol = stopping'[e].symbol
        PROVE  d = e
    BY <1>2, <1>4, <1>5, <2>1, <2>4 DEF Held
  <2>5. (\A n \in DOMAIN stream : Alive(n) =>
          /\ owner[stream[n].symbol] = n
          /\ stream[n].task = "reading" /\ stream[n].status = "running" /\ Apart(stream[n].symbol)
                => stream[n].heard)'
    BY <1>6, <1>7, <2>1, <2>2 DEF Held, Apart
  <2> QED
    BY <2>1, <2>3, <2>4, <2>5 DEF Held, Alive
<1> QED
  BY <1>3, <1>8, <1>9, <1>10 DEF StreamInv

LEMMA ReleasesKeeps ==
    ASSUME StreamInv, NEW c \in Stoppers, StopReleases(c) PROVE StreamInv'
<1>1. /\ StreamShapes /\ Tasks /\ DOMAIN stream = 1 .. Len(stream) /\ Len(stream) \in Nat
      /\ \A n \in DOMAIN stream : stream[n] \in Stream
  BY Numbering DEF StreamInv
<1>2. stopping[c] # Resting /\ stopping[c] \in Stopping /\ stopping[c].step = "unsubscribed"
  BY <1>1 DEF StopReleases, StreamShapes, Resting
<1> DEFINE s == stopping[c].symbol
<1>3. s \in StreamSymbols
  BY <1>2 DEF Stopping
<1>4. /\ owner' = [owner EXCEPT ![s] = None] /\ stopping' = [stopping EXCEPT ![c] = Resting]
      /\ UNCHANGED <<stream, collided>>
  BY DEF StopReleases
<1> HIDE DEF s
<1>5. StreamShapes'
  <2>1. owner' \in [StreamSymbols -> 0 .. Len(stream)]
    BY <1>1, <1>3, <1>4 DEF StreamShapes, None
  <2>2. Stopping' = Stopping
    BY <1>4 DEF Stopping
  <2> QED
    BY <1>1, <1>3, <1>4, <2>1, <2>2 DEF StreamShapes
<1>6. Tasks'
  BY <1>1, <1>4 DEF Tasks
<1>7. ASSUME Held PROVE Held'
  <2>1. \A d \in Stoppers : stopping'[d] # Resting =>
          d # c /\ stopping'[d] = stopping[d] /\ stopping[d].symbol # s
               /\ stopping[d].symbol \in StreamSymbols
    BY <1>1, <1>2, <1>4, <1>7 DEF Held, StreamShapes, s, Stopping
  <2>2. \A n \in DOMAIN stream : Alive(n) => stream[n].symbol # s
    BY <1>2, <1>7 DEF Held, s
  <2>3. \A t \in StreamSymbols : t # s => owner'[t] = owner[t]
    BY <1>1, <1>4 DEF StreamShapes
  <2>4. \A d \in Stoppers : stopping'[d] # Resting =>
          /\ owner'[stopping'[d].symbol] = stopping'[d].stream
          /\ stopping'[d].step = "unsubscribed" => stream[stopping'[d].stream].task = "done"
    BY <1>7, <2>1, <2>3 DEF Held, Alive
  <2>5. \A d, e \in Stoppers : stopping'[d] # Resting /\ stopping'[e] # Resting
          /\ stopping'[d].symbol = stopping'[e].symbol => d = e
    BY <1>7, <2>1 DEF Held
  <2>6. \A n \in DOMAIN stream : Alive(n) => owner'[stream[n].symbol] = n
    BY <1>1, <1>7, <2>2, <2>3 DEF Held, Stream
  <2>7. (\A n \in DOMAIN stream : Alive(n) =>
          /\ owner[stream[n].symbol] = n
          /\ stream[n].task = "reading" /\ stream[n].status = "running" /\ Apart(stream[n].symbol)
                => stream[n].heard)'
    BY <1>4, <1>7, <2>6 DEF Held, Alive
  <2> QED
    BY <1>4, <2>4, <2>5, <2>7 DEF Held, Alive
<1> QED
  BY <1>4, <1>5, <1>6, <1>7 DEF StreamInv

LEMMA StreamStep == StreamInv /\ [StreamNext]_streamVars => StreamInv'
<1>1. ASSUME StreamInv, UNCHANGED streamVars PROVE StreamInv'
  BY <1>1 DEF streamVars, StreamInv, StreamShapes, Stopping, Tasks, Held, Alive
<1> QED
  BY <1>1, StartKeeps, ConsumeKeeps, StopBeginsKeeps, UnsubscribesKeeps, ReleasesKeeps DEF StreamNext

(* Streams stay in their type, and what is owned is of its symbol.         *)
THEOREM StreamsTyped == StreamSpec => []StreamTypeOK
<1>1. StreamInv => StreamTypeOK
  <2> SUFFICES ASSUME StreamInv PROVE StreamTypeOK
    OBVIOUS
  <2>1. StreamShapes /\ Tasks /\ DOMAIN stream = 1 .. Len(stream) /\ Len(stream) \in Nat
    BY Numbering DEF StreamInv
  <2>2. Len(stream) <= MaxStreams /\ MaxStreams \in Nat
    BY <2>1, StreamAssumption DEF StreamShapes
  <2>3. owner \in [StreamSymbols -> {None} \cup Streams] /\ DOMAIN stream \subseteq Streams
    BY <2>1, <2>2 DEF StreamShapes, Streams, None
  <2>4. \A c \in Stoppers : stopping[c].step \in {"none", "gather", "unsubscribed"}
    BY <2>1 DEF StreamShapes, Stopping, Resting
  <2> QED
    BY <2>1, <2>3, <2>4 DEF StreamShapes, Tasks, StreamTypeOK
<1> QED
  BY <1>1, StreamInitial, StreamStep, PTL DEF StreamSpec

(* StreamsOwned, for any symbols, stoppers and adapters: also where the    *)
(* name of one symbol is part of the name of another.                      *)
THEOREM OwnerIsSole == StreamSpec => []StreamsOwned
<1>1. StreamInv => StreamsOwned
  BY DEF StreamInv, Held, StreamsOwned
<1> QED
  BY <1>1, StreamInitial, StreamStep, PTL DEF StreamSpec

-----------------------------------------------------------------------------
(***************************************************************************)
(* UserData                                                                *)
(***************************************************************************)

Account == [balance : Int, position : {0, 1}, profit : -1 .. 1, version : Nat]
Event   == [balance : Int, position : {0, 1}, profit : -1 .. 1, version : Nat, traded : BOOLEAN]
Cache   == [balance : Int, position : {0, 1}, profit : -1 .. 1, seeded : {0, 1}]
Session == {Down, [at |-> "failed"]}
           \cup [at : {"account"}, why : {"connect", "reseed"}]
           \cup [at : {"positions"}, why : {"connect", "reseed"}, balance : Int, version : Nat]
           \cup [at : {"consuming"}, version : Nat]

UserShapes ==
    /\ account \in Account /\ peak \in Int /\ buffer \in Seq(Event) /\ session \in Session
    /\ cached \in Cache /\ status \in {"starting", "retrying", "ready", "resyncing"}
    /\ mark \in Nat /\ mixed \in BOOLEAN

(* A change moves the balance by one at the most, and a position was       *)
(* opened by one: what was read, announced or cached is within it.         *)
Earned(b, p) == b <= StartBalance + account.version /\ (p = 1 => account.version >= 1)

Bounded ==
    /\ account.version <= MaxChanges /\ mark <= StartBalance + 2 * MaxChanges
    /\ Earned(account.balance, account.position) /\ Earned(cached.balance, cached.position)
    /\ (session.at = "positions" => Earned(session.balance, 0))
    /\ \A i \in DOMAIN buffer : Earned(buffer[i].balance, buffer[i].position)

(* Every equity that was announced was one the account had.                *)
Reached ==
    /\ account.position = 0 => account.profit = 0
    /\ Equity(account) <= peak /\ \A i \in DOMAIN buffer : Equity(buffer[i]) <= peak
    /\ ~mixed => mark <= peak

(* What is announced while a session is open is contiguous up to now, and  *)
(* an event with no trade after it tells the position there is.            *)
Untraded(i) == \A j \in i .. Len(buffer) : ~buffer[j].traded
Announced == session # Down =>
    /\ \A i \in 1 .. Len(buffer) : /\ buffer[i].version = account.version - Len(buffer) + i
                                   /\ Untraded(i + 1) => buffer[i].position = account.position
    /\ \A i \in 1 .. Len(buffer) - 1 :
          ~buffer[i + 1].traded => buffer[i + 1].position = buffer[i].position
    /\ buffer # <<>> => buffer[Len(buffer)].balance = account.balance

(* What was read is what the account is, but for what is still to apply.   *)
Read ==
    /\ session.at = "positions" =>
          /\ session.version <= account.version
          /\ buffer = <<>> \/ session.version = account.version
                => session.balance = account.balance
    /\ session.at = "consuming" =>
          /\ cached.seeded = cached.position
          /\ buffer = <<>> => cached.balance = account.balance
          /\ Untraded(1) => cached.position = account.position

(* Unless two times were mixed, the next event that is not older than the  *)
(* snapshot, and trades nothing, finds the position it was announced with. *)
Unmixed == session.at = "consuming" /\ ~mixed /\ buffer # <<>>
           /\ buffer[1].version >= session.version /\ ~buffer[1].traded
    => buffer[1].position = cached.position

UserInv ==
    /\ UserShapes /\ Bounded /\ Reached /\ Announced /\ Read /\ Unmixed
    /\ status = "ready" => session.at = "consuming"
    /\ session.at = "failed" => Unseen
-----------------------------------------------------------------------------
(* Lemmas.                                                                 *)

(* Max of two numbers is the larger.                                       *)
LEMMA MaxOfTwo ==
    ASSUME NEW i \in Int, NEW j \in Int PROVE Max({i, j}) = IF i >= j THEN i ELSE j
<1> DEFINE S == {i, j}
           P(x) == x \in S /\ \A y \in S : x >= y
           m == IF i >= j THEN i ELSE j
<1>1. P(m)
  OBVIOUS
<1>2. \A x : P(x) => x = m
  OBVIOUS
<1>3. P(CHOOSE x : P(x))
  BY <1>1, Zenon
<1> QED
  BY <1>2, <1>3 DEF Max

(* The equity of an account that holds nothing is its balance.             *)
LEMMA EquityOf ==
    ASSUME NEW a, a.balance \in Int, a.position \in {0, 1}, a.profit \in -1 .. 1
    PROVE  /\ Equity(a) \in Int
           /\ Equity(a) = IF a.position = 0 THEN a.balance ELSE a.balance + a.profit
<1>1. CASE a.position = 0
  <2>1. a.position * a.profit = 0
    BY <1>1
  <2> QED
    BY <1>1, <2>1 DEF Equity
<1>2. CASE a.position = 1
  <2>1. a.position * a.profit = a.profit
    BY <1>2
  <2> QED
    BY <1>2, <2>1 DEF Equity
<1> QED
  BY <1>1, <1>2

(* The kinds of a session, and what each has read.                         *)
LEMMA SessionKinds ==
    ASSUME UserShapes
    PROVE  /\ session.at \in {"down", "account", "positions", "consuming", "failed"}
           /\ session = Down <=> session.at = "down"
           /\ session.at \in {"account", "positions"} => session.why \in {"connect", "reseed"}
           /\ session.at = "positions" => session.balance \in Int
           /\ session.at \in {"positions", "consuming"} => session.version \in Nat
BY DEF UserShapes, Session, Down

LEMMA UserInitial == UserInit => UserInv
<1> SUFFICES ASSUME UserInit PROVE UserInv
  OBVIOUS
<1>1. buffer = <<>> /\ buffer \in Seq(Event) /\ DOMAIN buffer = {} /\ Len(buffer) = 0
  BY DEF UserInit
<1>2. UserShapes
  <2>1. account \in Account /\ peak \in Int
    BY AccountAssumption DEF UserInit, Account
  <2>2. cached \in Cache
    BY DEF UserInit, Cache
  <2>3. session \in Session
    BY DEF UserInit, Session
  <2> QED
    BY <1>1, <2>1, <2>2, <2>3 DEF UserInit, UserShapes
<1>3. session.at = "down" /\ session = Down
  BY DEF UserInit, Down
<1>4. Equity(account) = StartBalance
  BY AccountAssumption, EquityOf DEF UserInit
<1>5. Bounded
  BY <1>1, <1>3, AccountAssumption DEF UserInit, Bounded, Earned
<1>6. Reached
  BY <1>1, <1>4, AccountAssumption DEF UserInit, Reached
<1> QED
  BY <1>1, <1>2, <1>3, <1>5, <1>6 DEF UserInit, UserInv, Announced, Read, Unmixed

(* The account changes, and the change is announced while a session is     *)
(* open.                                                                   *)
LEMMA ChangedKeeps ==
    ASSUME UserInv, NEW a \in Account, NEW traded \in BOOLEAN, Changed(a, traded),
           a.version = account.version, a.balance <= account.balance + 1,
           a.position = 0 => a.profit = 0, ~traded => a.position = account.position
    PROVE  UserInv'
<1> DEFINE n == Len(buffer)
           e == [balance |-> a.balance, position |-> a.position, profit |-> a.profit,
                 version |-> account.version + 1, traded |-> traded]
<1> USE DEF UserInv
<1>1. /\ account' \in Account /\ account'.balance = a.balance /\ account'.position = a.position
      /\ account'.profit = a.profit /\ account'.version = account.version + 1
      /\ account.version \in Nat /\ account.version < MaxChanges
      /\ Equity(account') = Equity(a)
  BY DEF Changed, UserShapes, Account, Equity
<1>2. /\ a.balance \in Int /\ a.position \in {0, 1} /\ a.profit \in -1 .. 1
      /\ Equity(a) \in Int
  BY EquityOf DEF Account
<1>3. peak \in Int /\ peak' \in Int /\ peak' >= peak /\ peak' >= Equity(a)
  <2>1. Max({peak, Equity(a)}) = IF peak >= Equity(a) THEN peak ELSE Equity(a)
    BY <1>2, MaxOfTwo DEF UserShapes
  <2> QED
    BY <1>2, <2>1 DEF Changed, UserShapes
<1>4. UNCHANGED <<session, cached, status, mark, mixed>>
  BY DEF Changed
<1>5. /\ n \in Nat /\ DOMAIN buffer = 1 .. n /\ buffer \in Seq(Event)
      /\ \A i \in 1 .. n : buffer[i] \in Event
  BY DEF UserShapes
<1>6. e \in Event /\ Equity(e) = Equity(a)
  BY <1>1, <1>2 DEF Event, Equity
<1>7. /\ buffer' \in Seq(Event)
      /\ session = Down => buffer' = buffer
      /\ session # Down => /\ Len(buffer') = n + 1 /\ DOMAIN buffer' = 1 .. n + 1
                           /\ \A i \in 1 .. n : buffer'[i] = buffer[i]
                           /\ buffer'[n + 1] = e
  <2>1. CASE session = Down
    BY <1>5, <2>1 DEF Changed
  <2>2. CASE session # Down
    <3>1. buffer' = Append(buffer, e)
      BY <2>2 DEF Changed
    <3> HIDE DEF e
    <3>2. buffer' \in Seq(Event)
      BY <1>5, <1>6, <3>1
    <3>3. Len(buffer') = n + 1 /\ DOMAIN buffer' = 1 .. n + 1
      BY <1>5, <3>1
    <3>4. (\A i \in 1 .. n : buffer'[i] = buffer[i]) /\ buffer'[n + 1] = e
      BY <1>5, <3>1
    <3> QED
      BY <2>2, <3>2, <3>3, <3>4
  <2> QED
    BY <2>1, <2>2
<1>8. \A i \in DOMAIN buffer' : buffer'[i] = e \/ (i \in DOMAIN buffer /\ buffer'[i] = buffer[i])
  BY <1>5, <1>7
<1>9. /\ e.balance = a.balance /\ e.position = a.position /\ e.version = account.version + 1
      /\ e.traded = traded
  OBVIOUS
<1> HIDE DEF e, n
<1>10. UserShapes'
  BY <1>1, <1>3, <1>4, <1>7 DEF UserShapes
<1>11. Bounded'
  <2>1. \A b \in Int, p \in {0, 1} : Earned(b, p) => Earned(b, p)'
    BY <1>1, AccountAssumption DEF Earned
  <2>3. /\ cached.balance \in Int /\ cached.position \in {0, 1}
        /\ session.at = "positions" => session.balance \in Int
        /\ \A i \in 1 .. n : buffer[i].balance \in Int /\ buffer[i].position \in {0, 1}
    BY <1>5, SessionKinds DEF UserShapes, Cache, Event
  <2>2. Earned(a.balance, a.position)'
    BY <1>1, <1>2, AccountAssumption DEF Bounded, Earned, UserShapes, Account
  <2>4. Earned(cached.balance, cached.position)'
    BY <1>4, <2>1, <2>3 DEF Bounded
  <2>5. ASSUME session'.at = "positions" PROVE Earned(session.balance, 0)'
    <3>1. Earned(session.balance, 0) /\ session.balance \in Int
      BY <1>4, <2>3, <2>5 DEF Bounded
    <3> QED
      BY <1>4, <2>1, <3>1
  <2>6. ASSUME NEW i \in DOMAIN buffer' PROVE Earned(buffer[i].balance, buffer[i].position)'
    <3>1. CASE buffer'[i] = e
      BY <1>9, <2>2, <3>1
    <3>2. CASE i \in DOMAIN buffer /\ buffer'[i] = buffer[i]
      <4>1. Earned(buffer[i].balance, buffer[i].position)
        BY <3>2 DEF Bounded
      <4>2. /\ buffer[i].balance <= StartBalance + account.version
            /\ buffer[i].position = 1 => account.version >= 1
            /\ buffer[i].balance \in Int
        BY <1>5, <2>3, <3>2, <4>1 DEF Earned
      <4>3. /\ buffer'[i].balance <= StartBalance + account'.version
            /\ buffer'[i].position = 1 => account'.version >= 1
        BY <1>1, <3>2, <4>2, AccountAssumption
      <4> QED
        BY <4>3 DEF Earned
    <3> QED
      BY <1>8, <3>1, <3>2
  <2>7. Earned(account.balance, account.position)'
    BY <1>1, <2>2
  <2> QED
    BY <1>1, <1>4, <2>4, <2>5, <2>6, <2>7, AccountAssumption DEF Bounded
<1>12. Reached'
  <2>1. \A i \in DOMAIN buffer' : Equity(buffer'[i]) <= peak'
    <3> SUFFICES ASSUME NEW i \in DOMAIN buffer' PROVE Equity(buffer'[i]) <= peak'
      OBVIOUS
    <3>1. CASE buffer'[i] = e
      BY <1>3, <1>6, <3>1
    <3>2. CASE i \in DOMAIN buffer /\ buffer'[i] = buffer[i]
      <4>1. Equity(buffer[i]) \in Int
        BY <1>5, <3>2, EquityOf DEF Event
      <4> QED
        BY <1>3, <3>2, <4>1 DEF Reached
    <3> QED
      BY <1>8, <3>1, <3>2
  <2> QED
    BY <1>1, <1>2, <1>3, <1>4, <2>1 DEF Reached, UserShapes
<1>13. Announced'
  <2> SUFFICES ASSUME session # Down PROVE Announced'
    BY <1>4 DEF Announced
  <2>1. Announced
    OBVIOUS
  <2>2. \A i \in 1 .. n + 1 : buffer'[i].version = account'.version - Len(buffer') + i
    <3> SUFFICES ASSUME NEW i \in 1 .. n + 1
                 PROVE  buffer'[i].version = account.version + 1 - (n + 1) + i
      BY <1>1, <1>7
    <3>1. CASE i = n + 1
      BY <1>1, <1>5, <1>7, <1>9, <3>1
    <3>2. CASE i \in 1 .. n
      <4>1. buffer[i].version = account.version - n + i
        BY <2>1, <3>2 DEF Announced, n
      <4> QED
        BY <1>1, <1>5, <1>7, <3>2, <4>1
    <3> QED
      BY <1>5, <3>1, <3>2
  <2>3. ASSUME NEW i \in 1 .. n + 1, Untraded(i + 1)'
        PROVE  buffer'[i].position = account'.position
    <3>1. CASE i = n + 1
      BY <1>1, <1>7, <1>9, <3>1
    <3>2. CASE i \in 1 .. n
      <4>1. ~traded /\ Untraded(i + 1)
        BY <1>5, <1>7, <1>9, <2>3, <3>2 DEF Untraded, n
      <4>2. buffer[i].position = account.position
        BY <2>1, <3>2, <4>1 DEF Announced, n
      <4> QED
        BY <1>1, <1>7, <3>2, <4>1, <4>2
    <3> QED
      BY <1>5, <2>3, <3>1, <3>2
  <2>4. ASSUME NEW i \in 1 .. n, ~buffer'[i + 1].traded
        PROVE  buffer'[i + 1].position = buffer'[i].position
    <3>1. CASE i = n
      <4>1. ~traded
        BY <1>7, <1>9, <2>4, <3>1
      <4>2. Untraded(n + 1)
        BY <1>5 DEF Untraded, n
      <4>3. buffer[n].position = account.position
        BY <2>1, <3>1, <4>2 DEF Announced, n
      <4> QED
        BY <1>7, <1>9, <3>1, <4>1, <4>3
    <3>2. CASE i \in 1 .. n - 1
      BY <1>5, <1>7, <2>1, <2>4, <3>2 DEF Announced, n
    <3> QED
      BY <1>5, <2>4, <3>1, <3>2
  <2>5. buffer'[Len(buffer')].balance = account'.balance
    BY <1>1, <1>7, <1>9
  <2>6. 1 .. Len(buffer') = 1 .. n + 1 /\ 1 .. Len(buffer') - 1 = 1 .. n
    BY <1>5, <1>7
  <2> QED
    BY <2>2, <2>3, <2>4, <2>5, <2>6 DEF Announced
<1>14. session # Down => buffer' # <<>> /\ Len(buffer') = n + 1
  BY <1>5, <1>7
<1>15. Read'
  <2>1. ASSUME session.at = "positions"
        PROVE  session.version <= account'.version /\ session.version # account'.version
    BY <1>1, <2>1, SessionKinds DEF Read
  <2>2. ASSUME session.at = "consuming", Untraded(1)' PROVE cached.position = account'.position
    <3>1. session # Down
      BY <2>2 DEF Down
    <3>2. ~traded /\ Untraded(1)
      BY <1>5, <1>7, <1>9, <2>2, <3>1 DEF Untraded, n
    <3> QED
      BY <1>1, <2>2, <3>2 DEF Read
  <2>3. session.at \in {"positions", "consuming"} => session # Down
    BY DEF Down
  <2> QED
    BY <1>4, <1>14, <2>1, <2>2, <2>3 DEF Read
<1>16. Unmixed'
  <2> SUFFICES ASSUME session.at = "consuming", ~mixed, buffer'[1].version >= session.version,
                      ~buffer'[1].traded
               PROVE  buffer'[1].position = cached.position
    BY <1>4 DEF Unmixed
  <2>1. session # Down
    BY DEF Down
  <2>2. CASE n = 0
    <3>1. buffer'[1] = e /\ ~traded
      BY <1>7, <1>9, <2>1, <2>2
    <3>2. Untraded(1)
      BY <2>2 DEF Untraded, n
    <3> QED
      BY <1>9, <3>1, <3>2 DEF Read
  <2>3. CASE n > 0
    <3>1. 1 \in 1 .. n /\ buffer # <<>>
      BY <1>5, <2>3 DEF n
    <3> QED
      BY <1>7, <2>1, <3>1 DEF Unmixed
  <2> QED
    BY <1>5, <2>2, <2>3
<1> QED
  BY <1>4, <1>10, <1>11, <1>12, <1>13, <1>15, <1>16 DEF Unseen

LEMMA TransferKeeps == ASSUME UserInv, NEW d \in {-1, 1}, Transfer(d) PROVE UserInv'
<1> DEFINE a == [account EXCEPT !.balance = @ + d]
<1>1. account \in Account /\ (account.position = 0 => account.profit = 0)
  BY DEF UserInv, UserShapes, Reached
<1>2. /\ a \in Account /\ a.version = account.version /\ a.balance <= account.balance + 1
      /\ a.position = account.position /\ a.profit = account.profit
  BY <1>1 DEF Account
<1>3. Changed(a, FALSE)
  BY DEF Transfer
<1> HIDE DEF a
<1> QED
  BY <1>1, <1>2, <1>3, ChangedKeeps

(* One field of the account changes.                                       *)
LEMMA OneField ==
    ASSUME NEW a \in Account
    PROVE  /\ \A x \in Int : LET b == [a EXCEPT !.balance = x]
                             IN  b \in Account /\ b.balance = x /\ b.position = a.position
                                 /\ b.profit = a.profit /\ b.version = a.version
           /\ \A x \in {0, 1} : LET b == [a EXCEPT !.position = x]
                                IN  b \in Account /\ b.balance = a.balance /\ b.position = x
                                    /\ b.profit = a.profit /\ b.version = a.version
           /\ \A x \in -1 .. 1 : LET b == [a EXCEPT !.profit = x]
                                 IN  b \in Account /\ b.balance = a.balance
                                     /\ b.position = a.position /\ b.profit = x
                                     /\ b.version = a.version
BY DEF Account

LEMMA TradeKeeps == ASSUME UserInv, Trade PROVE UserInv'
<1> DEFINE o == [account EXCEPT !.position = 1]
           opened == [o EXCEPT !.profit = 0]
           b == [account EXCEPT !.balance = @ + account.profit]
           c == [b EXCEPT !.position = 0]
           closed == [c EXCEPT !.profit = 0]
<1>1. /\ account \in Account /\ account.balance \in Int /\ account.profit \in -1 .. 1
      /\ account.balance + account.profit \in Int /\ 0 \in -1 .. 1
  BY DEF UserInv, UserShapes, Account
<1>2. Changed(opened, TRUE) \/ Changed(closed, TRUE)
  BY DEF Trade
<1>3. /\ o \in Account /\ o.balance = account.balance /\ o.position = 1
      /\ o.version = account.version
  BY <1>1, OneField
<1>4. /\ b \in Account /\ b.balance = account.balance + account.profit
      /\ b.version = account.version
  BY <1>1, OneField
<1> HIDE DEF o, b
<1>5. /\ opened \in Account /\ opened.version = account.version
      /\ opened.balance = account.balance /\ opened.position = 1
  BY <1>1, <1>3, OneField
<1>6. c \in Account /\ c.balance = b.balance /\ c.version = account.version
  BY <1>4, OneField
<1> HIDE DEF opened, c
<1>7. /\ closed \in Account /\ closed.version = account.version
      /\ closed.balance = b.balance /\ closed.profit = 0
  BY <1>1, <1>6, OneField
<1> HIDE DEF closed
<1>8. CASE Changed(opened, TRUE)
  <2>1. opened.balance <= account.balance + 1 /\ opened.position # 0
    BY <1>1, <1>5
  <2> QED
    BY <1>5, <1>8, <2>1, ChangedKeeps
<1>9. CASE Changed(closed, TRUE)
  <2>1. closed.balance <= account.balance + 1
    BY <1>1, <1>4, <1>7
  <2> QED
    BY <1>7, <1>9, <2>1, ChangedKeeps
<1> QED
  BY <1>2, <1>8, <1>9

LEMMA PriceKeeps == ASSUME UserInv, NEW d \in {-1, 1}, PriceMoves(d) PROVE UserInv'
<1>1. account \in Account /\ peak \in Int
  BY DEF UserInv, UserShapes
<1>2. /\ account' \in Account /\ account'.balance = account.balance
      /\ account'.position = account.position /\ account'.version = account.version
      /\ account.position = 1
  BY <1>1 DEF PriceMoves, Account
<1>3. Equity(account') \in Int
  BY <1>2, EquityOf DEF Account
<1>4. peak' = IF peak >= Equity(account') THEN peak ELSE Equity(account')
  BY <1>1, <1>3, MaxOfTwo DEF PriceMoves
<1>5. UNCHANGED <<buffer, session, cached, status, mark, mixed>>
  BY DEF PriceMoves
<1>6. UserShapes'
  BY <1>1, <1>2, <1>3, <1>4, <1>5 DEF UserInv, UserShapes
<1>7. Bounded'
  BY <1>2, <1>5 DEF UserInv, Bounded, Earned
<1>8. Reached'
  <2>1. peak' \in Int /\ peak' >= peak /\ peak' >= Equity(account')
    BY <1>1, <1>3, <1>4
  <2>2. \A i \in DOMAIN buffer : Equity(buffer[i]) \in Int
    <3>1. \A i \in DOMAIN buffer : buffer[i] \in Event
      BY DEF UserInv, UserShapes
    <3> QED
      BY <3>1, EquityOf DEF Event
  <2>3. mark \in Nat
    BY DEF UserInv, UserShapes
  <2> QED
    BY <1>1, <1>2, <1>5, <2>1, <2>2, <2>3 DEF UserInv, Reached
<1>9. Announced' /\ Read' /\ Unmixed'
  BY <1>2, <1>5 DEF UserInv, Announced, Read, Unmixed, Untraded
<1> QED
  BY <1>5, <1>6, <1>7, <1>8, <1>9 DEF UserInv, Unseen

LEMMA ConnectKeeps == ASSUME UserInv, Connect PROVE UserInv'
<1>1. /\ buffer' = <<>> /\ session' = [at |-> "account", why |-> "connect"] /\ session = Down
      /\ UNCHANGED <<account, peak, cached, status, mark, mixed>>
  BY DEF Connect
<1>2. buffer' \in Seq(Event) /\ DOMAIN buffer' = {} /\ Len(buffer') = 0
  BY <1>1
<1>3. session' \in Session /\ session'.at = "account" /\ session.at = "down"
  BY <1>1 DEF Session, Down
<1>4. UserShapes'
  BY <1>1, <1>2, <1>3 DEF UserInv, UserShapes
<1>5. Bounded' /\ Reached'
  BY <1>1, <1>2, <1>3 DEF UserInv, Bounded, Earned, Reached
<1>6. Announced' /\ Read' /\ Unmixed'
  BY <1>1, <1>2, <1>3 DEF Announced, Read, Unmixed
<1> QED
  BY <1>1, <1>3, <1>4, <1>5, <1>6 DEF UserInv

LEMMA ReadAccountKeeps == ASSUME UserInv, ReadAccount PROVE UserInv'
<1>1. /\ session.at = "account" /\ UNCHANGED <<account, peak, buffer, cached, status, mark, mixed>>
      /\ session' = [at |-> "positions", why |-> session.why,
                     balance |-> account.balance, version |-> account.version]
  BY DEF ReadAccount
<1>2. /\ session'.at = "positions" /\ session'.balance = account.balance
      /\ session'.version = account.version /\ session.why \in {"connect", "reseed"}
      /\ account.balance \in Int /\ account.version \in Nat /\ account.position \in {0, 1}
  BY <1>1, SessionKinds DEF UserInv, UserShapes, Account
<1>3. session' \in Session
  BY <1>1, <1>2 DEF Session
<1>4. UserShapes'
  BY <1>1, <1>3 DEF UserInv, UserShapes
<1>5. Bounded' /\ Reached'
  BY <1>1, <1>2 DEF UserInv, Bounded, Earned, Reached
<1>6. Announced' /\ Read' /\ Unmixed'
  <2>1. session # Down
    BY <1>1 DEF Down
  <2> QED
    BY <1>1, <1>2, <2>1 DEF UserInv, Announced, Untraded, Read, Unmixed
<1> QED
  BY <1>1, <1>2, <1>4, <1>5, <1>6 DEF UserInv

(* What is observed is within what the account can have earned.            *)
LEMMA ObserveKeeps ==
    ASSUME UserInv, NEW c \in Cache, Earned(c.balance, c.position), Observe(c, "ready")
    PROVE  /\ mark' \in Nat /\ mark' <= StartBalance + 2 * MaxChanges
           /\ mark' = mark \/ mark' = Equity(c)
<1>1. /\ Equity(c) \in Int
      /\ Equity(c) = IF c.position = 0 THEN c.balance ELSE c.balance + c.profit
      /\ c.balance \in Int /\ c.position \in {0, 1} /\ c.profit \in -1 .. 1
  BY EquityOf DEF Cache
<1>2. /\ mark \in Nat /\ mark <= StartBalance + 2 * MaxChanges
      /\ account.version \in Nat /\ account.version <= MaxChanges
  BY DEF UserInv, UserShapes, Bounded, Account
<1>3. Equity(c) <= StartBalance + 2 * MaxChanges
  BY <1>1, <1>2, AccountAssumption DEF Earned
<1>4. mark' = IF Equity(c) > mark THEN Equity(c) ELSE mark
  BY DEF Observe
<1> QED
  BY <1>1, <1>2, <1>3, <1>4

LEMMA ReadPositionsKeeps == ASSUME UserInv, ReadPositions PROVE UserInv'
<1>1. /\ session.at = "positions" /\ cached' = Snapshot /\ UNCHANGED <<account, peak, buffer>>
      /\ mixed' = (mixed \/ session.version # account.version)
      /\ \/ session' = Down /\ status' = "resyncing" /\ mark' = mark
         \/ session' = Consuming /\ status' = "ready" /\ Observe(Snapshot, "ready")
  BY Zenon DEF ReadPositions
<1>2. /\ account \in Account /\ account.balance \in Int /\ account.position \in {0, 1}
      /\ account.profit \in -1 .. 1 /\ account.version \in Nat
      /\ session.balance \in Int /\ session.version \in Nat /\ session # Down
  BY <1>1, SessionKinds DEF UserInv, UserShapes, Account, Down
<1>3. /\ Snapshot \in Cache /\ Snapshot.balance = session.balance
      /\ Snapshot.position = account.position /\ Snapshot.profit = account.profit
      /\ Snapshot.seeded = account.position
  BY <1>2 DEF Snapshot, Cache
<1>4. Earned(Snapshot.balance, Snapshot.position)
  BY <1>1, <1>2, <1>3 DEF UserInv, Bounded, Earned
<1>5. session' = Down \/ session' = Consuming
  BY <1>1
<1>6. /\ session' \in Session /\ session'.at \in {"down", "consuming"}
      /\ session' = Consuming => session'.at = "consuming" /\ session'.version = account.version
      /\ session' = Down <=> session'.at = "down"
  BY <1>2, <1>5 DEF Session, Consuming, Down
<1>7. mixed' \in BOOLEAN /\ (~mixed' => ~mixed /\ session.version = account.version)
  BY <1>1 DEF UserInv, UserShapes
<1>8. /\ mark' \in Nat /\ mark' <= StartBalance + 2 * MaxChanges
      /\ mark' = mark \/ mark' = Equity(Snapshot)
  <2>1. CASE mark' = mark
    BY <2>1 DEF UserInv, UserShapes, Bounded
  <2>2. CASE Observe(Snapshot, "ready")
    BY <1>3, <1>4, <2>2, ObserveKeeps
  <2> QED
    BY <1>1, <2>1, <2>2
<1>9. UserShapes'
  BY <1>1, <1>3, <1>6, <1>7, <1>8 DEF UserInv, UserShapes
<1>10. Bounded'
  BY <1>1, <1>3, <1>4, <1>6, <1>8 DEF UserInv, Bounded, Earned
<1>11. Reached'
  <2>1. ASSUME ~mixed' PROVE Equity(Snapshot) = Equity(account)
    BY <1>1, <1>3, <1>7, <2>1 DEF UserInv, Read, Equity
  <2>2. ~mixed' => mark' <= peak'
    BY <1>1, <1>7, <1>8, <2>1 DEF UserInv, Reached
  <2> QED
    BY <1>1, <2>2 DEF UserInv, Reached
<1>12. Announced'
  BY <1>1, <1>2 DEF UserInv, Announced, Untraded
<1>13. Read'
  <2>1. ASSUME buffer = <<>> PROVE session.balance = account.balance
    BY <1>1, <2>1 DEF UserInv, Read
  <2> QED
    BY <1>1, <1>3, <1>6, <2>1 DEF Read
<1>14. Unmixed'
  <2> SUFFICES ASSUME session' = Consuming, buffer # <<>>, buffer[1].version >= account.version
               PROVE  buffer[1].position = account.position
    BY <1>1, <1>3, <1>5, <1>6 DEF Unmixed
  <2>1. Len(buffer) \in Nat /\ Len(buffer) >= 1
    BY DEF UserInv, UserShapes
  <2>2. buffer[1].version = account.version - Len(buffer) + 1
    BY <1>2, <2>1 DEF UserInv, Announced
  <2>3. Len(buffer) = 1
    <3> DEFINE n == Len(buffer)
               v == account.version
    <3>1. v \in Nat /\ n \in Nat /\ n >= 1 /\ v - n + 1 >= v
      BY <1>2, <2>1, <2>2
    <3> HIDE DEF n, v
    <3>2. n = 1
      BY <3>1
    <3> QED
      BY <3>2 DEF n
  <2>4. Untraded(2)
    BY <2>3 DEF Untraded
  <2> QED
    BY <1>2, <2>1, <2>3, <2>4 DEF UserInv, Announced
<1> QED
  BY <1>1, <1>6, <1>9, <1>10, <1>11, <1>12, <1>13, <1>14 DEF UserInv, Unseen, Consuming, Down

LEMMA SessionLostKeeps == ASSUME UserInv, SessionLost PROVE UserInv'
<1>1. /\ session.at \in {"account", "positions", "consuming"} /\ status' = Interrupted
      /\ session' = Ended /\ UNCHANGED <<account, peak, buffer, cached, mark, mixed>>
  BY DEF SessionLost
<1>2. /\ session' \in Session /\ session'.at \in {"down", "failed"} /\ session # Down
      /\ status' \in {"starting", "retrying", "resyncing"} /\ (session'.at = "failed" => Unseen')
  BY <1>1 DEF Ended, Interrupted, Unseen, Session, Down
<1>3. UserShapes'
  BY <1>1, <1>2 DEF UserInv, UserShapes
<1>4. Bounded' /\ Reached'
  BY <1>1, <1>2 DEF UserInv, Bounded, Earned, Reached
<1>5. Announced' /\ Read' /\ Unmixed'
  BY <1>1, <1>2 DEF UserInv, Announced, Untraded, Read, Unmixed
<1> QED
  BY <1>2, <1>3, <1>4, <1>5 DEF UserInv

LEMMA ConnectFailsKeeps == ASSUME UserInv, ConnectFails PROVE UserInv'
<1>1. /\ session = Down /\ status' \in {"retrying", "resyncing"}
      /\ UNCHANGED <<account, peak, buffer, session, cached, mark, mixed>>
  BY DEF ConnectFails
<1>2. UserShapes'
  BY <1>1 DEF UserInv, UserShapes
<1>3. Bounded' /\ Reached'
  BY <1>1 DEF UserInv, Bounded, Earned, Reached
<1>4. Announced' /\ Read' /\ Unmixed'
  BY <1>1 DEF UserInv, Announced, Untraded, Read, Unmixed
<1> QED
  BY <1>1, <1>2, <1>3, <1>4 DEF UserInv, Down

LEMMA ApplyEventKeeps == ASSUME UserInv, ApplyEvent PROVE UserInv'
<1> DEFINE e == Head(buffer)
           n == Len(buffer)
<1>1. /\ session.at = "consuming" /\ buffer # <<>> /\ buffer' = Tail(buffer)
      /\ cached' = Applied(e) /\ UNCHANGED <<account, peak>>
      /\ mixed' = (mixed \/ e.version < session.version \/ (~e.traded /\ PriceMissed(e)))
      /\ \/ /\ e.traded /\ e.position = 1 /\ cached.seeded = 0 /\ mark' = mark
            /\ session' = [at |-> "account", why |-> "reseed"] /\ status' = "resyncing"
         \/ /\ ~(e.traded /\ e.position = 1 /\ cached.seeded = 0)
            /\ session' = session /\ status' = "ready" /\ Observe(Applied(e), "ready")
  BY Zenon DEF ApplyEvent
<1>2. /\ n \in Nat /\ n >= 1 /\ DOMAIN buffer = 1 .. n /\ e = buffer[1]
      /\ \A i \in 1 .. n : buffer[i] \in Event
  BY <1>1 DEF UserInv, UserShapes
<1>3. /\ buffer' \in Seq(Event) /\ Len(buffer') = n - 1 /\ DOMAIN buffer' = 1 .. n - 1
      /\ \A i \in 1 .. n - 1 : buffer'[i] = buffer[i + 1]
  <2>1. buffer \in Seq(Event)
    BY DEF UserInv, UserShapes
  <2>2. buffer' \in Seq(Event) /\ Len(buffer') = n - 1
    BY <1>1, <2>1
  <2>3. \A i \in 1 .. n - 1 : buffer'[i] = buffer[i + 1]
    BY <1>1, <2>1
  <2> QED
    BY <2>2, <2>3
<1>4. /\ e \in Event /\ e.balance \in Int /\ e.position \in {0, 1} /\ e.profit \in -1 .. 1
      /\ e.version \in Nat /\ e.traded \in BOOLEAN
      /\ cached \in Cache /\ cached.position \in {0, 1} /\ cached.profit \in -1 .. 1
      /\ cached.seeded = cached.position
      /\ session.version \in Nat /\ session # Down /\ account.version \in Nat
  BY <1>1, <1>2, SessionKinds DEF UserInv, UserShapes, Account, Event, Cache, Read, Down
<1> HIDE DEF e, n
<1>5. /\ cached' \in Cache /\ cached'.balance = e.balance
      /\ e.traded => cached'.position = e.position /\ cached'.profit = e.profit
      /\ ~e.traded => cached'.position = cached.position /\ cached'.profit = cached.profit
                      /\ cached'.seeded = cached.seeded
      /\ e.traded => cached'.seeded = IF e.position = 0 THEN 0 ELSE cached.seeded
  <2>1. CASE e.traded
    <3>1. cached' = [[[[cached EXCEPT !.balance = e.balance] EXCEPT !.position = e.position]
                             EXCEPT !.profit = e.profit]
                             EXCEPT !.seeded = IF e.position = 0 THEN 0 ELSE cached.seeded]
      BY <1>1, <2>1 DEF Applied
    <3>2. cached' \in Cache
      BY <1>4, <3>1 DEF Cache
    <3>3. /\ cached'.balance = e.balance /\ cached'.position = e.position
          /\ cached'.profit = e.profit
          /\ cached'.seeded = IF e.position = 0 THEN 0 ELSE cached.seeded
      BY <1>4, <3>1 DEF Cache
    <3> QED
      BY <2>1, <3>2, <3>3
  <2>2. CASE ~e.traded
    <3>1. cached' = [cached EXCEPT !.balance = e.balance, !.position = cached.position,
                                   !.profit = cached.profit, !.seeded = cached.seeded]
      BY <1>1, <2>2 DEF Applied
    <3>2. cached' \in Cache
      BY <1>4, <3>1 DEF Cache
    <3>3. /\ cached'.balance = e.balance /\ cached'.position = cached.position
          /\ cached'.profit = cached.profit /\ cached'.seeded = cached.seeded
      BY <1>4, <3>1 DEF Cache
    <3> QED
      BY <2>2, <3>2, <3>3
  <2> QED
    BY <1>4, <2>1, <2>2
<1>6. Earned(cached'.balance, cached'.position)
  <2>1. Earned(e.balance, e.position) /\ Earned(cached.balance, cached.position)
    BY <1>2 DEF UserInv, Bounded
  <2> QED
    BY <1>4, <1>5, <2>1 DEF Earned
<1>7. /\ session' \in Session /\ session' # Down /\ session'.at \in {"account", "consuming"}
      /\ session'.at = "consuming" =>
            /\ session' = session
            /\ ~(e.traded /\ e.position = 1 /\ cached.seeded = 0)
      /\ status' \in {"ready", "resyncing"} /\ (status' = "ready" => session'.at = "consuming")
  <2>1. [at |-> "account", why |-> "reseed"] \in Session
    BY DEF Session
  <2> QED
    BY <1>1, <1>4, <2>1 DEF UserInv, UserShapes, Down
<1>8. /\ mixed' \in BOOLEAN
      /\ ~mixed' => ~mixed /\ e.version >= session.version /\ (e.traded \/ ~PriceMissed(e))
  <2> DEFINE older == e.version < session.version
             missed == ~e.traded /\ PriceMissed(e)
  <2>1. older \in BOOLEAN /\ missed \in BOOLEAN /\ mixed \in BOOLEAN
    BY DEF UserInv, UserShapes
  <2>2. mixed' = (mixed \/ older \/ missed)
    BY <1>1
  <2>3. ~older => e.version >= session.version
    BY <1>4
  <2>4. ~missed => e.traded \/ ~PriceMissed(e)
    BY Zenon
  <2> HIDE DEF older, missed
  <2>5. mixed' \in BOOLEAN /\ (~mixed' => ~mixed /\ ~older /\ ~missed)
    BY <2>1, <2>2, Zenon
  <2> QED
    BY <2>3, <2>4, <2>5, Zenon
<1>9. /\ mark' \in Nat /\ mark' <= StartBalance + 2 * MaxChanges
      /\ mark' = mark \/ mark' = Equity(cached')
  <2>1. CASE mark' = mark
    BY <2>1 DEF UserInv, UserShapes, Bounded
  <2>2. CASE Observe(Applied(e), "ready")
    BY <1>1, <1>5, <1>6, <2>2, ObserveKeeps
  <2> QED
    BY <1>1, <2>1, <2>2
<1>10. ASSUME ~mixed', session'.at = "consuming" \/ mark' # mark
       PROVE  cached'.position = e.position
  <2>1. CASE e.traded
    BY <1>5, <2>1
  <2>2. CASE ~e.traded
    <3>1. ~mixed /\ e.version >= session.version
      <4>1. ~mixed'
        BY <1>10
      <4> QED
        BY <1>8, <4>1
    <3>2. e.position = cached.position
      BY <1>1, <1>2, <2>2, <3>1 DEF UserInv, Unmixed
    <3> QED
      BY <1>5, <2>2, <3>2
  <2> QED
    BY <1>4, <2>1, <2>2
<1>11. UserShapes'
  BY <1>1, <1>3, <1>5, <1>7, <1>8, <1>9 DEF UserInv, UserShapes
<1>12. Bounded'
  <2>1. \A i \in DOMAIN buffer' : Earned(buffer'[i].balance, buffer'[i].position)
    <3> SUFFICES ASSUME NEW i \in 1 .. n - 1
                 PROVE  Earned(buffer'[i].balance, buffer'[i].position)
      BY <1>3
    <3>1. i + 1 \in DOMAIN buffer /\ buffer'[i] = buffer[i + 1]
      BY <1>2, <1>3
    <3> QED
      BY <3>1 DEF UserInv, Bounded
  <2> QED
    BY <1>1, <1>6, <1>7, <1>9, <2>1 DEF UserInv, Bounded, Earned
<1>13. Reached'
  <2>1. ASSUME ~mixed', mark' # mark PROVE Equity(cached') <= peak
    <3>1. cached'.position = e.position
      BY <1>10, <2>1
    <3>2. cached'.position = 0 \/ cached'.profit = e.profit
      BY <1>4, <1>5, <1>8, <2>1 DEF PriceMissed
    <3>3. Equity(cached') = Equity(e)
      BY <1>4, <1>5, <3>1, <3>2, EquityOf DEF Cache
    <3> QED
      BY <1>2, <3>3 DEF UserInv, Reached
  <2>2. ~mixed' => mark' <= peak'
    BY <1>1, <1>8, <1>9, <2>1 DEF UserInv, Reached
  <2>3. \A i \in DOMAIN buffer' : Equity(buffer'[i]) <= peak
    BY <1>2, <1>3 DEF UserInv, Reached
  <2> QED
    BY <1>1, <2>2, <2>3 DEF UserInv, Reached
<1>14. Announced
  BY DEF UserInv
<1>15. Announced'
  <2>1. 1 .. Len(buffer') = 1 .. n - 1 /\ 1 .. Len(buffer') - 1 = 1 .. n - 2
    BY <1>2, <1>3
  <2>2. ASSUME NEW i \in 1 .. n - 1
        PROVE  /\ buffer'[i].version = account'.version - Len(buffer') + i
               /\ Untraded(i + 1)' => buffer'[i].position = account'.position
    <3>1. i + 1 \in 1 .. n /\ buffer'[i] = buffer[i + 1]
      BY <1>2, <1>3, <2>2
    <3>2. buffer[i + 1].version = account.version - n + (i + 1)
      BY <1>4, <1>14, <3>1 DEF Announced, n
    <3>3. ASSUME Untraded(i + 1)' PROVE Untraded(i + 1 + 1)
      <4> SUFFICES ASSUME NEW j \in i + 1 + 1 .. n PROVE ~buffer[j].traded
        BY DEF Untraded, n
      <4>1. j - 1 \in i + 1 .. Len(buffer') /\ j - 1 \in 1 .. n - 1 /\ (j - 1) + 1 = j
        BY <1>2, <1>3
      <4>2. buffer'[j - 1] = buffer[j]
        BY <1>3, <4>1
      <4> QED
        BY <3>3, <4>1, <4>2 DEF Untraded
    <3>4. Untraded(i + 1 + 1) => buffer[i + 1].position = account.position
      BY <1>4, <1>14, <3>1 DEF Announced, n
    <3>5. account.version - n + (i + 1) = account'.version - Len(buffer') + i
      BY <1>1, <1>2, <1>3, <1>4, <2>2
    <3> QED
      BY <1>1, <3>1, <3>2, <3>3, <3>4, <3>5
  <2>3. ASSUME NEW i \in 1 .. n - 2, ~buffer'[i + 1].traded
        PROVE  buffer'[i + 1].position = buffer'[i].position
    <3>1. /\ i + 1 \in 1 .. Len(buffer) - 1 /\ buffer'[i] = buffer[i + 1]
          /\ buffer'[i + 1] = buffer[i + 1 + 1]
      BY <1>2, <1>3, <2>3 DEF n
    <3> QED
      BY <1>4, <1>14, <2>3, <3>1 DEF Announced
  <2>4. ASSUME buffer' # <<>> PROVE buffer'[Len(buffer')].balance = account'.balance
    <3>1. n - 1 \in 1 .. n - 1 /\ buffer'[n - 1] = buffer[n]
      BY <1>2, <1>3, <2>4
    <3> QED
      BY <1>1, <1>3, <1>4, <1>14, <3>1 DEF Announced, n
  <2> QED
    BY <2>1, <2>2, <2>3, <2>4 DEF Announced
<1>16. Read'
  <2>1. session'.at = "consuming" => cached'.seeded = cached'.position
    BY <1>4, <1>5, <1>7
  <2>2. ASSUME buffer' = <<>> PROVE cached'.balance = account.balance
    <3>1. n = 1
      BY <1>2, <1>3, <2>2
    <3> QED
      BY <1>1, <1>2, <1>4, <1>5, <1>14, <3>1 DEF Announced, n
  <2>3. ASSUME Untraded(1)' PROVE cached'.position = account.position
    <3>1. Untraded(2)
      <4> SUFFICES ASSUME NEW j \in 2 .. n PROVE ~buffer[j].traded
        BY DEF Untraded, n
      <4>1. j - 1 \in 1 .. Len(buffer') /\ j - 1 \in 1 .. n - 1 /\ (j - 1) + 1 = j
        BY <1>2, <1>3
      <4>2. buffer'[j - 1] = buffer[j]
        BY <1>3, <4>1
      <4> QED
        BY <2>3, <4>1, <4>2 DEF Untraded
    <3>2. CASE e.traded
      <4>1. buffer[1].position = account.position
        BY <1>2, <1>4, <1>14, <3>1 DEF Announced, n
      <4> QED
        BY <1>2, <1>5, <3>2, <4>1
    <3>3. CASE ~e.traded
      <4>1. Untraded(1)
        BY <1>2, <3>1, <3>3 DEF Untraded, n
      <4> QED
        BY <1>1, <1>5, <3>3, <4>1 DEF UserInv, Read
    <3> QED
      BY <1>4, <3>2, <3>3
  <2> QED
    BY <1>1, <1>7, <2>1, <2>2, <2>3 DEF Read
<1>17. Unmixed'
  <2> SUFFICES ASSUME session'.at = "consuming", ~mixed', buffer' # <<>>, ~buffer'[1].traded
               PROVE  buffer'[1].position = cached'.position
    BY DEF Unmixed
  <2>1. 1 \in 1 .. n - 1 /\ 1 \in 1 .. Len(buffer) - 1 /\ buffer'[1] = buffer[1 + 1]
    BY <1>2, <1>3 DEF n
  <2>2. buffer[1 + 1].position = buffer[1].position
    BY <1>4, <1>14, <2>1 DEF Announced
  <2> QED
    BY <1>2, <1>10, <2>1, <2>2
<1> QED
  BY <1>1, <1>7, <1>11, <1>12, <1>13, <1>15, <1>16, <1>17 DEF UserInv

LEMMA UserStep == UserInv /\ [UserNext]_userVars => UserInv'
<1> SUFFICES ASSUME UserInv, [UserNext]_userVars PROVE UserInv'
  OBVIOUS
<1>1. CASE Connect
  BY <1>1, ConnectKeeps
<1>2. CASE ReadAccount
  BY <1>2, ReadAccountKeeps
<1>3. CASE ReadPositions
  BY <1>3, ReadPositionsKeeps
<1>4. CASE ApplyEvent
  BY <1>4, ApplyEventKeeps
<1>5. CASE SessionLost
  BY <1>5, SessionLostKeeps
<1>6. CASE Trade
  BY <1>6, TradeKeeps
<1>7. CASE \E d \in {-1, 1} : Transfer(d) \/ PriceMoves(d)
  BY <1>7, TransferKeeps, PriceKeeps
<1>8. CASE ConnectFails
  BY <1>8, ConnectFailsKeeps
<1>9. CASE UNCHANGED userVars
  BY <1>9 DEF userVars, UserInv, UserShapes, Bounded, Earned, Reached, Announced, Untraded,
              Read, Unmixed, Unseen
<1> QED
  BY <1>1, <1>2, <1>3, <1>4, <1>5, <1>6, <1>7, <1>8, <1>9 DEF UserNext, Service

LEMMA UserInvariance == UserSpec => []UserInv
BY UserInitial, UserStep, PTL DEF UserSpec

(* The stored mark, the cache and the session stay in their types, however *)
(* many changes and outages there are: mark_resyncing and the failure of   *)
(* start() keep apart what a session may be.                               *)
THEOREM UserTyped == UserSpec => []UserTypeOK
<1>1. UserInv => UserTypeOK
  <2> SUFFICES ASSUME UserInv PROVE UserTypeOK
    OBVIOUS
  <2>1. account.version \in 0 .. MaxChanges
    BY AccountAssumption DEF UserInv, UserShapes, Bounded, Account
  <2>2. mark \in 0 .. StartBalance + 2 * MaxChanges
    BY AccountAssumption DEF UserInv, UserShapes, Bounded
  <2> QED
    BY <2>1, <2>2, SessionKinds DEF UserInv, UserShapes, UserTypeOK
<1> QED
  BY <1>1, UserInvariance, PTL

(* A READY cache with nothing left to apply is the account of the venue,   *)
(* because LiveFuturesUserDataService opens the stream before it reads and *)
(* applies what was buffered after.                                        *)
THEOREM ReadyCurrent == UserSpec => []ReadyIsCurrent
<1>1. UserInv => ReadyIsCurrent
  <2> SUFFICES ASSUME UserInv, session.at = "consuming", buffer = <<>>
               PROVE  /\ cached.balance = account.balance /\ cached.position = account.position
                      /\ cached.seeded = account.position
    BY DEF UserInv, ReadyIsCurrent
  <2>1. Untraded(1)
    BY DEF Untraded
  <2> QED
    BY <2>1 DEF UserInv, Read
<1> QED
  BY <1>1, UserInvariance, PTL

(* The high-water mark of LiveAccountDrawdownService was reached by the    *)
(* account, unless the cache it was taken from had mixed two times of it.  *)
THEOREM MarkReached == UserSpec => []MarkWasReached
<1>1. UserInv => MarkWasReached
  BY DEF UserInv, Reached, MarkWasReached
<1> QED
  BY <1>1, UserInvariance, PTL

-----------------------------------------------------------------------------
(***************************************************************************)
(* SessionSwitch                                                           *)
(***************************************************************************)

(* The values of each kind of choice.                                      *)
Values == [exchange |-> Connectors, policy |-> Policies,
           strategy |-> {FirstChoice.strategy, NewStrategy}]
Selectable == [exchange |-> Connectors, policy |-> Policies, strategy |-> {NewStrategy}]

SavedChoice == [exchange : Connectors \cup {NotChosen},
                policy : Policies \cup {NotChosen},
                strategy : {NotChosen, NewStrategy}]
Holder  == [at : {"idle", "positions", "save", "staged"}, target : Goals]
BootState == [at : {"down", "recovering", "running"}, file : Seq(Connectors), activate : BOOLEAN,
              main : Settings, config : Settings]

SwitchShapes ==
    /\ \A f \in DOMAIN saved : saved[f] \in SavedChoice
    /\ boot \in BootState /\ boot.file # <<>>
    /\ runtime \in [active : BOOLEAN, cycle : BOOLEAN, recovering : BOOLEAN]
    /\ holding \subseteq Connectors /\ staged \in [target : Goals, committed : BOOLEAN]
    /\ switch \in [Switchers -> Holder]
    /\ DOMAIN told = Kinds /\ \A k \in Kinds : told[k].value \in Values[k]
    /\ DOMAIN asked = Kinds
    /\ astray \in BOOLEAN /\ rushed \in BOOLEAN

(* What a switcher is busy with is a target, the one that has staged is    *)
(* the coordinator's until it commits, and nothing survives the process.   *)
Staging ==
    /\ \A w \in Switchers : /\ switch[w].at = "idle" <=> switch[w].target = Nothing
                            /\ switch[w].at = "staged" => staged.target = switch[w].target
                                                          /\ ~staged.committed
    /\ \A v, w \in Switchers : switch[v].at = "staged" /\ switch[w].at = "staged" => v = w
    /\ switch["exit"].target.kind \in {"policy", NotChosen}
    /\ staged.target = Nothing => ~staged.committed
    /\ ~Up => runtime = Still /\ staged = Unstaged /\ switch = Quiet

Leaving == staged.committed /\ staged.target.kind = "exchange"

(* While its exchange is switched the runtime is paused, and from the      *)
(* check of the positions on nothing is open there.                        *)
Behind ==
    /\ boot.main.exchange = boot.config.exchange
    /\ ~astray /\ Up => told["exchange"].value = IF Leaving THEN staged.target.value
                                                 ELSE boot.config.exchange
    /\ ~rushed /\ Moving => Paused
    /\ ~rushed /\ (Leaving \/ \E w \in Switchers : switch[w].at \in {"save", "staged"}
                                                   /\ switch[w].target.kind = "exchange")
          => boot.config.exchange \notin holding
    /\ ~rushed /\ ~astray
          => holding \subseteq {IF Up THEN boot.config.exchange ELSE told["exchange"].value}

(* What a switcher is busy with differs from what the session has and was  *)
(* asked for since the operator was last told, and once staged it is in    *)
(* the session's database.                                                 *)
Pending ==
    \A w \in Switchers : switch[w].at # "idle" =>
        LET target == switch[w].target
        IN  /\ target.value # boot.config[target.kind]
            /\ target.value \in asked[target.kind] \cup {told[target.kind].value}
            /\ switch[w].at = "staged" => Stored(boot.file)[target.kind] = target.value

(* What the operator was told of in the database that processes boot from  *)
(* is stored there, unless something else was asked for since.             *)
Chosen ==
    /\ \A k \in {"exchange", "policy"} : told[k].file = Base
          => Or(Stored(Base)[k], FirstChoice[k]) \in asked[k] \cup {told[k].value}
    /\ told["strategy"].file = Base /\ told["strategy"].value = NewStrategy
          => Or(Stored(Base).strategy, FirstChoice.strategy) = NewStrategy
    /\ NewStrategy \notin asked["strategy"] \cup {told["strategy"].value}
          => \A f \in DOMAIN saved : saved[f].strategy = NotChosen

SwitchInv == SwitchShapes /\ Staging /\ Behind /\ Pending /\ Chosen
-----------------------------------------------------------------------------
(* Lemmas about the choices.                                               *)

LEMMA TargetsAreChoices ==
    /\ \A t \in Targets : /\ t.kind \in Kinds /\ t.value \in Selectable[t.kind]
                          /\ t.value # NotChosen /\ t # Nothing
    /\ Nothing.kind = NotChosen /\ NotChosen \notin Kinds
    /\ Targets \subseteq Goals /\ Nothing \in Goals
<1>1. \A t \in Targets : t.kind \in Kinds /\ t.value \in Selectable[t.kind]
  BY DEF Targets, Kinds, Selectable
<1>2. \A t \in Targets : t.value # NotChosen
  BY ChoiceAssumption DEF Targets
<1>3. Nothing.kind = NotChosen /\ Nothing.value = NotChosen /\ NotChosen \notin Kinds
  BY DEF Nothing, NotChosen, Kinds
<1> QED
  BY <1>1, <1>2, <1>3 DEF Goals

LEMMA SettingsOf ==
    /\ FirstChoice \in Settings
    /\ \A s \in Settings, k \in Kinds : s[k] \in Values[k] /\ DOMAIN s = Kinds
    /\ \A s \in Settings, k \in Kinds : \A v \in Values[k] :
          /\ [s EXCEPT ![k] = v] \in Settings
          /\ \A j \in Kinds : [s EXCEPT ![k] = v][j] = IF j = k THEN v ELSE s[j]
    /\ \A k \in Kinds : Selectable[k] \subseteq Values[k] /\ NotChosen \notin Values[k]
<1>1. FirstChoice \in Settings
  BY ChoiceAssumption DEF Settings
<1>2. \A s \in Settings, k \in Kinds : s[k] \in Values[k] /\ DOMAIN s = Kinds
  BY DEF Settings, Kinds, Values
<1>3. ASSUME NEW s \in Settings, NEW k \in Kinds, NEW v \in Values[k]
      PROVE  /\ [s EXCEPT ![k] = v] \in Settings
             /\ \A j \in Kinds : [s EXCEPT ![k] = v][j] = IF j = k THEN v ELSE s[j]
  BY DEF Settings, Kinds, Values
<1>4. \A k \in Kinds : Selectable[k] \subseteq Values[k] /\ NotChosen \notin Values[k]
  BY ChoiceAssumption DEF Kinds, Values, Selectable
<1> QED
  BY <1>1, <1>2, <1>3, <1>4

(* What a database tells is a choice of its kind, or none.                 *)
LEMMA StoredOf ==
    ASSUME \A f \in DOMAIN saved : saved[f] \in SavedChoice, NEW file
    PROVE  /\ Stored(file) \in SavedChoice
           /\ \A k \in Kinds : Stored(file)[k] \in Selectable[k] \cup {NotChosen}
           /\ \A s \in Settings, k \in Kinds : Or(Stored(file)[k], s[k]) \in Values[k]
<1>1. Stored(file) \in SavedChoice
  BY DEF Stored, SavedChoice, Kinds
<1>2. \A k \in Kinds : Stored(file)[k] \in Selectable[k] \cup {NotChosen}
  BY <1>1 DEF SavedChoice, Kinds, Selectable
<1> QED
  BY <1>1, <1>2, SettingsOf DEF Or

(* A choice is saved in the database of the session and nowhere else.      *)
LEMMA SavedOf ==
    ASSUME SwitchShapes, NEW t \in Targets, Saved(t)
    PROVE  /\ \A f \in DOMAIN saved' : saved'[f] \in SavedChoice
           /\ \A f : \A k \in Kinds :
                 Stored(f)'[k] = IF f = boot.file /\ k = t.kind THEN t.value ELSE Stored(f)[k]
           /\ DOMAIN saved' = DOMAIN saved \cup {boot.file}
           /\ saved'[boot.file] = [Stored(boot.file) EXCEPT ![t.kind] = t.value]
           /\ \A f \in DOMAIN saved : f # boot.file => saved'[f] = saved[f]
<1> DEFINE b == boot.file
           r == [Stored(b) EXCEPT ![t.kind] = t.value]
<1>1. Stored(b) \in SavedChoice /\ t.kind \in Kinds /\ t.value \in Selectable[t.kind]
  BY StoredOf, TargetsAreChoices DEF SwitchShapes
<1>2. r \in SavedChoice /\ \A k \in Kinds : r[k] = IF k = t.kind THEN t.value ELSE Stored(b)[k]
  BY <1>1 DEF SavedChoice, Kinds, Selectable
<1> HIDE DEF r
<1>3. saved' = [f \in DOMAIN saved \cup {b} |-> IF f = b THEN r ELSE saved[f]]
  BY DEF Saved, r
<1>4. /\ DOMAIN saved' = DOMAIN saved \cup {b} /\ saved'[b] = r
      /\ \A f \in DOMAIN saved : f # b => saved'[f] = saved[f]
  BY <1>3
<1>5. \A f \in DOMAIN saved' : saved'[f] \in SavedChoice
  BY <1>2, <1>4 DEF SwitchShapes
<1>6. \A f : f # b => Stored(f)' = Stored(f)
  BY <1>4 DEF Stored
<1>7. \A f : f = b => Stored(f)' = r
  BY <1>4 DEF Stored
<1> QED
  BY <1>2, <1>4, <1>5, <1>6, <1>7 DEF r

(* Two that are busy with the same kind of choice are with the same value. *)
LEMMA Twins ==
    ASSUME SwitchInv, NEW v \in Switchers, NEW w \in Switchers, switch[v].at # "idle",
           switch[w].at # "idle", switch[v].target.kind = switch[w].target.kind
    PROVE  v = w \/ switch[v].target.value = switch[w].target.value
<1> DEFINE t == switch[v].target
           u == switch[w].target
<1>1. t \in Targets /\ u \in Targets
  BY DEF SwitchInv, SwitchShapes, Staging, Holder, Goals
<1>2. t.kind \in Kinds /\ t.value \in Selectable[t.kind] /\ u.value \in Selectable[t.kind]
  BY <1>1, TargetsAreChoices
<1>3. CASE t.kind = "exchange"
  BY <1>2, <1>3, TargetsAreChoices DEF SwitchInv, Staging, Switchers, NotChosen
<1>4. CASE t.kind = "policy"
  <2>1. t.value \in Policies /\ u.value \in Policies /\ boot.config["policy"] \in Policies
    BY <1>2, <1>4 DEF Selectable, SwitchInv, SwitchShapes, BootState, Settings
  <2>2. t.value # boot.config["policy"] /\ u.value # boot.config["policy"]
    BY <1>4 DEF SwitchInv, Pending
  <2> QED
    BY <2>1, <2>2, ChoiceAssumption
<1>5. CASE t.kind = "strategy"
  BY <1>2, <1>5 DEF Selectable
<1> QED
  BY <1>2, <1>3, <1>4, <1>5 DEF Kinds

LEMMA SwitchInitial == SwitchInit => SwitchInv
<1> SUFFICES ASSUME SwitchInit PROVE SwitchInv
  OBVIOUS
<1>1. /\ DOMAIN saved = {} /\ holding = {} /\ runtime = Still /\ staged = Unstaged
      /\ switch = Quiet /\ astray = FALSE /\ rushed = FALSE
      /\ boot = [at |-> "down", file |-> Base, activate |-> TRUE, main |-> FirstChoice,
                 config |-> FirstChoice]
  BY DEF SwitchInit
<1>2. /\ told = [k \in Kinds |-> [value |-> FirstChoice[k], file |-> Base]]
      /\ asked = [k \in Kinds |-> {}]
  BY DEF SwitchInit
<1>3. Base \in Seq(Connectors) /\ Base # <<>>
  BY ChoiceAssumption DEF Base
<1>4. FirstChoice \in Settings /\ \A k \in Kinds : FirstChoice[k] \in Values[k]
  BY SettingsOf
<1>5. boot \in BootState /\ boot.file # <<>> /\ ~Up
  BY <1>1, <1>3, <1>4 DEF BootState, Up
<1>6. /\ Still \in [active : BOOLEAN, cycle : BOOLEAN, recovering : BOOLEAN]
      /\ Unstaged \in [target : Goals, committed : BOOLEAN]
      /\ Quiet \in [Switchers -> Holder] /\ ~Unstaged.committed /\ Unstaged.target = Nothing
      /\ \A w \in Switchers : Quiet[w].at = "idle" /\ Quiet[w].target = Nothing
  BY TargetsAreChoices DEF Still, Unstaged, Quiet, Holder
<1>7. SwitchShapes
  <2>1. DOMAIN told = Kinds /\ \A k \in Kinds : told[k].value \in Values[k]
    BY <1>2, <1>4
  <2>2. DOMAIN asked = Kinds
    BY <1>2
  <2> QED
    BY <1>1, <1>5, <1>6, <2>1, <2>2 DEF SwitchShapes
<1>8. Staging
  BY <1>1, <1>6, TargetsAreChoices DEF Staging, Switchers
<1>9. Behind
  BY <1>1, <1>5, <1>6, TargetsAreChoices DEF Behind, Leaving, Moving, Paused, Still, NotChosen
<1>10. Pending
  BY <1>1, <1>6 DEF Pending
<1>11. Chosen
  <2>1. \A k \in Kinds : Stored(Base)[k] = NotChosen /\ Or(Stored(Base)[k], FirstChoice[k]) = FirstChoice[k]
    BY <1>1 DEF Stored, Or
  <2>2. \A k \in Kinds : told[k].value = FirstChoice[k]
    BY <1>2
  <2>3. {"exchange", "policy", "strategy"} = Kinds
    BY DEF Kinds
  <2> QED
    BY <1>1, <2>1, <2>2, <2>3 DEF Chosen
<1> QED
  BY <1>7, <1>8, <1>9, <1>10, <1>11 DEF SwitchInv

(* The runtime is activated, paused, runs a cycle or recovers.             *)
LEMMA RunsKeeps ==
    ASSUME SwitchInv, Up,
           UNCHANGED <<saved, holding, staged, switch, told, asked, astray>>,
           boot' = boot \/ boot' = [boot EXCEPT !.at = "running"],
           runtime' \in [active : BOOLEAN, cycle : BOOLEAN, recovering : BOOLEAN],
           rushed' \in BOOLEAN, rushed => rushed', ~rushed' /\ Moving => Paused'
    PROVE  SwitchInv'
<1>1. /\ boot' \in BootState /\ boot'.file = boot.file /\ boot'.main = boot.main
      /\ boot'.config = boot.config /\ Up'
  BY DEF SwitchInv, SwitchShapes, BootState, Up
<1>2. SwitchShapes'
  BY <1>1 DEF SwitchInv, SwitchShapes
<1>3. Staging'
  BY <1>1 DEF SwitchInv, Staging
<1>4. Behind'
  <2>1. Moving' <=> Moving
    BY DEF Moving
  <2> QED
    BY <1>1, <2>1 DEF SwitchInv, Behind, Leaving
<1>5. \A f : Stored(f)' = Stored(f)
  BY DEF Stored
<1>6. Pending' /\ Chosen'
  BY <1>1, <1>5 DEF SwitchInv, Pending, Chosen
<1> QED
  BY <1>2, <1>3, <1>4, <1>6 DEF SwitchInv

LEMMA ActivateKeeps ==
    ASSUME SwitchInv, Up, Activate,
           UNCHANGED <<saved, holding, staged, switch, told, asked, astray>>,
           boot' = boot \/ boot' = [boot EXCEPT !.at = "running"]
    PROVE  SwitchInv'
<1>1. runtime' \in [active : BOOLEAN, cycle : BOOLEAN, recovering : BOOLEAN]
  BY DEF Activate, SwitchInv, SwitchShapes
<1>2. rushed' = (rushed \/ Moving) /\ rushed \in BOOLEAN
  BY DEF Activate, SwitchInv, SwitchShapes
<1>3. Moving \in BOOLEAN
  BY DEF Moving
<1>4. rushed' \in BOOLEAN /\ (rushed => rushed') /\ (~rushed' => ~Moving)
  BY <1>2, <1>3, Zenon
<1> QED
  BY <1>1, <1>4, RunsKeeps

(* A position is opened or closed where the session is.                    *)
LEMMA HoldingKeeps ==
    ASSUME SwitchInv,
           UNCHANGED <<saved, boot, runtime, staged, switch, told, asked, astray, rushed>>,
           \/ runtime.cycle /\ holding' = holding \cup {boot.config.exchange}
           \/ \E e \in Connectors : holding' = holding \ {e}
    PROVE  SwitchInv'
<1>1. \A f : Stored(f)' = Stored(f)
  BY DEF Stored
<1>2. boot.config.exchange \in Connectors
  BY DEF SwitchInv, SwitchShapes, BootState, Settings
<1>3. SwitchShapes' /\ Staging' /\ Pending' /\ Chosen'
  BY <1>1, <1>2 DEF SwitchInv, SwitchShapes, Staging, Pending, Chosen, Up
<1>4. (Moving' <=> Moving) /\ (Leaving' <=> Leaving) /\ (Up' <=> Up) /\ (Paused' <=> Paused)
  BY DEF Moving, Leaving, Up, Paused
<1>5. CASE runtime.cycle /\ holding' = holding \cup {boot.config.exchange}
  <2>1. Up /\ (~rushed => ~Moving)
    BY <1>5 DEF SwitchInv, Staging, Behind, Still, Paused
  <2>2. ~Moving => ~Leaving /\ ~\E w \in Switchers : switch[w].at \in {"save", "staged"}
                                                     /\ switch[w].target.kind = "exchange"
    BY DEF Moving, Leaving
  <2> QED
    BY <1>3, <1>4, <1>5, <2>1, <2>2 DEF SwitchInv, Behind
<1>6. CASE \E e \in Connectors : holding' = holding \ {e}
  BY <1>3, <1>4, <1>6 DEF SwitchInv, Behind
<1> QED
  BY <1>5, <1>6

(* The session that opens has the choices of main(), but for the strategy. *)
LEMMA OpenedOf ==
    ASSUME SwitchShapes, NEW main \in Settings, NEW file \in Seq(Connectors), file # <<>>,
           NEW activate \in BOOLEAN
    PROVE  LET opened == Opened(main, file, activate)
           IN  /\ opened \in BootState /\ opened.at = "recovering" /\ opened.file = file
               /\ opened.main = main
               /\ \A k \in Kinds : k # "strategy" => opened.config[k] = main[k]
               /\ opened.config["strategy"] = Or(Stored(file).strategy, main.strategy)
<1> DEFINE value == Or(Stored(file).strategy, main.strategy)
           config == [main EXCEPT !.strategy = value]
<1>1. "strategy" \in Kinds
  BY DEF Kinds
<1>2. value \in Values["strategy"]
  BY <1>1, StoredOf DEF SwitchShapes
<1> HIDE DEF value
<1>3. config \in Settings /\ \A k \in Kinds : config[k] = IF k = "strategy" THEN value ELSE main[k]
  BY <1>1, <1>2, SettingsOf
<1>4. Opened(main, file, activate) = [at |-> "recovering", file |-> file, activate |-> activate,
                                      main |-> main, config |-> config]
  BY DEF Opened, value
<1> HIDE DEF config
<1>5. /\ Opened(main, file, activate) \in BootState
      /\ Opened(main, file, activate).at = "recovering"
      /\ Opened(main, file, activate).file = file /\ Opened(main, file, activate).main = main
      /\ Opened(main, file, activate).config = config
  BY <1>3, <1>4 DEF BootState
<1> QED
  BY <1>1, <1>3, <1>5 DEF value

LEMMA ScopedOf ==
    ASSUME NEW file \in Seq(Connectors), file # <<>>, NEW e \in Connectors
    PROVE  Scoped(file, e) \in Seq(Connectors) /\ Scoped(file, e) # <<>>
<1>1. Append(file, e) \in Seq(Connectors) /\ Append(file, e) # <<>>
  OBVIOUS
<1> QED
  BY <1>1 DEF Scoped

LEMMA QuietIsStill ==
    ASSUME staged = Unstaged, switch = Quiet
    PROVE  ~Leaving /\ ~Moving /\ \A w \in Switchers : switch[w].at = "idle"
BY DEF Unstaged, Quiet, Leaving, Moving

LEMMA RestoredOf ==
    ASSUME SwitchShapes, NEW file
    PROVE  /\ Restored(file) \in Settings
           /\ \A k \in Kinds : Restored(file)[k] = Or(Stored(file)[k], FirstChoice[k])
<1>1. \A k \in Kinds : Or(Stored(file)[k], FirstChoice[k]) \in Values[k]
  BY StoredOf, SettingsOf DEF SwitchShapes
<1>2. Restored(file) = [k \in Kinds |-> Or(Stored(file)[k], FirstChoice[k])]
  BY DEF Restored
<1> QED
  BY <1>1, <1>2 DEF Kinds, Values, Settings

LEMMA StartKeepsChoices ==
    ASSUME SwitchInv, Start
    PROVE  /\ SwitchInv'
           /\ \A k \in Kinds : k # "strategy" => boot'.config[k] = Or(Stored(Base)[k], FirstChoice[k])
           /\ \E file : boot'.config["strategy"]
                 = Or(Stored(file).strategy, Or(Stored(Base).strategy, FirstChoice.strategy))
<1> DEFINE main == Restored(Base)
           file == Scoped(Base, main.exchange)
<1>1. /\ ~Up /\ boot' = Opened(main, file, TRUE)
      /\ astray' = (astray \/ main.exchange # told["exchange"].value)
      /\ UNCHANGED <<saved, runtime, holding, staged, switch, told, asked, rushed>>
  BY DEF Start, Up
<1>2. /\ main \in Settings /\ main.exchange \in Connectors
      /\ \A k \in Kinds : main[k] = Or(Stored(Base)[k], FirstChoice[k])
  BY RestoredOf DEF SwitchInv, Settings
<1>3. Base \in Seq(Connectors) /\ Base # <<>>
  BY ChoiceAssumption DEF Base
<1>4. file \in Seq(Connectors) /\ file # <<>>
  BY <1>2, <1>3, ScopedOf
<1> HIDE DEF main, file
<1>5. /\ boot' \in BootState /\ boot'.at = "recovering" /\ boot'.file = file /\ boot'.main = main
      /\ \A k \in Kinds : k # "strategy" => boot'.config[k] = main[k]
      /\ boot'.config["strategy"] = Or(Stored(file).strategy, main.strategy)
  <2> DEFINE opened == Opened(main, file, TRUE)
  <2>1. SwitchShapes
    BY DEF SwitchInv
  <2>2. /\ opened \in BootState /\ opened.at = "recovering" /\ opened.file = file
        /\ opened.main = main
        /\ \A k \in Kinds : k # "strategy" => opened.config[k] = main[k]
        /\ opened.config["strategy"] = Or(Stored(file).strategy, main.strategy)
    BY <1>2, <1>4, <2>1, OpenedOf
  <2>3. boot' = opened
    BY <1>1
  <2> HIDE DEF opened
  <2> QED
    BY <2>2, <2>3
<1>6. boot'.config.exchange = main.exchange /\ main["strategy"] = Or(Stored(Base)["strategy"], FirstChoice["strategy"])
  BY <1>2, <1>5 DEF Kinds
<1>7. runtime = Still /\ staged = Unstaged /\ switch = Quiet
  BY <1>1 DEF SwitchInv, Staging
<1>8. ~Leaving' /\ ~Moving' /\ \A w \in Switchers : switch'[w].at = "idle"
  BY <1>1, <1>7, QuietIsStill DEF Leaving, Moving
<1>9. astray' \in BOOLEAN /\ (~astray' => ~astray /\ main.exchange = told["exchange"].value)
  BY <1>1 DEF SwitchInv, SwitchShapes
<1>10. SwitchShapes'
  BY <1>1, <1>4, <1>5, <1>9 DEF SwitchInv, SwitchShapes
<1>11. Up'
  BY <1>5 DEF Up
<1>12. Staging'
  BY <1>1, <1>11 DEF SwitchInv, Staging
<1>13. Behind'
  BY <1>1, <1>5, <1>6, <1>8, <1>9, <1>11 DEF SwitchInv, Behind
<1>14. Pending'
  BY <1>8 DEF Pending
<1>15. \A f : Stored(f)' = Stored(f)
  BY <1>1 DEF Stored
<1>16. Chosen'
  BY <1>1, <1>15 DEF SwitchInv, Chosen
<1> QED
  BY <1>2, <1>5, <1>6, <1>10, <1>12, <1>13, <1>14, <1>16 DEF SwitchInv

LEMMA EndKeeps == ASSUME SwitchInv, EndOfProcess PROVE SwitchInv'
<1>1. /\ Up /\ boot' = [boot EXCEPT !.at = "down"] /\ runtime' = Still /\ staged' = Unstaged
      /\ switch' = Quiet /\ UNCHANGED <<saved, holding, told, asked, astray, rushed>>
  BY DEF EndOfProcess
<1>2. /\ boot' \in BootState /\ boot'.file = boot.file /\ boot'.main = boot.main
      /\ boot'.config = boot.config /\ ~Up'
  BY <1>1 DEF SwitchInv, SwitchShapes, BootState, Up
<1>3. /\ Still \in [active : BOOLEAN, cycle : BOOLEAN, recovering : BOOLEAN]
      /\ Unstaged \in [target : Goals, committed : BOOLEAN] /\ Quiet \in [Switchers -> Holder]
      /\ ~Unstaged.committed /\ Unstaged.target = Nothing
      /\ \A w \in Switchers : Quiet[w].at = "idle" /\ Quiet[w].target = Nothing
  BY TargetsAreChoices DEF Still, Unstaged, Quiet, Holder
<1>4. SwitchShapes'
  BY <1>1, <1>2, <1>3 DEF SwitchInv, SwitchShapes
<1>5. Staging'
  BY <1>1, <1>2, <1>3, TargetsAreChoices DEF Staging, Switchers
<1>6. ~Leaving' /\ ~Moving' /\ \A w \in Switchers : switch'[w].at = "idle"
  BY <1>1, <1>3 DEF Leaving, Moving
<1>7. ASSUME ~rushed', ~astray' PROVE holding \subseteq {told["exchange"].value}
  <2>1. CASE Leaving
    BY <1>1, <1>7, <2>1 DEF SwitchInv, Behind
  <2>2. CASE ~Leaving
    BY <1>1, <1>7, <2>2 DEF SwitchInv, Behind
  <2> QED
    BY <2>1, <2>2
<1>8. Behind'
  BY <1>1, <1>2, <1>6, <1>7 DEF SwitchInv, Behind
<1>9. Pending'
  BY <1>6 DEF Pending
<1>10. \A f : Stored(f)' = Stored(f)
  BY <1>1 DEF Stored
<1>11. Chosen'
  BY <1>1, <1>10 DEF SwitchInv, Chosen
<1> QED
  BY <1>4, <1>5, <1>8, <1>9, <1>11 DEF SwitchInv

LEMMA NextSessionKeeps == ASSUME SwitchInv, NextSession PROVE SwitchInv'
<1> DEFINE target == staged.target
           main == [boot.main EXCEPT ![target.kind] = target.value]
           file == Scoped(boot.file, main.exchange)
           activate == target.kind \notin {"policy", "strategy"}
<1>1. /\ Up /\ staged.committed /\ boot' = Opened(main, file, activate) /\ runtime' = Still
      /\ staged' = Unstaged /\ switch' = Quiet
      /\ UNCHANGED <<saved, holding, told, asked, astray, rushed>>
  BY DEF NextSession, Up
<1>2. target \in Targets /\ target.kind \in Kinds /\ target.value \in Values[target.kind]
  <2>1. target \in Targets
    BY <1>1 DEF SwitchInv, SwitchShapes, Staging, Goals
  <2> QED
    BY <2>1, TargetsAreChoices, SettingsOf
<1>3. boot.main \in Settings /\ boot.config \in Settings /\ boot.file \in Seq(Connectors) /\ boot.file # <<>>
  BY DEF SwitchInv, SwitchShapes, BootState
<1>4. /\ main \in Settings
      /\ \A k \in Kinds : main[k] = IF k = target.kind THEN target.value ELSE boot.main[k]
  <2> HIDE DEF target
  <2> DEFINE s == boot.main
             kind == target.kind
             value == target.value
  <2>1. s \in Settings /\ kind \in Kinds /\ value \in Values[kind]
    BY <1>2, <1>3
  <2> HIDE DEF s, kind, value
  <2>2. /\ [s EXCEPT ![kind] = value] \in Settings
        /\ \A j \in Kinds : [s EXCEPT ![kind] = value][j] = IF j = kind THEN value ELSE s[j]
    BY <2>1, SettingsOf
  <2> QED
    BY <2>2 DEF s, kind, value
<1> HIDE DEF main, target
<1>5. main.exchange \in Connectors /\ main.exchange = IF target.kind = "exchange" THEN target.value
                                                      ELSE boot.main.exchange
  BY <1>4 DEF Settings, Kinds
<1>6. file \in Seq(Connectors) /\ file # <<>> /\ activate \in BOOLEAN
  BY <1>3, <1>5, ScopedOf
<1> HIDE DEF file, activate
<1>7. /\ boot' \in BootState /\ boot'.at = "recovering" /\ boot'.file = file /\ boot'.main = main
      /\ \A k \in Kinds : k # "strategy" => boot'.config[k] = main[k]
  BY <1>1, <1>4, <1>6, OpenedOf DEF SwitchInv
<1>8. boot'.config.exchange = main.exchange /\ Up'
  BY <1>7 DEF Kinds, Up
<1>9. /\ Still \in [active : BOOLEAN, cycle : BOOLEAN, recovering : BOOLEAN]
      /\ Unstaged \in [target : Goals, committed : BOOLEAN] /\ Quiet \in [Switchers -> Holder]
      /\ ~Unstaged.committed /\ Unstaged.target = Nothing
      /\ \A w \in Switchers : Quiet[w].at = "idle" /\ Quiet[w].target = Nothing
  BY TargetsAreChoices DEF Still, Unstaged, Quiet, Holder
<1>10. SwitchShapes'
  BY <1>1, <1>6, <1>7, <1>9 DEF SwitchInv, SwitchShapes
<1>11. Staging'
  BY <1>1, <1>8, <1>9, TargetsAreChoices DEF Staging, Switchers
<1>12. ~Leaving' /\ ~Moving' /\ \A w \in Switchers : switch'[w].at = "idle"
  BY <1>1, <1>9 DEF Leaving, Moving
<1>13. ASSUME ~astray
       PROVE  /\ told["exchange"].value = main.exchange
              /\ ~rushed => holding \subseteq {main.exchange}
  <2>1. CASE target.kind = "exchange"
    BY <1>1, <1>5, <1>13, <2>1 DEF SwitchInv, Behind, Leaving, target
  <2>2. CASE target.kind # "exchange"
    BY <1>1, <1>5, <1>13, <2>2 DEF SwitchInv, Behind, Leaving, target
  <2> QED
    BY <2>1, <2>2
<1>14. Behind'
  BY <1>1, <1>7, <1>8, <1>12, <1>13 DEF SwitchInv, Behind
<1>15. Pending'
  BY <1>12 DEF Pending
<1>16. \A f : Stored(f)' = Stored(f)
  BY <1>1 DEF Stored
<1>17. Chosen'
  BY <1>1, <1>16 DEF SwitchInv, Chosen
<1> QED
  BY <1>10, <1>11, <1>14, <1>15, <1>17 DEF SwitchInv

LEMMA PutOf ==
    ASSUME SwitchShapes, NEW w \in Switchers, NEW target \in Goals,
           NEW place \in {"idle", "positions", "save", "staged"}, Put(w, place, target)
    PROVE  /\ switch' \in [Switchers -> Holder]
           /\ switch'[w].at = place /\ switch'[w].target = target
           /\ \A v \in Switchers : v # w => switch'[v] = switch[v]
<1> DEFINE r == [at |-> place, target |-> target]
<1>1. r \in Holder /\ r.at = place /\ r.target = target
  BY DEF Holder
<1>2. switch' = [switch EXCEPT ![w] = r]
  BY DEF Put
<1> HIDE DEF r
<1> QED
  BY <1>1, <1>2 DEF SwitchShapes

(* What a switcher is busy with is a target, of a session that is up.      *)
LEMMA BusyOf ==
    ASSUME SwitchInv, NEW w \in Switchers, switch[w].at # "idle"
    PROVE  /\ switch[w].target \in Targets /\ Up
           /\ switch[w].target.kind \in Kinds
           /\ switch[w].target.value \in Values[switch[w].target.kind]
           /\ switch[w].target.value # NotChosen /\ switch[w].target # Nothing
<1>1. switch[w].target \in Targets
  BY DEF SwitchInv, SwitchShapes, Staging, Holder, Goals
<1>2. Up
  BY DEF SwitchInv, Staging, Quiet
<1> QED
  BY <1>1, <1>2, TargetsAreChoices, SettingsOf

(* A pending choice is saved: whatever it replaces was not acknowledged    *)
(* since, or is the same.                                                  *)
LEMMA SavedKeeps ==
    ASSUME SwitchInv, NEW w \in Switchers, switch[w].at # "idle", Saved(switch[w].target),
           UNCHANGED <<told, asked>>
    PROVE  /\ \A f \in DOMAIN saved' : saved'[f] \in SavedChoice
           /\ Chosen'
           /\ \A f : f = boot.file => /\ Stored(f)'[switch[w].target.kind] = switch[w].target.value
                                      /\ \A v \in Switchers : switch[v].at = "staged"
                                            => Stored(f)'[switch[v].target.kind] = switch[v].target.value
<1> DEFINE t == switch[w].target
<1>1. t \in Targets /\ t.kind \in Kinds /\ t.value \in Values[t.kind] /\ t.value # NotChosen
  BY BusyOf
<1>2. t.value \in asked[t.kind] \cup {told[t.kind].value}
  BY DEF SwitchInv, Pending
<1>3. Saved(t) /\ SwitchShapes
  BY DEF SwitchInv
<1> HIDE DEF t
<1>4. /\ \A f \in DOMAIN saved' : saved'[f] \in SavedChoice
      /\ \A f : \A k \in Kinds :
            Stored(f)'[k] = IF f = boot.file /\ k = t.kind THEN t.value ELSE Stored(f)[k]
      /\ DOMAIN saved' = DOMAIN saved \cup {boot.file}
      /\ \A f \in DOMAIN saved : f # boot.file => saved'[f] = saved[f]
      /\ saved'[boot.file] = [Stored(boot.file) EXCEPT ![t.kind] = t.value]
  BY <1>1, <1>3, SavedOf
<1>5. t.kind = "strategy" => t.value = NewStrategy
  BY <1>1, TargetsAreChoices DEF Selectable
<1>6. Kinds = {"exchange", "policy", "strategy"}
  BY DEF Kinds
<1>7. ASSUME NEW k \in {"exchange", "policy"}, told'[k].file = Base
      PROVE  Or(Stored(Base)'[k], FirstChoice[k]) \in asked'[k] \cup {told'[k].value}
  <2>1. Stored(Base)'[k] = IF Base = boot.file /\ k = t.kind THEN t.value ELSE Stored(Base)[k]
    BY <1>4, <1>6
  <2>2. Or(Stored(Base)[k], FirstChoice[k]) \in asked[k] \cup {told[k].value}
    BY <1>7 DEF SwitchInv, Chosen
  <2> QED
    BY <1>1, <1>2, <2>1, <2>2 DEF Or
<1>8. ASSUME told["strategy"].file = Base, told["strategy"].value = NewStrategy
      PROVE  Or(Stored(Base)'["strategy"], FirstChoice["strategy"]) = NewStrategy
  <2>1. Stored(Base)'["strategy"] = IF Base = boot.file /\ "strategy" = t.kind THEN t.value
                                    ELSE Stored(Base)["strategy"]
    BY <1>4, <1>6
  <2>2. Or(Stored(Base)["strategy"], FirstChoice["strategy"]) = NewStrategy
    BY <1>8 DEF SwitchInv, Chosen
  <2> QED
    BY <1>1, <1>5, <2>1, <2>2 DEF Or
<1>9. ASSUME NewStrategy \notin asked["strategy"] \cup {told["strategy"].value},
             NEW f \in DOMAIN saved'
      PROVE  saved'[f].strategy = NotChosen
  <2>1. t.kind # "strategy"
    BY <1>2, <1>5, <1>9
  <2>2. \A g \in DOMAIN saved : saved[g].strategy = NotChosen
    BY <1>9 DEF SwitchInv, Chosen
  <2>3. Stored(boot.file)["strategy"] = NotChosen
    BY <1>6, <2>2 DEF Stored
  <2>4. Stored(boot.file) \in SavedChoice
    BY StoredOf DEF SwitchInv, SwitchShapes
  <2>5. saved'[boot.file]["strategy"] = NotChosen
    BY <1>4, <2>1, <2>3, <2>4 DEF SavedChoice
  <2> QED
    BY <1>4, <2>2, <2>5
<1>10. Chosen'
  BY <1>7, <1>8, <1>9 DEF Chosen
<1>11. ASSUME NEW v \in Switchers, switch[v].at = "staged", NEW f, f = boot.file
       PROVE  Stored(f)'[switch[v].target.kind] = switch[v].target.value
  <2>1. switch[v].target.kind \in Kinds /\ Stored(f)[switch[v].target.kind] = switch[v].target.value
    BY <1>11, BusyOf DEF SwitchInv, Pending
  <2>2. switch[v].target.kind = t.kind => switch[v].target.value = t.value
    BY <1>11, Twins DEF t
  <2> QED
    BY <1>4, <1>11, <2>1, <2>2
<1>12. \A f : f = boot.file => Stored(f)'[t.kind] = t.value
  BY <1>1, <1>4
<1> QED
  BY <1>4, <1>10, <1>11, <1>12 DEF t

(* A switcher gives up, its choice saved or not.                           *)
LEMMA IdleKeeps ==
    ASSUME SwitchInv, NEW w \in Switchers, switch[w].at # "idle", Put(w, "idle", Nothing),
           UNCHANGED <<boot, runtime, holding, staged, told, asked, astray, rushed>>,
           UNCHANGED saved \/ Saved(switch[w].target)
    PROVE  SwitchInv'
<1>1. /\ switch' \in [Switchers -> Holder] /\ switch'[w].at = "idle"
      /\ switch'[w].target = Nothing /\ \A v \in Switchers : v # w => switch'[v] = switch[v]
  BY PutOf, TargetsAreChoices DEF SwitchInv
<1>2. Up /\ Up'
  BY BusyOf DEF Up
<1>3. /\ \A f \in DOMAIN saved' : saved'[f] \in SavedChoice
      /\ Chosen'
      /\ \A f : f = boot.file => \A v \in Switchers : switch[v].at = "staged"
            => Stored(f)'[switch[v].target.kind] = switch[v].target.value
  <2>1. CASE UNCHANGED saved
    <3>1. \A f : Stored(f)' = Stored(f)
      BY <2>1 DEF Stored
    <3> QED
      BY <2>1, <3>1 DEF SwitchInv, SwitchShapes, Chosen, Pending
  <2>2. CASE Saved(switch[w].target)
    BY <2>2, SavedKeeps
  <2> QED
    BY <2>1, <2>2
<1>4. SwitchShapes'
  BY <1>1, <1>3 DEF SwitchInv, SwitchShapes
<1>5. Staging'
  BY <1>1, <1>2, TargetsAreChoices DEF SwitchInv, Staging, Switchers
<1>6. Behind'
  <2>1. (Moving' => Moving) /\ (Leaving' <=> Leaving) /\ (Paused' <=> Paused)
    BY <1>1 DEF Moving, Leaving, Paused
  <2> QED
    BY <1>1, <1>2, <2>1 DEF SwitchInv, Behind
<1>7. Pending'
  BY <1>1, <1>3 DEF SwitchInv, Pending
<1> QED
  BY <1>3, <1>4, <1>5, <1>6, <1>7 DEF SwitchInv

LEMMA RequestKeeps ==
    ASSUME SwitchInv, NEW w \in Switchers, NEW target \in Targets, Request(w, target)
    PROVE  SwitchInv'
<1> DEFINE place == IF target.kind = "strategy" THEN "save" ELSE "positions"
<1>1. /\ Up /\ switch[w].at = "idle" /\ target.value # boot.config[target.kind]
      /\ w = "exit" => target.kind = "policy"
      /\ target.kind = "exchange" => Paused
      /\ Put(w, place, target)
      /\ asked' = [asked EXCEPT ![target.kind] = @ \cup {target.value}]
      /\ UNCHANGED <<saved, boot, runtime, holding, staged, told, astray, rushed>>
  BY DEF Request
<1>2. target \in Goals /\ target.kind \in Kinds /\ target # Nothing
  BY TargetsAreChoices
<1>3. /\ switch' \in [Switchers -> Holder] /\ switch'[w].at = place /\ switch'[w].target = target
      /\ \A v \in Switchers : v # w => switch'[v] = switch[v]
  <2>1. place \in {"idle", "positions", "save", "staged"}
    OBVIOUS
  <2> QED
    BY <1>1, <1>2, <2>1, PutOf DEF SwitchInv
<1>4. /\ DOMAIN asked' = Kinds /\ \A k \in Kinds : asked[k] \subseteq asked'[k]
      /\ target.value \in asked'[target.kind]
  BY <1>1, <1>2 DEF SwitchInv, SwitchShapes
<1>5. /\ place \in {"save", "positions"} /\ (place = "save" => target.kind = "strategy")
  OBVIOUS
<1> HIDE DEF place
<1>6. SwitchShapes'
  BY <1>1, <1>3, <1>4 DEF SwitchInv, SwitchShapes
<1>7. Staging'
  BY <1>1, <1>2, <1>3, <1>5 DEF SwitchInv, Staging, Switchers, Up
<1>8. Behind'
  <2>1. (Leaving' <=> Leaving) /\ (Paused' <=> Paused) /\ (Up' <=> Up)
    BY <1>1 DEF Leaving, Paused, Up
  <2>2. Moving' => Moving \/ target.kind = "exchange"
    BY <1>1, <1>3 DEF Moving
  <2>3. ASSUME NEW v \in Switchers, switch'[v].at \in {"save", "staged"},
               switch'[v].target.kind = "exchange"
        PROVE  switch[v].at \in {"save", "staged"} /\ switch[v].target.kind = "exchange"
    BY <1>3, <1>5, <2>3
  <2> QED
    BY <1>1, <2>1, <2>2, <2>3 DEF SwitchInv, Behind
<1>9. \A f : Stored(f)' = Stored(f)
  BY <1>1 DEF Stored
<1>10. Pending'
  <2> SUFFICES ASSUME NEW v \in Switchers, switch'[v].at # "idle"
               PROVE  LET t == switch'[v].target
                      IN  /\ t.value # boot'.config[t.kind]
                          /\ t.value \in asked'[t.kind] \cup {told'[t.kind].value}
                          /\ switch'[v].at = "staged" => Stored(boot.file)'[t.kind] = t.value
    BY Zenon DEF Pending
  <2>1. CASE v = w
    BY <1>1, <1>3, <1>4, <1>5, <2>1
  <2>2. CASE v # w
    <3>1. switch'[v] = switch[v] /\ switch[v].target.kind \in Kinds
      BY <1>3, <2>2, BusyOf
    <3> QED
      BY <1>1, <1>4, <1>9, <3>1 DEF SwitchInv, Pending
  <2> QED
    BY <2>1, <2>2
<1>11. Chosen'
  <2>1. {"exchange", "policy", "strategy"} = Kinds
    BY DEF Kinds
  <2> QED
    BY <1>1, <1>4, <1>9, <2>1 DEF SwitchInv, Chosen
<1> QED
  BY <1>6, <1>7, <1>8, <1>10, <1>11 DEF SwitchInv

LEMMA CheckKeeps == ASSUME SwitchInv, NEW w \in Switchers, CheckPositions(w) PROVE SwitchInv'
<1> DEFINE target == switch[w].target
<1>1. /\ switch[w].at = "positions"
      /\ UNCHANGED <<saved, boot, runtime, holding, staged, told, asked, astray, rushed>>
      /\ (Flat /\ Put(w, "save", target)) \/ Put(w, "idle", Nothing)
  BY DEF CheckPositions
<1>2. CASE Put(w, "idle", Nothing)
  BY <1>1, <1>2, IdleKeeps
<1>3. CASE Flat /\ Put(w, "save", target)
  <2>1. target \in Goals /\ target # Nothing /\ Up /\ Up'
    BY <1>1, BusyOf, TargetsAreChoices DEF Up
  <2>2. /\ switch' \in [Switchers -> Holder] /\ switch'[w].at = "save"
        /\ switch'[w].target = switch[w].target
        /\ \A v \in Switchers : v # w => switch'[v] = switch[v]
    BY <1>3, <2>1, PutOf DEF SwitchInv
  <2>3. SwitchShapes'
    BY <1>1, <2>2 DEF SwitchInv, SwitchShapes
  <2>4. Staging'
    BY <1>1, <2>1, <2>2 DEF SwitchInv, Staging, Switchers
  <2>5. Behind'
    <3>1. (Leaving' <=> Leaving) /\ (Paused' <=> Paused) /\ (Moving' => Moving)
      BY <1>1, <2>2 DEF Leaving, Paused, Moving
    <3> QED
      BY <1>1, <1>3, <2>1, <2>2, <3>1 DEF SwitchInv, Behind, Flat
  <2>6. \A f : Stored(f)' = Stored(f)
    BY <1>1 DEF Stored
  <2>7. Pending' /\ Chosen'
    BY <1>1, <2>2, <2>6 DEF SwitchInv, Pending, Chosen
  <2> QED
    BY <2>3, <2>4, <2>5, <2>7 DEF SwitchInv
<1> QED
  BY <1>1, <1>2, <1>3

LEMMA SaveKeepsChoices == ASSUME SwitchInv, NEW w \in Switchers, SaveAndStage(w) PROVE SwitchInv'
<1> DEFINE target == switch[w].target
<1>1. /\ switch[w].at = "save" /\ Saved(target)
      /\ UNCHANGED <<boot, runtime, holding, told, asked, astray, rushed>>
      /\ \/ /\ staged.target = Nothing /\ staged' = [target |-> target, committed |-> FALSE]
            /\ Put(w, "staged", target)
         \/ UNCHANGED staged /\ Put(w, "idle", Nothing)
  BY DEF SaveAndStage
<1>2. CASE UNCHANGED staged /\ Put(w, "idle", Nothing)
  BY <1>1, <1>2, IdleKeeps
<1>3. CASE /\ staged.target = Nothing /\ staged' = [target |-> target, committed |-> FALSE]
           /\ Put(w, "staged", target)
  <2>1. target \in Goals /\ target # Nothing /\ Up /\ Up' /\ target.kind \in Kinds
    BY <1>1, BusyOf, TargetsAreChoices DEF Up
  <2>2. /\ switch' \in [Switchers -> Holder] /\ switch'[w].at = "staged"
        /\ switch'[w].target = switch[w].target
        /\ \A v \in Switchers : v # w => switch'[v] = switch[v]
    BY <1>3, <2>1, PutOf DEF SwitchInv
  <2>3. /\ staged' \in [target : Goals, committed : BOOLEAN] /\ staged'.target = target
        /\ ~staged'.committed
    BY <1>3, <2>1
  <2>4. \A v \in Switchers : switch[v].at # "staged"
    <3> SUFFICES ASSUME NEW v \in Switchers, switch[v].at = "staged" PROVE FALSE
      OBVIOUS
    <3>1. switch[v].target # Nothing
      BY BusyOf
    <3> QED
      BY <1>3, <3>1 DEF SwitchInv, Staging
  <2>5. /\ \A f \in DOMAIN saved' : saved'[f] \in SavedChoice
        /\ Chosen'
        /\ \A f : f = boot.file => Stored(f)'[target.kind] = target.value
    BY <1>1, SavedKeeps
  <2>6. SwitchShapes'
    BY <1>1, <2>2, <2>3, <2>5 DEF SwitchInv, SwitchShapes
  <2>7. Staging'
    BY <1>1, <2>1, <2>2, <2>3, <2>4 DEF SwitchInv, Staging, Switchers
  <2>8. Behind'
    <3>1. ~Leaving /\ ~Leaving' /\ (Paused' <=> Paused) /\ (Moving' => Moving)
      BY <1>1, <1>3, <2>2, <2>3 DEF SwitchInv, Staging, Leaving, Paused, Moving
    <3> QED
      BY <1>1, <2>1, <2>2, <3>1 DEF SwitchInv, Behind
  <2>9. Pending'
    BY <1>1, <2>2, <2>4, <2>5 DEF SwitchInv, Pending
  <2> QED
    BY <2>5, <2>6, <2>7, <2>8, <2>9 DEF SwitchInv
<1> QED
  BY <1>1, <1>2, <1>3

LEMMA CommitKeeps == ASSUME SwitchInv, NEW w \in Switchers, CommitTarget(w) PROVE SwitchInv'
<1> DEFINE target == switch[w].target
           kind == target.kind
           news == [value |-> target.value, file |-> boot.file]
<1>1. /\ switch[w].at = "staged" /\ Put(w, "idle", Nothing)
      /\ staged' = [staged EXCEPT !.committed = TRUE]
      /\ told' = [told EXCEPT ![kind] = news] /\ asked' = [asked EXCEPT ![kind] = {}]
      /\ UNCHANGED <<saved, boot, runtime, holding, astray, rushed>>
  BY DEF CommitTarget
<1>2. /\ Up /\ Up' /\ target \in Targets /\ kind \in Kinds /\ target.value \in Values[kind]
      /\ target.value # NotChosen /\ target # Nothing
  BY <1>1, BusyOf DEF Up
<1>3. staged.target = target /\ ~staged.committed
  BY <1>1 DEF SwitchInv, Staging
<1>4. /\ switch' \in [Switchers -> Holder] /\ switch'[w].at = "idle"
      /\ switch'[w].target = Nothing /\ \A v \in Switchers : v # w => switch'[v] = switch[v]
  BY <1>1, PutOf, TargetsAreChoices DEF SwitchInv
<1>5. /\ staged' \in [target : Goals, committed : BOOLEAN] /\ staged'.target = target
      /\ staged'.committed
  <2>1. staged \in [target : Goals, committed : BOOLEAN]
    BY DEF SwitchInv, SwitchShapes
  <2> QED
    BY <1>1, <1>3, <2>1
<1>6. news.value = target.value /\ news.file = boot.file
  OBVIOUS
<1> HIDE DEF news, kind, target
<1>7. /\ DOMAIN told' = Kinds /\ told'[kind] = news /\ asked'[kind] = {}
      /\ \A k \in Kinds : k # kind => told'[k] = told[k] /\ asked'[k] = asked[k]
      /\ DOMAIN asked' = Kinds
  BY <1>1, <1>2 DEF SwitchInv, SwitchShapes
<1>8. SwitchShapes'
  BY <1>1, <1>2, <1>4, <1>5, <1>6, <1>7 DEF SwitchInv, SwitchShapes
<1>9. \A v \in Switchers : switch'[v].at # "staged"
  BY <1>1, <1>4 DEF SwitchInv, Staging
<1>10. Staging'
  BY <1>2, <1>4, <1>5, <1>9, TargetsAreChoices DEF SwitchInv, Staging, Switchers
<1>11. /\ ~Leaving /\ (Leaving' <=> kind = "exchange") /\ (Paused' <=> Paused)
       /\ Moving' => Moving
  BY <1>1, <1>3, <1>4, <1>5 DEF Leaving, Paused, Moving, kind, target
<1>12. Behind'
  <2>1. told'["exchange"].value = IF kind = "exchange" THEN target.value ELSE told["exchange"].value
    BY <1>6, <1>7 DEF Kinds
  <2>2. kind = "exchange" /\ ~rushed => boot.config.exchange \notin holding
    BY <1>1 DEF SwitchInv, Behind, kind, target
  <2>3. \A v \in Switchers : switch'[v].at \in {"save", "staged"}
           /\ switch'[v].target.kind = "exchange"
              => switch[v].at \in {"save", "staged"} /\ switch[v].target.kind = "exchange"
    BY <1>4
  <2> QED
    BY <1>1, <1>2, <1>5, <1>11, <2>1, <2>2, <2>3 DEF SwitchInv, Behind
<1>13. \A f : Stored(f)' = Stored(f)
  BY <1>1 DEF Stored
<1>14. Pending'
  <2> SUFFICES ASSUME NEW v \in Switchers, switch'[v].at # "idle"
               PROVE  LET t == switch'[v].target
                      IN  /\ t.value # boot'.config[t.kind]
                          /\ t.value \in asked'[t.kind] \cup {told'[t.kind].value}
                          /\ switch'[v].at = "staged" => Stored(boot.file)'[t.kind] = t.value
    BY Zenon DEF Pending
  <2>1. v # w /\ switch'[v] = switch[v] /\ switch[v].at # "idle" /\ switch[v].target.kind \in Kinds
    BY <1>4, BusyOf
  <2>2. CASE switch[v].target.kind = kind
    <3>1. switch[v].target.value = target.value
      BY <1>1, <2>1, <2>2, Twins DEF kind, target
    <3> QED
      BY <1>1, <1>6, <1>7, <1>9, <2>1, <2>2, <3>1 DEF SwitchInv, Pending
  <2>3. CASE switch[v].target.kind # kind
    BY <1>1, <1>7, <1>9, <2>1, <2>3 DEF SwitchInv, Pending
  <2> QED
    BY <2>2, <2>3
<1>15. Stored(boot.file)[kind] = target.value
  BY <1>1 DEF SwitchInv, Pending, kind, target
<1>16. Chosen'
  <2>1. ASSUME NEW k \in {"exchange", "policy"}, told'[k].file = Base
        PROVE  Or(Stored(Base)[k], FirstChoice[k]) \in asked'[k] \cup {told'[k].value}
    <3>1. k \in Kinds
      BY DEF Kinds
    <3>2. CASE k = kind
      BY <1>2, <1>6, <1>7, <1>15, <2>1, <3>2 DEF Or
    <3>3. CASE k # kind
      BY <1>7, <2>1, <3>1, <3>3 DEF SwitchInv, Chosen
    <3> QED
      BY <3>2, <3>3
  <2>2. ASSUME told'["strategy"].file = Base, told'["strategy"].value = NewStrategy
        PROVE  Or(Stored(Base)["strategy"], FirstChoice["strategy"]) = NewStrategy
    <3>1. "strategy" \in Kinds
      BY DEF Kinds
    <3>2. CASE "strategy" = kind
      BY <1>2, <1>6, <1>7, <1>15, <2>2, <3>2 DEF Or
    <3>3. CASE "strategy" # kind
      BY <1>7, <2>2, <3>1, <3>3 DEF SwitchInv, Chosen
    <3> QED
      BY <3>2, <3>3
  <2>3. ASSUME NewStrategy \notin asked'["strategy"] \cup {told'["strategy"].value},
               NEW f \in DOMAIN saved
        PROVE  saved[f].strategy = NotChosen
    <3>1. "strategy" \in Kinds
      BY DEF Kinds
    <3>2. kind = "strategy" => target.value = NewStrategy
      BY <1>2, TargetsAreChoices DEF Selectable, kind
    <3>3. kind # "strategy"
      BY <1>6, <1>7, <2>3, <3>2
    <3> QED
      BY <1>7, <2>3, <3>1, <3>3 DEF SwitchInv, Chosen
  <2> QED
    BY <1>1, <1>13, <2>1, <2>2, <2>3 DEF Chosen
<1> QED
  BY <1>8, <1>10, <1>12, <1>14, <1>16 DEF SwitchInv

LEMMA SwitchStep == SwitchInv /\ [SwitchNext]_switchVars => SwitchInv'
<1> SUFFICES ASSUME SwitchInv, [SwitchNext]_switchVars PROVE SwitchInv'
  OBVIOUS
<1>1. /\ runtime \in [active : BOOLEAN, cycle : BOOLEAN, recovering : BOOLEAN]
      /\ rushed \in BOOLEAN /\ (~rushed /\ Moving => Paused)
      /\ ~Up => ~runtime.active /\ ~runtime.cycle
  BY DEF SwitchInv, SwitchShapes, Staging, Behind, Still
<1>2. CASE Start
  BY <1>2, StartKeepsChoices
<1>3. CASE EndOfProcess
  BY <1>3, EndKeeps
<1>4. CASE Recovered
  <2>1. Up /\ UNCHANGED <<saved, holding, staged, switch, told, asked, astray>>
        /\ boot' = [boot EXCEPT !.at = "running"] /\ (Activate \/ UNCHANGED <<runtime, rushed>>)
    BY <1>4 DEF Recovered, Up
  <2>2. CASE Activate
    BY <2>1, <2>2, ActivateKeeps
  <2>3. CASE UNCHANGED <<runtime, rushed>>
    BY <1>1, <2>1, <2>3, RunsKeeps DEF Paused
  <2> QED
    BY <2>1, <2>2, <2>3
<1>5. CASE NextSession
  BY <1>5, NextSessionKeeps
<1>6. CASE Resume \/ RecoversInProcess
  <2>1. Up /\ Activate /\ UNCHANGED <<saved, boot, holding, staged, switch, told, asked, astray>>
    BY <1>6 DEF Resume, RecoversInProcess, Up
  <2> QED
    BY <2>1, ActivateKeeps
<1>7. CASE Pause
  <2>1. /\ Up /\ UNCHANGED <<saved, boot, holding, staged, switch, told, asked, astray, rushed>>
        /\ runtime.active /\ runtime' = [runtime EXCEPT !.active = FALSE]
    BY <1>1, <1>7 DEF Pause
  <2>2. runtime' \in [active : BOOLEAN, cycle : BOOLEAN, recovering : BOOLEAN]
    BY <1>1, <2>1
  <2>3. ~rushed' /\ Moving => Paused'
    BY <1>1, <2>1 DEF Paused
  <2> QED
    BY <1>1, <2>1, <2>2, <2>3, RunsKeeps
<1>8. ASSUME NEW next \in [active : BOOLEAN, cycle : BOOLEAN, recovering : BOOLEAN], Cycle(next)
      PROVE  SwitchInv'
  <2>1. /\ Up /\ UNCHANGED <<saved, boot, holding, staged, switch, told, asked, astray, rushed>>
        /\ runtime' = next /\ ~Paused
    BY <1>8 DEF Cycle, Up, Paused
  <2>2. ~rushed' /\ Moving => Paused'
    BY <1>1, <2>1
  <2> QED
    BY <1>1, <2>1, <2>2, RunsKeeps
<1>9. CASE OpenPosition
  BY <1>9, HoldingKeeps DEF OpenPosition
<1>10. ASSUME NEW e \in Connectors, Close(e) PROVE SwitchInv'
  BY <1>10, HoldingKeeps DEF Close
<1>11. CASE MessageFails
  <2>1. "telegram" \in Switchers /\ switch["telegram"].at # "idle"
    BY <1>11 DEF MessageFails, Switchers
  <2> QED
    BY <1>11, <2>1, IdleKeeps DEF MessageFails
<1>12. ASSUME NEW w \in Switchers, CheckPositions(w) PROVE SwitchInv'
  BY <1>12, CheckKeeps
<1>13. ASSUME NEW w \in Switchers, SaveAndStage(w) PROVE SwitchInv'
  BY <1>13, SaveKeepsChoices
<1>14. ASSUME NEW w \in Switchers, SaveFails(w) PROVE SwitchInv'
  BY <1>14, IdleKeeps DEF SaveFails
<1>15. ASSUME NEW w \in Switchers, CommitTarget(w) PROVE SwitchInv'
  BY <1>15, CommitKeeps
<1>16. ASSUME NEW w \in Switchers, NEW target \in Targets, Request(w, target) PROVE SwitchInv'
  BY <1>16, RequestKeeps
<1>17. CASE UNCHANGED switchVars
  BY <1>1, <1>17 DEF switchVars, SwitchInv, SwitchShapes, Staging, Behind, Pending, Chosen,
                     Stored, Up, Leaving, Moving, Paused
<1> QED
  BY <1>2, <1>3, <1>4, <1>5, <1>6, <1>7, <1>8, <1>9, <1>10, <1>11, <1>12, <1>13, <1>14, <1>15,
     <1>16, <1>17 DEF SwitchNext

LEMMA SwitchInvariance == SwitchSpec => []SwitchInv
BY SwitchInitial, SwitchStep, PTL DEF SwitchSpec

(* Every choice that is stored, staged or in use is one of its kind: what  *)
(* main() and a new session restore is always a setting.                   *)
THEOREM SwitchTyped == SwitchSpec => []SwitchTypeOK
<1>1. SwitchInv => SwitchTypeOK
  <2> SUFFICES ASSUME SwitchInv PROVE SwitchTypeOK
    OBVIOUS
  <2>1. ASSUME NEW f \in DOMAIN saved, NEW k \in Kinds
        PROVE  Or(saved[f][k], FirstChoice[k]) \in {c[k] : c \in Settings}
    <3> DEFINE v == Or(saved[f][k], FirstChoice[k])
    <3>1. Stored(f) = saved[f]
      BY DEF Stored
    <3>2. v \in Values[k]
      BY <3>1, StoredOf, SettingsOf DEF SwitchInv, SwitchShapes
    <3> HIDE DEF v
    <3>3. /\ [FirstChoice EXCEPT ![k] = v] \in Settings
          /\ [FirstChoice EXCEPT ![k] = v][k] = v
      BY <3>2, SettingsOf
    <3> QED
      BY <3>3 DEF v
  <2> QED
    BY <2>1 DEF SwitchInv, SwitchShapes, BootState, Holder, SwitchTypeOK
<1> QED
  BY <1>1, SwitchInvariance, PTL

(* No session runs on one exchange with positions of another left open: the *)
(* check of the positions is still true when the next session begins, as    *)
(* the runtime stays paused unless it was activated meanwhile.              *)
THEOREM LeavesNothing == SwitchSpec => []NothingLeftBehind
<1>1. SwitchInv => NothingLeftBehind
  BY DEF SwitchInv, Behind, NothingLeftBehind
<1> QED
  BY <1>1, SwitchInvariance, PTL

(* What the operator was told of in the database that processes boot from  *)
(* is what the next process comes up with, unless something else was asked *)
(* for since: saved, staged, acknowledged and committed are four steps, of *)
(* two switchers.                                                          *)
THEOREM ChoiceSurvives == SwitchSpec => BootedChoicesSurvive
<1> DEFINE Same == boot.at = "down" /\ boot'.at # "down" =>
              \A k \in Kinds : told[k].file = Base =>
                  boot'.config[k] \in asked[k] \cup {told[k].value}
<1>1. SwitchInv /\ SwitchNext => Same
  <2> SUFFICES ASSUME SwitchInv, SwitchNext, ~Up, boot'.at # "down", NEW k \in Kinds,
                      told[k].file = Base
               PROVE  boot'.config[k] \in asked[k] \cup {told[k].value}
    BY DEF Up
  <2>1. Start
    <3>1. boot' # boot
      BY DEF Up
    <3>2. \A w \in Switchers : switch[w].at = "idle"
      BY DEF SwitchInv, Staging, Quiet
    <3>3. boot.at = "down"
      BY DEF Up
    <3> QED
      BY <3>1, <3>2, <3>3 DEF SwitchNext, Up, EndOfProcess, Recovered, NextSession, Resume, Pause,
         OpenPosition, RecoversInProcess, MessageFails, Cycle, Close, CheckPositions, SaveAndStage,
         SaveFails, CommitTarget, Request
  <2>2. /\ \A j \in Kinds : j # "strategy" => boot'.config[j] = Or(Stored(Base)[j], FirstChoice[j])
        /\ \E file : boot'.config["strategy"]
              = Or(Stored(file).strategy, Or(Stored(Base).strategy, FirstChoice.strategy))
    BY <2>1, StartKeepsChoices
  <2>3. CASE k # "strategy"
    BY <2>2, <2>3 DEF SwitchInv, Chosen, Kinds
  <2>4. CASE k = "strategy"
    <3>1. PICK file : boot'.config["strategy"]
                 = Or(Stored(file).strategy, Or(Stored(Base).strategy, FirstChoice.strategy))
      BY <2>2
    <3>2. /\ Stored(file).strategy \in {NotChosen, NewStrategy}
          /\ Stored(Base).strategy \in {NotChosen, NewStrategy}
      BY StoredOf DEF SwitchInv, SwitchShapes, SavedChoice
    <3>3. told["strategy"].value \in {FirstChoice.strategy, NewStrategy}
      BY <2>4 DEF SwitchInv, SwitchShapes, Values
    <3>4. NewStrategy # NotChosen /\ FirstChoice.strategy # NotChosen
      BY ChoiceAssumption
    <3>5. CASE told["strategy"].value = NewStrategy
      <4>1. Or(Stored(Base).strategy, FirstChoice.strategy) = NewStrategy
        BY <2>4, <3>5 DEF SwitchInv, Chosen
      <4> QED
        BY <2>4, <3>1, <3>2, <3>5, <4>1 DEF Or
    <3>6. CASE NewStrategy \in asked["strategy"] /\ told["strategy"].value = FirstChoice.strategy
      BY <2>4, <3>1, <3>2, <3>6 DEF Or
    <3>7. CASE NewStrategy \notin asked["strategy"] \cup {told["strategy"].value}
      <4>1. \A f \in DOMAIN saved : saved[f].strategy = NotChosen
        BY <3>7 DEF SwitchInv, Chosen
      <4>2. Stored(file).strategy = NotChosen /\ Stored(Base).strategy = NotChosen
        BY <2>4, <4>1 DEF Stored
      <4> QED
        BY <2>4, <3>1, <3>3, <3>7, <4>2 DEF Or
    <3> QED
      BY <3>3, <3>5, <3>6, <3>7
  <2> QED
    BY <2>3, <2>4
<1> HIDE DEF Same
<1>2. SwitchInv /\ [SwitchNext]_switchVars => [Same]_switchVars
  BY <1>1
<1>3. SwitchSpec => [][Same]_switchVars
  BY <1>2, SwitchInvariance, PTL DEF SwitchSpec
<1> QED
  BY <1>3 DEF Same, BootedChoicesSurvive
=============================================================================
