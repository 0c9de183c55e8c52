----------------------- MODULE MemoryControllerProofs -----------------------
(***************************************************************************)
(* Theorems about MemoryController, for every number of consumers and      *)
(* channels, every memory and every order of requests and answers.         *)
(***************************************************************************)
EXTENDS MemoryController, Ranks, TLAPS

-----------------------------------------------------------------------------
(* Shapes.                                                                 *)

\* What a request is made of.
LEMMA RequestShape ==
  ASSUME NEW r \in Requests
  PROVE  /\ r # NoRequest
         /\ r.kind \in {"read", "write"} /\ r.address \in Addresses
         /\ r.kind = "write" => r.data \in Data
  <1>1. CASE r \in Reads
    <2>1. r.kind = "read" /\ r.address \in Addresses
      BY <1>1 DEF Reads
    <2>. QED BY <2>1 DEF NoRequest
  <1>2. CASE r \in Writes
    <2>1. r.kind = "write" /\ r.address \in Addresses /\ r.data \in Data
      BY <1>2 DEF Writes
    <2>. QED BY <2>1 DEF NoRequest
  <1>. QED BY <1>1, <1>2 DEF Requests

\* Channels are compared by number.
LEMMA ChannelNumbers == \A ch \in Channels : ch \in Int
  <1>1. NumChannels - 1 \in Int
    BY ChannelsAssumption
  <1>. QED BY <1>1 DEF Channels

\* What a busy channel holds.
LEMMA BusyShape ==
  ASSUME TypeOK, NEW ch \in BusyChannels
  PROVE  /\ ch \in Channels
         /\ channel[ch].consumer \in Consumers
         /\ channel[ch].request \in Requests
         /\ channel[ch] \in [state : {"BUSY"}, consumer : Consumers, request : Requests]
  <1>1. ch \in Channels /\ channel[ch] # Idle
    BY DEF BusyChannels, IdleChannels
  <1>2. channel[ch] \in [state : {"BUSY"}, consumer : Consumers, request : Requests]
    BY <1>1 DEF TypeOK
  <1>. QED BY <1>1, <1>2

\* A channel that serves a consumer is not idle.
LEMMA ServingShape ==
  ASSUME NEW c \in Consumers, request[c] \in Requests
  PROVE  /\ Serving(c) \in [state : {"BUSY"}, consumer : Consumers, request : Requests]
         /\ Serving(c) # Idle
         /\ Serving(c).consumer = c /\ Serving(c).request = request[c]
  <1>1. Serving(c).state = "BUSY"
    BY DEF Serving
  <1>2. Idle.state = "IDLE"
    BY DEF Idle
  <1>. QED BY <1>1, <1>2 DEF Serving

\* A waiting consumer holds a request and is on no channel.
LEMMA WaitingShape ==
  ASSUME TypeOK, NEW c \in Waiting
  PROVE  /\ c \in Consumers /\ request[c] \in Requests
         /\ \A ch \in BusyChannels : channel[ch].consumer # c
  BY DEF Waiting, Pending, Selected, TypeOK

-----------------------------------------------------------------------------
(* Arbitration (memory_controller.sv:77-102).                              *)

\* One scan grants a channel to one consumer and a consumer one channel.
LEMMA GrantsAreExclusive ==
  ASSUME NEW ch, NEW oh, NEW c, NEW d, Grants(ch, c), Grants(oh, d)
  PROVE  ch = oh <=> c = d
  <1>1. /\ IdleChannels \in SUBSET (0 .. NumChannels - 1) /\ NumChannels \in Nat
        /\ Waiting \in SUBSET (0 .. NumConsumers - 1) /\ NumConsumers \in Nat
    BY ChannelsAssumption, ConsumersAssumption
       DEF IdleChannels, Channels, Waiting, Pending, Consumers
  <1>2. /\ ch \in IdleChannels /\ oh \in IdleChannels
        /\ c \in Waiting /\ d \in Waiting
        /\ Rank(IdleChannels, ch) = Rank(Waiting, c)
        /\ Rank(IdleChannels, oh) = Rank(Waiting, d)
    BY DEF Grants, Turn, Rank
  <1>3. ASSUME ch = oh PROVE c = d
    BY <1>1, <1>2, <1>3, RankInjective
  <1>4. ASSUME c = d PROVE ch = oh
    BY <1>1, <1>2, <1>4, RankInjective
  <1>. QED BY <1>3, <1>4

\* A channel after an edge is idle, goes on with its request or takes that of
\* the consumer it was granted.
LEMMA ChannelStep ==
  ASSUME TypeOK, NEW ready, Clock(ready), NEW ch \in Channels
  PROVE  \/ channel'[ch] = Idle
         \/ ch \in BusyChannels \ ready /\ channel'[ch] = channel[ch]
         \/ \E c \in Waiting : Grants(ch, c) /\ channel'[ch] = Serving(c)
  <1>1. channel'[ch] = ChannelAfter(ch, ready)
    BY DEF Clock
  <1>2. CASE ch \in ready
    BY <1>1, <1>2 DEF ChannelAfter
  <1>3. CASE ch \notin ready /\ \E c \in Consumers : Grants(ch, c)
    <2>. DEFINE w == CHOOSE c \in Consumers : Grants(ch, c)
    <2>1. w \in Consumers /\ Grants(ch, w)
      BY <1>3
    <2>2. channel'[ch] = Serving(w)
      BY <1>1, <1>3 DEF ChannelAfter
    <2>3. w \in Waiting
      BY <2>1 DEF Grants
    <2>. QED BY <2>1, <2>2, <2>3
  <1>4. CASE ch \notin ready /\ ~ \E c \in Consumers : Grants(ch, c)
    <2>1. channel'[ch] = channel[ch]
      BY <1>1, <1>4 DEF ChannelAfter
    <2>. QED BY <1>4, <2>1 DEF BusyChannels, IdleChannels
  <1>. QED BY <1>2, <1>3, <1>4

-----------------------------------------------------------------------------
(* The memory behind the channels.                                         *)

\* A set of channels that is not empty has a last one.
LEMMA LastChannel ==
  ASSUME NEW S \in SUBSET Channels, S # {}
  PROVE  \E w \in S : \A v \in S : v <= w
  <1>1. NumChannels \in Nat /\ S \in SUBSET (0 .. NumChannels - 1)
    BY ChannelsAssumption DEF Channels
  <1>2. IsFiniteSet(S) /\ Cardinality(S) \in Nat /\ \A c \in S : c \in Int
    BY <1>1, BelowFinite
  <1>3. Cardinality(S) # 0
    BY <1>2, FS_EmptySet
  <1>4. PICK w \in S : Rank(S, w) = Cardinality(S) - 1
    <2>1. Cardinality(S) - 1 \in 0 .. Cardinality(S) - 1
      BY <1>2, <1>3
    <2>. QED BY <1>1, <2>1, RankOnto
  <1>5. ASSUME NEW v \in S, w < v PROVE FALSE
    <2>1. Rank(S, w) < Rank(S, v) /\ Rank(S, v) \in 0 .. Cardinality(S) - 1
      BY <1>1, <1>5, RankBounds
    <2>. QED BY <1>2, <1>4, <2>1
  <1>. QED BY <1>2, <1>5

\* The word at an address is the one the last writer before the position left
\* there.
LEMMA WordAtLast ==
  ASSUME TypeOK, NEW ready \in SUBSET BusyChannels, NEW a \in Addresses, NEW p
  PROVE  LET writers == WritersBefore(ready, a, p)
         IN  IF writers = {} THEN WordAt(ready, a, p) = memory[a]
             ELSE \E w \in writers : /\ \A v \in writers : v <= w
                                     /\ WordAt(ready, a, p) = channel[w].request.data
  <1>. DEFINE writers == WritersBefore(ready, a, p)
  <1>1. CASE writers = {}
    BY <1>1 DEF WordAt
  <1>2. CASE writers # {}
    <2>. DEFINE w == CHOOSE w \in writers : \A v \in writers : v <= w
    <2>1. writers \in SUBSET Channels
      BY DEF WritersBefore, BusyChannels
    <2>2. \E x \in writers : \A v \in writers : v <= x
      BY <1>2, <2>1, LastChannel
    <2>3. w \in writers /\ \A v \in writers : v <= w
      BY <2>2
    <2>4. WordAt(ready, a, p) = channel[w].request.data
      BY <1>2 DEF WordAt
    <2>. QED BY <1>2, <2>3, <2>4
  <1>. QED BY <1>1, <1>2

\* A word of memory is always a value of a word.
LEMMA WordAtType ==
  ASSUME TypeOK, NEW ready \in SUBSET BusyChannels, NEW a \in Addresses, NEW p
  PROVE  WordAt(ready, a, p) \in Data
  <1>. DEFINE writers == WritersBefore(ready, a, p)
  <1>1. CASE writers = {}
    <2>1. WordAt(ready, a, p) = memory[a]
      BY <1>1, WordAtLast
    <2>. QED BY <2>1 DEF TypeOK
  <1>2. CASE writers # {}
    <2>1. PICK w \in writers : WordAt(ready, a, p) = channel[w].request.data
      BY <1>2, WordAtLast
    <2>2. w \in BusyChannels /\ channel[w].request.kind = "write"
      BY DEF WritersBefore
    <2>. QED BY <2>1, <2>2, BusyShape, RequestShape
  <1>. QED BY <1>1, <1>2

-----------------------------------------------------------------------------
(* The invariant.                                                          *)

\* Reset state: every channel idle, no request.
LEMMA InitInv == Init => IInv
  <1>. SUFFICES ASSUME Init PROVE IInv
    OBVIOUS
  <1>1. BusyChannels = {}
    BY DEF Init, BusyChannels, IdleChannels
  <1>2. TypeOK
    BY DEF Init, TypeOK
  <1>. QED BY <1>1, <1>2 DEF IInv, ServesItsConsumer, Exclusive

\* A requester may raise a request only when it has none, so no channel serves
\* it and none is disturbed (if_stage.sv:62-98, mem_stage.sv:129-215).
LEMMA RaiseInv ==
  ASSUME IInv, NEW c \in Consumers, NEW r \in Requests, Raise(c, r)
  PROVE  IInv'
  <1>1. TypeOK'
    BY DEF IInv, TypeOK, Raise
  <1>2. BusyChannels' = BusyChannels /\ channel' = channel
    BY DEF Raise, BusyChannels, IdleChannels
  <1>3. Exclusive'
    BY <1>2 DEF IInv, Exclusive
  <1>4. ServesItsConsumer'
    <2>1. ASSUME NEW ch \in BusyChannels
          PROVE  channel[ch].request = request'[channel[ch].consumer]
      <3>1. /\ channel[ch].consumer \in Consumers
            /\ channel[ch].request \in Requests
            /\ channel[ch].request = request[channel[ch].consumer]
        BY BusyShape DEF IInv, ServesItsConsumer
      <3>2. channel[ch].consumer # c
        BY <3>1, RequestShape DEF Raise
      <3>. QED BY <3>1, <3>2 DEF Raise, IInv, TypeOK
    <2>. QED BY <1>2, <2>1 DEF ServesItsConsumer
  <1>. QED BY <1>1, <1>3, <1>4 DEF IInv

\* The data a consumer is given at an edge is a value of a word.
LEMMA AnswerType ==
  ASSUME TypeOK, NEW ready \in SUBSET BusyChannels, NEW c \in Consumers
  PROVE  AnswerTo(c, ready) \in {NoAnswer} \cup Data
  <1>1. CASE ReadsOf(ready, c) = {}
    BY <1>1 DEF AnswerTo, TypeOK
  <1>2. CASE ReadsOf(ready, c) # {}
    <2>. DEFINE ch == CHOOSE ch \in ReadsOf(ready, c) : TRUE
    <2>1. ch \in ReadsOf(ready, c)
      BY <1>2
    <2>2. ch \in BusyChannels
      BY <2>1 DEF ReadsOf
    <2>3. channel[ch].request.address \in Addresses
      BY <2>2, BusyShape, RequestShape
    <2>4. AnswerTo(c, ready) = WordAt(ready, channel[ch].request.address, ch)
      BY <1>2 DEF AnswerTo
    <2>. QED BY <2>3, <2>4, WordAtType
  <1>. QED BY <1>1, <1>2

\* An edge keeps every register and word in its range.
LEMMA ClockType ==
  ASSUME TypeOK, NEW ready, Clock(ready)
  PROVE  TypeOK'
  <1>. DEFINE Entries == {Idle} \cup [state : {"BUSY"}, consumer : Consumers,
                                      request : Requests]
  <1>1. ready \in SUBSET BusyChannels
    BY DEF Clock
  <1>2. ASSUME NEW ch \in Channels PROVE channel'[ch] \in Entries
    <2>1. CASE channel'[ch] = Idle
      BY <2>1
    <2>2. CASE channel'[ch] = channel[ch]
      BY <2>2 DEF TypeOK
    <2>3. ASSUME NEW c \in Waiting, channel'[ch] = Serving(c)
          PROVE  channel'[ch] \in Entries
      BY <2>3, WaitingShape, ServingShape
    <2>. QED BY <2>1, <2>2, <2>3, ChannelStep
  <1>3. channel' \in [Channels -> Entries]
    BY <1>2 DEF Clock
  <1>4. request' \in [Consumers -> {NoRequest} \cup Requests]
    BY DEF Clock, TypeOK
  <1>5. answer' \in [Consumers -> {NoAnswer} \cup Data]
    BY <1>1, AnswerType DEF Clock
  <1>6. memory' \in [Addresses -> Data]
    BY <1>1, WordAtType DEF Clock
  <1>. QED BY <1>3, <1>4, <1>5, <1>6 DEF TypeOK

\* Where a busy channel after an edge got its request from.
LEMMA BusyAfter ==
  ASSUME TypeOK, NEW ready, Clock(ready), NEW ch \in BusyChannels'
  PROVE  \/ ch \in BusyChannels \ ready /\ channel'[ch] = channel[ch]
         \/ \E c \in Waiting : Grants(ch, c) /\ channel'[ch] = Serving(c)
  <1>1. ch \in Channels /\ channel'[ch] # Idle
    BY DEF BusyChannels, IdleChannels
  <1>. QED BY <1>1, ChannelStep

\* No consumer gets a second channel: the scan skips those being served and
\* those an earlier channel has taken.
LEMMA ClockExclusive ==
  ASSUME IInv, NEW ready, Clock(ready)
  PROVE  Exclusive'
  <1>0. TypeOK
    BY DEF IInv
  <1>1. SUFFICES ASSUME NEW ch \in BusyChannels', NEW oh \in BusyChannels',
                        channel'[ch].consumer = channel'[oh].consumer
                 PROVE  ch = oh
    BY DEF Exclusive
  <1>2. ASSUME NEW x \in BusyChannels', NEW y \in BusyChannels',
               channel'[x].consumer = channel'[y].consumer,
               x \in BusyChannels, channel'[x] = channel[x],
               NEW c \in Waiting, channel'[y] = Serving(c)
        PROVE  FALSE
    <2>1. channel'[y].consumer = c
      BY <1>0, <1>2, WaitingShape, ServingShape
    <2>. QED BY <1>0, <1>2, <2>1, WaitingShape
  <1>3. ASSUME NEW c \in Waiting, Grants(ch, c), channel'[ch] = Serving(c),
               NEW d \in Waiting, Grants(oh, d), channel'[oh] = Serving(d)
        PROVE  ch = oh
    <2>1. channel'[ch].consumer = c /\ channel'[oh].consumer = d
      BY <1>0, <1>3, WaitingShape, ServingShape
    <2>. QED BY <1>1, <1>3, <2>1, GrantsAreExclusive
  <1>4. CASE /\ ch \in BusyChannels /\ channel'[ch] = channel[ch]
             /\ oh \in BusyChannels /\ channel'[oh] = channel[oh]
    BY <1>1, <1>4 DEF IInv, Exclusive
  <1>. QED BY <1>0, <1>1, <1>2, <1>3, <1>4, BusyAfter

\* A channel that goes on serving has its consumer still waiting for it: ready
\* pulses reach the consumers of the answered channels alone.
LEMMA ClockServes ==
  ASSUME IInv, NEW ready, Clock(ready)
  PROVE  ServesItsConsumer'
  <1>0. TypeOK /\ ready \subseteq BusyChannels
    BY DEF IInv, Clock
  <1>1. SUFFICES ASSUME NEW ch \in BusyChannels'
                 PROVE  channel'[ch].request = request'[channel'[ch].consumer]
    BY DEF ServesItsConsumer
  <1>2. ASSUME NEW c \in Consumers, c \notin ConsumersOf(ready)
        PROVE  request'[c] = request[c]
    BY <1>2 DEF Clock
  <1>3. CASE ch \in BusyChannels \ ready /\ channel'[ch] = channel[ch]
    <2>1. channel[ch].consumer \notin ConsumersOf(ready)
      BY <1>0, <1>3 DEF IInv, Exclusive, ConsumersOf
    <2>2. channel[ch].consumer \in Consumers
      BY <1>0, <1>3, BusyShape
    <2>. QED BY <1>2, <1>3, <2>1, <2>2 DEF IInv, ServesItsConsumer
  <1>4. ASSUME NEW c \in Waiting, channel'[ch] = Serving(c)
        PROVE  channel'[ch].request = request'[channel'[ch].consumer]
    <2>1. c \in Consumers /\ c \notin ConsumersOf(ready)
      BY <1>0, WaitingShape DEF ConsumersOf
    <2>2. channel'[ch].consumer = c /\ channel'[ch].request = request[c]
      BY <1>0, <1>4, WaitingShape, ServingShape
    <2>. QED BY <1>2, <2>1, <2>2
  <1>. QED BY <1>0, <1>3, <1>4, BusyAfter

\* Whatever is requested and answered, every busy channel serves the request
\* its consumer still holds, and no consumer is on two channels
\* (memory_controller.sv:77-128).
THEOREM ControllerInvariance == Spec => []IInv
  <1>1. ASSUME IInv, [Next]_vars PROVE IInv'
    <2>1. ASSUME NEW c \in Consumers, NEW r \in Requests, Raise(c, r) PROVE IInv'
      BY <1>1, <2>1, RaiseInv
    <2>2. ASSUME NEW ready \in SUBSET Channels, Clock(ready) PROVE IInv'
      <3>1. TypeOK
        BY <1>1 DEF IInv
      <3>. QED BY <1>1, <2>2, <3>1, ClockType, ClockExclusive, ClockServes DEF IInv
    <2>3. CASE UNCHANGED vars
      BY <1>1, <2>3 DEF vars, IInv, TypeOK, ServesItsConsumer, Exclusive, BusyChannels,
                        IdleChannels
    <2>. QED BY <1>1, <2>1, <2>2, <2>3 DEF Next
  <1>. QED BY <1>1, InitInv, PTL DEF Spec

\* Type correctness of the controller, its requesters and its memory.
THEOREM ControllerTypes == Spec => []TypeOK
  <1>1. IInv => TypeOK
    BY DEF IInv
  <1>. QED BY <1>1, ControllerInvariance, PTL

\* A busy channel works on the request its consumer still holds on its wires.
THEOREM ControllerServes == Spec => []ServesItsConsumer
  <1>1. IInv => ServesItsConsumer
    BY DEF IInv
  <1>. QED BY <1>1, ControllerInvariance, PTL

\* No request is issued to memory on two channels.
THEOREM ControllerExclusive == Spec => []Exclusive
  <1>1. IInv => Exclusive
    BY DEF IInv
  <1>. QED BY <1>1, ControllerInvariance, PTL

-----------------------------------------------------------------------------
(* The controller implements MemoryPort.                                   *)

\* The consumers answered at an edge, and the channel that answers each.
Served(ready) == ConsumersOf(ready)
Place(ready) ==
  [c \in Served(ready) |-> CHOOSE ch \in ready : channel[ch].consumer = c]

\* Answered consumers and answered channels correspond one to one.
LEMMA PlaceFacts ==
  ASSUME IInv, NEW ready \in SUBSET BusyChannels
  PROVE  /\ Served(ready) \subseteq Consumers
         /\ \A c \in Served(ready) : /\ Place(ready)[c] \in ready
                                     /\ channel[Place(ready)[c]].consumer = c
                                     /\ channel[Place(ready)[c]].request = request[c]
                                     /\ request[c] \in Requests
         /\ \A ch \in ready : /\ channel[ch].consumer \in Served(ready)
                              /\ Place(ready)[channel[ch].consumer] = ch
  <1>0. TypeOK
    BY DEF IInv
  <1>1. Served(ready) \subseteq Consumers
    BY <1>0, BusyShape DEF Served, ConsumersOf
  <1>2. ASSUME NEW c \in Served(ready)
        PROVE  /\ Place(ready)[c] \in ready
               /\ channel[Place(ready)[c]].consumer = c
    <2>1. \E ch \in ready : channel[ch].consumer = c
      BY DEF Served, ConsumersOf
    <2>. QED BY <2>1 DEF Place
  <1>3. ASSUME NEW c \in Served(ready)
        PROVE  /\ channel[Place(ready)[c]].request = request[c]
               /\ request[c] \in Requests
    BY <1>0, <1>2, BusyShape DEF IInv, ServesItsConsumer
  <1>4. ASSUME NEW ch \in ready PROVE channel[ch].consumer \in Served(ready)
    BY DEF Served, ConsumersOf
  <1>5. ASSUME NEW ch \in ready PROVE Place(ready)[channel[ch].consumer] = ch
    BY <1>2, <1>4 DEF IInv, Exclusive
  <1>. QED BY <1>1, <1>2, <1>3, <1>4, <1>5

\* Serving the channels in their order is serving their consumers in the order
\* of their places (VerilatedGpu::service_data_memory).
LEMMA SameWord ==
  ASSUME IInv, NEW ready \in SUBSET BusyChannels, NEW a \in Addresses, NEW p \in Int
  PROVE  Port!WordAt(Served(ready), Place(ready), a, p) = WordAt(ready, a, p)
  <1>. DEFINE served == Served(ready)
              place == Place(ready)
              W == WritersBefore(ready, a, p)
              PW == {c \in served : /\ request[c].kind = "write"
                                    /\ request[c].address = a
                                    /\ place[c] < p}
  <1>0. TypeOK
    BY DEF IInv
  <1>1. \A c \in PW : place[c] \in W
    BY PlaceFacts DEF WritersBefore
  <1>2. \A w \in W : channel[w].consumer \in PW /\ place[channel[w].consumer] = w
    <2>. SUFFICES ASSUME NEW w \in W
                  PROVE  channel[w].consumer \in PW /\ place[channel[w].consumer] = w
      OBVIOUS
    <2>1. w \in ready /\ channel[w].request.kind = "write"
          /\ channel[w].request.address = a /\ w < p
      BY DEF WritersBefore
    <2>2. channel[w].consumer \in served /\ place[channel[w].consumer] = w
      BY <2>1, PlaceFacts
    <2>3. request[channel[w].consumer] = channel[w].request
      BY <2>2, PlaceFacts
    <2>. QED BY <2>1, <2>2, <2>3
  <1>3. Port!WordAt(served, place, a, p) =
          IF PW = {} THEN memory[a]
          ELSE request[CHOOSE c \in PW : \A d \in PW : place[d] <= place[c]].data
    BY DEF Port!WordAt
  <1>4. CASE W = {}
    <2>1. PW = {}
      BY <1>1, <1>4
    <2>2. WordAt(ready, a, p) = memory[a]
      BY <1>4 DEF WordAt
    <2>. QED BY <1>3, <2>1, <2>2
  <1>5. CASE W # {}
    <2>1. PICK w \in W : /\ \A v \in W : v <= w
                         /\ WordAt(ready, a, p) = channel[w].request.data
      BY <1>0, <1>5, WordAtLast
    <2>. DEFINE x == CHOOSE c \in PW : \A d \in PW : place[d] <= place[c]
    <2>2. channel[w].consumer \in PW /\ place[channel[w].consumer] = w
      BY <1>2
    <2>3. \E c \in PW : \A d \in PW : place[d] <= place[c]
      BY <1>1, <2>1, <2>2
    <2>4. x \in PW /\ \A d \in PW : place[d] <= place[x]
      BY <2>3
    <2>5. place[x] \in W /\ w <= place[x] /\ place[x] <= w
      BY <1>1, <2>1, <2>2, <2>4
    <2>6. w \in Int /\ place[x] \in Int
      <3>1. w \in Channels /\ place[x] \in Channels
        BY <2>5 DEF WritersBefore, BusyChannels
      <3>. QED BY <3>1, ChannelNumbers
    <2>7. place[x] = w
      BY <2>5, <2>6
    <2>8. request[x] = channel[w].request
      BY <2>4, <2>7, PlaceFacts
    <2>9. Port!WordAt(served, place, a, p) = request[x].data
      BY <1>3, <2>2
    <2>. QED BY <2>1, <2>8, <2>9
  <1>. QED BY <1>4, <1>5

\* What a consumer is given is the word read at its place.
LEMMA SameAnswer ==
  ASSUME IInv, NEW ready \in SUBSET BusyChannels, NEW c \in Consumers
  PROVE  AnswerTo(c, ready) =
           IF c \in Served(ready) /\ request[c].kind = "read"
           THEN Port!WordAt(Served(ready), Place(ready), request[c].address, Place(ready)[c])
           ELSE answer[c]
  <1>1. CASE c \in Served(ready) /\ request[c].kind = "read"
    <2>. DEFINE p == Place(ready)[c]
    <2>1. /\ p \in ready /\ channel[p].consumer = c /\ channel[p].request = request[c]
          /\ request[c].address \in Addresses
      BY <1>1, PlaceFacts, RequestShape
    <2>2. \A ch \in ready : channel[ch].consumer = c => ch = p
      BY PlaceFacts
    <2>3. ReadsOf(ready, c) = {p}
      BY <1>1, <2>1, <2>2 DEF ReadsOf
    <2>4. (CHOOSE ch \in ReadsOf(ready, c) : TRUE) = p
      BY <2>3
    <2>5. AnswerTo(c, ready) = WordAt(ready, request[c].address, p)
      BY <2>1, <2>3, <2>4 DEF AnswerTo
    <2>6. p \in Channels
      BY <2>1 DEF BusyChannels
    <2>7. p \in Int
      BY <2>6, ChannelNumbers
    <2>. QED BY <1>1, <2>1, <2>5, <2>7, SameWord
  <1>2. CASE ~(c \in Served(ready) /\ request[c].kind = "read")
    <2>1. ReadsOf(ready, c) = {}
      BY <1>2, PlaceFacts DEF ReadsOf
    <2>. QED BY <1>2, <2>1 DEF AnswerTo
  <1>. QED BY <1>1, <1>2

\* An edge is one service of the port.
LEMMA ClockStep ==
  ASSUME IInv, NEW ready, Clock(ready)
  PROVE  Port!Serve(Served(ready), Place(ready))
  <1>1. ready \in SUBSET BusyChannels
    BY DEF Clock
  <1>2. \A c \in Served(ready) : request[c] # Port!NoRequest
    BY <1>1, PlaceFacts, RequestShape DEF Port!NoRequest, NoRequest
  <1>3. \A c, d \in Served(ready) : Place(ready)[c] = Place(ready)[d] => c = d
    BY <1>1, PlaceFacts
  <1>4. request' = [c \in Consumers |-> IF c \in Served(ready) THEN Port!NoRequest
                                        ELSE request[c]]
    BY DEF Clock, Served, Port!NoRequest, NoRequest
  <1>5. answer' = [c \in Consumers |->
                     IF c \in Served(ready) /\ request[c].kind = "read"
                     THEN Port!WordAt(Served(ready), Place(ready), request[c].address,
                                      Place(ready)[c])
                     ELSE answer[c]]
    BY <1>1, SameAnswer DEF Clock
  <1>6. memory' = [a \in Addresses |->
                     Port!WordAt(Served(ready), Place(ready), a, NumChannels)]
    BY <1>1, SameWord, ChannelsAssumption DEF Clock
  <1>. QED BY <1>2, <1>3, <1>4, <1>5, <1>6 DEF Port!Serve

\* The controller, its channels and the memory behind them implement the port
\* its requesters rely on: a request takes effect once, in some order within
\* the cycle, and a read's data reaches the consumer that asked
\* (memory_controller.sv:104-127).
THEOREM PortRefinement == Spec => ImplementsMemoryPort
  <1>1. Init => Port!Init
    BY DEF Init, Port!Init, Port!NoRequest, NoRequest, Port!NoAnswer, NoAnswer
  <1>2. ASSUME IInv, [Next]_vars PROVE [Port!Next]_(Port!vars)
    <2>1. ASSUME NEW c \in Consumers, NEW r \in Requests, Raise(c, r) PROVE Port!Next
      <3>1. Port!Raise(c, r)
        BY <2>1 DEF Raise, Port!Raise, Port!NoRequest, NoRequest, Port!NoAnswer, NoAnswer
      <3>2. r \in Port!Requests
        BY DEF Requests, Reads, Writes, Port!Requests, Port!Reads, Port!Writes
      <3>. QED BY <3>1, <3>2 DEF Port!Next
    <2>2. ASSUME NEW ready \in SUBSET Channels, Clock(ready) PROVE Port!Next
      <3>1. ready \in SUBSET BusyChannels
        BY <2>2 DEF Clock
      <3>2. Served(ready) \in SUBSET Consumers
        BY <1>2, <3>1, PlaceFacts
      <3>3. Place(ready) \in [Served(ready) -> 0 .. NumChannels - 1]
        <4>1. \A c \in Served(ready) : Place(ready)[c] \in Channels
          BY <1>2, <2>2, <3>1, PlaceFacts
        <4>. QED BY <4>1 DEF Place, Channels
      <3>4. Port!Serve(Served(ready), Place(ready))
        BY <1>2, <2>2, ClockStep
      <3>. QED BY <3>2, <3>3, <3>4 DEF Port!Next
    <2>3. CASE UNCHANGED vars
      BY <2>3 DEF vars, Port!vars
    <2>. QED BY <1>2, <2>1, <2>2, <2>3 DEF Next
  <1>. QED BY <1>1, <1>2, ControllerInvariance, PTL DEF Spec, ImplementsMemoryPort, Port!Spec
=============================================================================
