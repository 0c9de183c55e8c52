-------------------------- MODULE MemoryController --------------------------
(***************************************************************************)
(* The memory controller (rtl/memory_controller.sv) that puts many         *)
(* requesters on few memory channels, with the requesters' handshake (a    *)
(* request is held until its ready pulse, then dropped: if_stage.sv,       *)
(* mem_stage.sv) and the memory behind the channels (the service functions *)
(* of VerilatedGpu, or the testbench's Memory).                            *)
(*                                                                         *)
(* Clock is one rising edge.  Raise is a requester putting a request on    *)
(* its wires between two edges: any number of them, in any order.  Memory  *)
(* answers any of the busy channels in a cycle, after any delay.           *)
(***************************************************************************)
EXTENDS Integers, FiniteSets

CONSTANTS
  NumConsumers,  \* NUM_CONSUMERS
  NumChannels,   \* NUM_CHANNELS
  WriteEnable,   \* WRITE_ENABLE: FALSE in the program memory controller
  Addresses,     \* addresses of the memory behind the channels
  Data           \* values of a memory word

ASSUME ConsumersAssumption == NumConsumers \in Nat \ {0}
ASSUME ChannelsAssumption == NumChannels \in Nat \ {0}
ASSUME WriteEnableAssumption == WriteEnable \in BOOLEAN
ASSUME DataAssumption == Data \subseteq Nat

Consumers == 0 .. NumConsumers - 1
Channels == 0 .. NumChannels - 1

VARIABLES
  channel,   \* per channel: Idle, or the consumer and the request it latched
  request,   \* per consumer: the request on its wires
  answer,    \* per consumer: history, data its last read brought back
  memory     \* the memory behind the channels

vars == <<channel, request, answer, memory>>

NoRequest == [kind |-> "none"]
NoAnswer == -1

Reads == [kind : {"read"}, address : Addresses]
Writes == [kind : {"write"}, address : Addresses, data : Data]
Requests == Reads \cup (IF WriteEnable THEN Writes ELSE {})

Idle == [state |-> "IDLE"]
Serving(c) == [state |-> "BUSY", consumer |-> c, request |-> request[c]]

IdleChannels == {ch \in Channels : channel[ch] = Idle}
BusyChannels == Channels \ IdleChannels

-----------------------------------------------------------------------------
(* Arbitration.                                                            *)

\* Mutant: the scan does not look at the valid wires.
PendingAny == Consumers

Pending == {c \in Consumers : request[c] # NoRequest}

\* consumer_selected when the scan of the channels begins.
Selected == {channel[ch].consumer : ch \in BusyChannels}

\* Mutant: consumer_selected is not seeded from the busy channels.
WaitingUnmarked == Pending

Waiting == Pending \ Selected

Turn(S, x) == Cardinality({y \in S : y < x})

\* Mutant: the scan looks at the highest consumer first.
GrantsHighest(ch, c) ==
  /\ ch \in IdleChannels
  /\ c \in Waiting
  /\ Turn(IdleChannels, ch) = Cardinality({d \in Waiting : d > c})

\* The scan: each idle channel, lowest first, takes the lowest waiting
\* consumer that no earlier channel has taken.
Grants(ch, c) ==
  /\ ch \in IdleChannels
  /\ c \in Waiting
  /\ Turn(IdleChannels, ch) = Turn(Waiting, c)

-----------------------------------------------------------------------------
(* The memory: ready channels are served in channel order.                 *)

WritersBefore(ready, a, ch) ==
  {w \in ready : /\ channel[w].request.kind = "write"
                 /\ channel[w].request.address = a
                 /\ w < ch}

\* The word at address a when the ready channels below ch have been served.
WordAt(ready, a, ch) ==
  LET writers == WritersBefore(ready, a, ch)
  IN  IF writers = {} THEN memory[a]
      ELSE channel[CHOOSE w \in writers : \A v \in writers : v <= w].request.data

ReadsOf(ready, c) ==
  {ch \in ready : channel[ch].consumer = c /\ channel[ch].request.kind = "read"}

ConsumersOf(ready) == {channel[ch].consumer : ch \in ready}

-----------------------------------------------------------------------------

Init ==
  /\ channel = [ch \in Channels |-> Idle]
  /\ request = [c \in Consumers |-> NoRequest]
  /\ answer = [c \in Consumers |-> NoAnswer]
  /\ memory \in [Addresses -> Data]

Raise(c, r) ==
  /\ request[c] = NoRequest
  /\ request' = [request EXCEPT ![c] = r]
  /\ answer' = [answer EXCEPT ![c] = NoAnswer]
  /\ UNCHANGED <<channel, memory>>

\* Mutant: a channel whose request was answered stays busy one more cycle.
ChannelAfterLate(ch, ready) ==
  IF \E c \in Consumers : Grants(ch, c)
  THEN Serving(CHOOSE c \in Consumers : Grants(ch, c))
  ELSE channel[ch]

ChannelAfter(ch, ready) ==
  IF ch \in ready THEN Idle
  ELSE IF \E c \in Consumers : Grants(ch, c)
  THEN Serving(CHOOSE c \in Consumers : Grants(ch, c))
  ELSE channel[ch]

\* Mutant: the data of a read goes to the consumer with the channel's number.
AnswerToMisrouted(c, ready) ==
  IF c \in ready /\ channel[c].request.kind = "read"
  THEN WordAt(ready, channel[c].request.address, c)
  ELSE answer[c]

\* consumer_read_data and consumer_read_ready of consumer c.
AnswerTo(c, ready) ==
  IF ReadsOf(ready, c) = {} THEN answer[c]
  ELSE LET ch == CHOOSE ch \in ReadsOf(ready, c) : TRUE
       IN  WordAt(ready, channel[ch].request.address, ch)

\* One edge: memory has answered the channels in ready, their consumers see a
\* ready pulse and drop their requests; idle channels latch waiting requests.
Clock(ready) ==
  /\ ready \subseteq BusyChannels
  /\ channel' = [ch \in Channels |-> ChannelAfter(ch, ready)]
  /\ request' = [c \in Consumers |-> IF c \in ConsumersOf(ready) THEN NoRequest
                                     ELSE request[c]]
  /\ answer' = [c \in Consumers |-> AnswerTo(c, ready)]
  /\ memory' = [a \in Addresses |-> WordAt(ready, a, NumChannels)]

Next ==
  \/ \E c \in Consumers, r \in Requests : Raise(c, r)
  \/ \E ready \in SUBSET Channels : Clock(ready)

\* The clock runs and memory answers every channel in the end.
Fairness ==
  /\ WF_vars(\E ready \in SUBSET Channels : Clock(ready))
  /\ \A ch \in Channels : WF_vars(\E ready \in SUBSET Channels : ch \in ready /\ Clock(ready))

Spec == Init /\ [][Next]_vars
FairSpec == Spec /\ Fairness

-----------------------------------------------------------------------------
(* Properties.                                                             *)

\* A busy channel holds a consumer and a request one of them can make, and
\* nothing but data of the interface is answered or stored.
TypeOK ==
  /\ channel \in [Channels -> {Idle} \cup [state : {"BUSY"}, consumer : Consumers,
                                           request : Requests]]
  /\ request \in [Consumers -> {NoRequest} \cup Requests]
  /\ answer \in [Consumers -> {NoAnswer} \cup Data]
  /\ memory \in [Addresses -> Data]

\* A busy channel serves the request its consumer still holds on its wires,
\* with the address and data latched when it was granted.
ServesItsConsumer ==
  \A ch \in BusyChannels : channel[ch].request = request[channel[ch].consumer]

\* No consumer is on two channels, so no request is issued to memory twice.
Exclusive ==
  \A ch, other \in BusyChannels :
    channel[ch].consumer = channel[other].consumer => ch = other

\* The inductive invariant of the controller.
IInv == TypeOK /\ ServesItsConsumer /\ Exclusive

Port == INSTANCE MemoryPort WITH CanWrite <- WriteEnable, Slots <- NumChannels

\* The controller with its channels is the memory port its requesters rely on:
\* each request takes effect once and its answer reaches its requester.
ImplementsMemoryPort == Port!Spec

\* Fixed priority starves nobody among the first NumChannels consumers: each of
\* their requests is served, whatever the others ask for.
HighPriorityServed ==
  \A c \in Consumers : c < NumChannels => (request[c] # NoRequest ~> request[c] = NoRequest)
=============================================================================
