----------------------------- MODULE MemoryPort -----------------------------
(***************************************************************************)
(* What the memory side of the GPU promises its requesters (the fetchers   *)
(* and the load/store units): every request takes effect exactly once, at  *)
(* one moment while it is outstanding, a read is answered with what memory *)
(* holds at that moment, and the answer reaches the requester itself.      *)
(***************************************************************************)
EXTENDS Integers

CONSTANTS
  Consumers,   \* requesters
  Addresses,   \* addresses of the memory behind the port
  Data,        \* values of a memory word
  CanWrite,    \* FALSE for program memory (WRITE_ENABLE)
  Slots        \* requests that can take effect in one cycle

VARIABLES
  memory,      \* the memory behind the port
  request,     \* per consumer: its outstanding request
  answer       \* per consumer: data its last read brought back

vars == <<memory, request, answer>>

NoRequest == [kind |-> "none"]
NoAnswer == -1

Reads == [kind : {"read"}, address : Addresses]
Writes == [kind : {"write"}, address : Addresses, data : Data]
Requests == Reads \cup (IF CanWrite THEN Writes ELSE {})

Init ==
  /\ memory \in [Addresses -> Data]
  /\ request = [c \in Consumers |-> NoRequest]
  /\ answer = [c \in Consumers |-> NoAnswer]

Raise(c, r) ==
  /\ request[c] = NoRequest
  /\ request' = [request EXCEPT ![c] = r]
  /\ answer' = [answer EXCEPT ![c] = NoAnswer]
  /\ UNCHANGED memory

\* The word at address a when the consumers placed before position p have been
\* served.
WordAt(served, place, a, p) ==
  LET writers == {c \in served : request[c].kind = "write" /\ request[c].address = a
                                 /\ place[c] < p}
  IN  IF writers = {} THEN memory[a]
      ELSE request[CHOOSE c \in writers : \A d \in writers : place[d] <= place[c]].data

\* The requests of the consumers in served take effect one after the other, in
\* the order of their places.
Serve(served, place) ==
  /\ \A c \in served : request[c] # NoRequest
  /\ \A c, d \in served : place[c] = place[d] => c = d
  /\ request' = [c \in Consumers |-> IF c \in served THEN NoRequest ELSE request[c]]
  /\ answer' = [c \in Consumers |->
                  IF c \in served /\ request[c].kind = "read"
                  THEN WordAt(served, place, request[c].address, place[c])
                  ELSE answer[c]]
  /\ memory' = [a \in Addresses |-> WordAt(served, place, a, Slots)]

Next ==
  \/ \E c \in Consumers, r \in Requests : Raise(c, r)
  \/ \E served \in SUBSET Consumers :
       \E place \in [served -> 0 .. Slots - 1] : Serve(served, place)

Spec == Init /\ [][Next]_vars
=============================================================================
