----------------------------- MODULE MCRuntime -----------------------------
(* Memories of 8 bytes of data and 4 of program, 32-bit fields of 16 values  *)
(* and thread counts of 2 bits: every size at, below and beyond its limit.   *)
EXTENDS Runtime

RawBytes(size) == Bytes(<<"raw">>, size)

RawPrograms ==
  {[ptr |-> ptr, size |-> size, bytes |-> RawBytes(2)] :
     ptr \in BOOLEAN, size \in {0, 2, ProgramMemory + 1}}

RawInputs ==
  {[ptr |-> ptr, size |-> range[1], offset |-> range[2], bytes |-> RawBytes(DataMemory)] :
     ptr \in BOOLEAN,
     range \in {<<0, 0>>, <<DataMemory, 0>>, <<2, DataMemory - 2>>, <<2, DataMemory - 1>>,
                <<2, Words - 1>>, <<0, DataMemory + 1>>}}

RawOutputs == {[ptr |-> part.ptr, size |-> part.size, offset |-> part.offset] : part \in RawInputs}

RawSubmits ==
  {[program |-> p, input |-> i, output |-> o, thread_count |-> n, reserved |-> b] :
     p \in RawPrograms, i \in RawInputs, o \in RawOutputs,
     n \in {0, Counts - 1, Counts}, b \in BOOLEAN}
=============================================================================
