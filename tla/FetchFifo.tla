----------------------------- MODULE FetchFifo -----------------------------
(***************************************************************************)
(* The fetch FIFO of the prefetch buffer, rtl/ibex_fetch_fifo.sv, register *)
(* by register.  It takes aligned 32-bit words from the instruction bus    *)
(* and presents one instruction at a time, 16 or 32 bits long, at any      *)
(* halfword address, built from the words it holds and from the word that  *)
(* is arriving in the same cycle (the bypass path).                        *)
(*                                                                         *)
(* One step is one clock edge.  The input port of a cycle is a record `in' *)
(* with the fields clear, addr (the new address, used when clear is high), *)
(* valid and word (the incoming word) and ready (the consumer takes what   *)
(* is offered).                                                            *)
(*                                                                         *)
(* Data abstraction: of the 32 bits of a word the FIFO looks at bits [1:0] *)
(* and [17:16] only, to tell a compressed instruction.  A word is its      *)
(* address, those two answers (lo, hi) and the bus error flag.             *)
(***************************************************************************)
EXTENDS Naturals

CONSTANTS
  NUM_REQS,    \* words the prefetch buffer may have outstanding on the bus
  WORDS        \* size of the address space in words; addresses wrap around

ASSUME FifoAssumption == NUM_REQS \in Nat \ {0} /\ WORDS \in Nat \ {0}

VARIABLES
  valid_q,       \* one valid bit per entry; entry 0 is the output
  data_q,        \* rdata_q and err_q of each entry
  instr_addr_q   \* address of the instruction at the output

fifoVars == <<valid_q, data_q, instr_addr_q>>

DEPTH == NUM_REQS + 1
Entry == 0 .. NUM_REQS
Word  == 0 .. WORDS - 1

\* A halfword address: bits [31:2] and bit [1].
Addr == [word : Word, half : {0, 1}]

FetchWord == [word : Word, lo : BOOLEAN, hi : BOOLEAN, err : BOOLEAN]

\* The flops of an entry whose valid bit is clear hold a stale word.  Every
\* reader of data_q looks at the valid bit first, so the model stores StaleWord.
StaleWord == [word |-> 0, lo |-> FALSE, hi |-> FALSE, err |-> FALSE]

NextWord(w) == (w + 1) % WORDS

FifoInput == [clear : BOOLEAN, addr : Addr, valid : BOOLEAN,
              word : FetchWord, ready : BOOLEAN]

-----------------------------------------------------------------------------
(* The output port. *)

first(in)  == IF valid_q[0] THEN data_q[0] ELSE in.word
second(in) == IF valid_q[1] THEN data_q[1] ELSE in.word

unaligned == instr_addr_q.half = 1

\* With a bus error the data is unknown and counts as uncompressed.
unaligned_is_compressed(in) == first(in).hi /\ ~first(in).err
aligned_is_compressed(in)   == first(in).lo /\ ~first(in).err

valid(in) == valid_q[0] \/ in.valid

\* Mutant: the second half must be arriving in this very cycle.
valid_unaligned_BypassOnly(in) == valid_q[0] /\ in.valid

valid_unaligned(in) == valid_q[1] \/ (valid_q[0] /\ in.valid)

out_valid(in) ==
  IF unaligned /\ ~unaligned_is_compressed(in)
    THEN valid_unaligned(in)
    ELSE valid(in)

\* Mutant: the error of an upper half that waits in the next entry is lost.
err_unaligned_LowerOnly(in) ==
  IF valid_q[1]
    THEN data_q[0].err
    ELSE \/ valid_q[0] /\ data_q[0].err
         \/ in.word.err /\ (~valid_q[0] \/ ~unaligned_is_compressed(in))

err_unaligned(in) ==
  IF valid_q[1]
    THEN (data_q[1].err /\ ~unaligned_is_compressed(in)) \/ data_q[0].err
    ELSE \/ valid_q[0] /\ data_q[0].err
         \/ in.word.err /\ (~valid_q[0] \/ ~unaligned_is_compressed(in))

err_plus2(in) ==
  IF valid_q[1]
    THEN data_q[1].err /\ ~data_q[0].err
    ELSE in.word.err /\ valid_q[0] /\ ~data_q[0].err

out_err(in)       == IF unaligned THEN err_unaligned(in) ELSE first(in).err
out_err_plus2(in) == unaligned /\ err_plus2(in)

\* The instruction offered: its address, the words its low and its high half
\* are taken from (the high half of a compressed one is not looked at), and the
\* error flags; err_plus2 means something only next to err.
out_compressed(in) ==
  IF unaligned THEN unaligned_is_compressed(in) ELSE aligned_is_compressed(in)

out_instr(in) ==
  [pc         |-> instr_addr_q,
   compressed |-> out_compressed(in),
   low        |-> first(in).word,
   high       |-> IF unaligned /\ ~out_compressed(in)
                    THEN second(in).word ELSE first(in).word,
   err        |-> out_err(in),
   err_plus2  |-> out_err(in) /\ out_err_plus2(in)]

-----------------------------------------------------------------------------
(* Address and entry management. *)

out_fire(in) == in.ready /\ out_valid(in)

\* The address after the offered instruction: two bytes on, or four.
instr_addr_next(in) ==
  [word |-> IF out_compressed(in) /\ ~unaligned
              THEN instr_addr_q.word ELSE NextWord(instr_addr_q.word),
   half |-> IF out_compressed(in)
              THEN 1 - instr_addr_q.half ELSE instr_addr_q.half]

pop_fifo(in) == out_fire(in) /\ (~aligned_is_compressed(in) \/ unaligned)

lowest_free_entry(i) == ~valid_q[i] /\ (i > 0 => valid_q[i - 1])

valid_pushed(in, i) == valid_q[i] \/ (in.valid /\ lowest_free_entry(i))

\* Mutant: a pop empties the output entry without shifting the others.
valid_popped_NoShift(in, i) ==
  IF pop_fifo(in) THEN i > 0 /\ valid_pushed(in, i) ELSE valid_pushed(in, i)

valid_popped(in, i) ==
  IF pop_fifo(in)
    THEN i < NUM_REQS /\ valid_pushed(in, i + 1)
    ELSE valid_pushed(in, i)

valid_d(in, i) == valid_popped(in, i) /\ ~in.clear

entry_en(in, i) ==
  IF i = NUM_REQS
    THEN in.valid /\ lowest_free_entry(i)
    ELSE \/ valid_pushed(in, i + 1) /\ pop_fifo(in)
         \/ in.valid /\ lowest_free_entry(i) /\ ~pop_fifo(in)

data_d(in, i) ==
  IF i < NUM_REQS /\ valid_q[i + 1] THEN data_q[i + 1] ELSE in.word

FifoInit(addrs) ==
  /\ valid_q = [i \in Entry |-> FALSE]
  /\ data_q = [i \in Entry |-> StaleWord]
  /\ instr_addr_q \in addrs

\* One clock edge.
FifoCycle(in) ==
  /\ valid_q' = [i \in Entry |-> valid_d(in, i)]
  /\ data_q' = [i \in Entry |->
                  IF ~valid_d(in, i) THEN StaleWord
                  ELSE IF entry_en(in, i) THEN data_d(in, i)
                  ELSE data_q[i]]
  /\ instr_addr_q' = IF in.clear THEN in.addr
                     ELSE IF out_fire(in) THEN instr_addr_next(in)
                     ELSE instr_addr_q

\* The FIFO on its own, in any surroundings.
FifoNext == \E in \in FifoInput : FifoCycle(in)

FifoSpec == FifoInit(Addr) /\ [][FifoNext]_fifoVars

\* Type invariant of the FIFO.
FifoTypeOK ==
  /\ valid_q \in [Entry -> BOOLEAN]
  /\ data_q \in [Entry -> FetchWord]
  /\ instr_addr_q \in Addr

\* The valid bits are a thermometer code: no entry is valid above an invalid
\* one, which is what lets lowest_free_entry find a single write position and
\* busy_o stand for the fill level.
Contiguous == \A i \in 1 .. NUM_REQS : valid_q[i] => valid_q[i - 1]
=============================================================================
