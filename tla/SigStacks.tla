------------------------------ MODULE SigStacks ------------------------------
(***************************************************************************)
(* The three growable arrays every thread keeps: sig_handler_stack,        *)
(* sig_restart_stack (src/libevsig/signals.c) and unwind_stack             *)
(* (src/libevsig/unwind.c).  One is a record                               *)
(*   mem    the initialised slots, those above fill included: removing an  *)
(*          entry leaves the old top where it was                          *)
(*   fill   the number of entries in use                                   *)
(*   alloc  the number of slots allocated                                  *)
(* Slots are numbered from 1 here, from 0 in the code.                     *)
(***************************************************************************)
EXTENDS Naturals, Sequences, FiniteSetsExt

CONSTANT InitAlloc   \* slots allocated by sig_init and unwind_init (32)

ASSUME InitAllocAssumption == InitAlloc \in Nat \ {0}

EmptyStack == [mem |-> <<>>, fill |-> 0, alloc |-> InitAlloc]

Live(st) == SubSeq(st.mem, 1, st.fill)

(* A bug: growing only once the array is overfull. *)
Grown_TooLate(st) == IF st.fill > st.alloc THEN 2 * st.alloc ELSE st.alloc

(* The allocation doubles when the next entry would not fit. *)
Grown(st) == IF st.fill + 1 > st.alloc THEN 2 * st.alloc ELSE st.alloc

Push(st, e) ==
  [mem   |-> [i \in DOMAIN st.mem \cup {st.fill + 1} |->
                IF i = st.fill + 1 THEN e ELSE st.mem[i]],
   fill  |-> st.fill + 1,
   alloc |-> Grown(st)]

(* A bug: the number of entries as the id of a new one. *)
NextId_Count(st, first) == st.fill + first

(* A new entry's id is one more than the id of the entry below it. *)
NextId(st, first) == IF st.fill > 0 THEN st.mem[st.fill].id + 1 ELSE first

SlotsWithId(st, id) == {i \in 1 .. st.fill : st.mem[i].id = id}

(* A bug: dropping the top entry in place of the one that was found. *)
RemoveId_Top(st, id) ==
  IF SlotsWithId(st, id) = {}
  THEN st
  ELSE [mem |-> st.mem, fill |-> st.fill - 1, alloc |-> st.alloc]

(* The topmost entry with this id is shifted out; nothing happens without one. *)
RemoveId(st, id) ==
  IF SlotsWithId(st, id) = {}
  THEN st
  ELSE LET found == Max(SlotsWithId(st, id))
       IN  [mem   |-> [i \in DOMAIN st.mem |->
                         IF found <= i /\ i < st.fill THEN st.mem[i + 1] ELSE st.mem[i]],
            fill  |-> st.fill - 1,
            alloc |-> st.alloc]

-----------------------------------------------------------------------------
(* Ids grow from the bottom of a stack to its top, so no two entries share   *)
(* one and an id names the entry it was given to.                            *)
IdsIncrease(st) == \A i, j \in 1 .. st.fill : i < j => st.mem[i].id < st.mem[j].id

(* No slot is written outside the allocation, none in use is uninitialised.  *)
WithinAlloc(st) ==
  /\ st.fill \in Nat /\ st.alloc \in Nat
  /\ 1 .. st.fill \subseteq DOMAIN st.mem
  /\ DOMAIN st.mem \subseteq 1 .. st.alloc
=============================================================================
