--------------------------- MODULE SigScopes_proofs ---------------------------
(***************************************************************************)
(* The stacks and the scopes of a thread, for any signal types, restarts   *)
(* and actions and however deep user code nests: ids increase and the      *)
(* stacks stay within their allocation; through every nesting of scopes,   *)
(* sends, unwinds and cleanups the unwind stack holds exactly the entries  *)
(* of the scopes that are open, their actions are run once, and every      *)
(* restart a handler can choose leads to a return point that is still      *)
(* there; and to its process a thread lives as ThreadLife says.            *)
(***************************************************************************)
EXTENDS SigThread, TLAPS, FiniteSetTheorems, WellFoundedInduction

-----------------------------------------------------------------------------
(* What pushing on and removing from a stack of SigStacks preserves          *)

(* A stack whose entries carry increasing ids. *)
StackOK(st) ==
  /\ WithinAlloc(st)
  /\ st.alloc > 0
  /\ \A i \in 1 .. st.fill : st.mem[i].id \in Nat
  /\ IdsIncrease(st)

LEMMA FillBelowAlloc ==
  ASSUME NEW st, WithinAlloc(st)
  PROVE  st.fill <= st.alloc
<1>1. CASE st.fill = 0
  BY <1>1 DEF WithinAlloc
<1>2. CASE st.fill > 0
  <2>1. st.fill \in 1 .. st.fill
    BY <1>2 DEF WithinAlloc
  <2> QED BY <2>1 DEF WithinAlloc
<1> QED BY <1>1, <1>2 DEF WithinAlloc

(* sig_init allocates room for a first entry. *)
LEMMA EmptyStackOK == StackOK(EmptyStack)
BY InitAllocAssumption DEF StackOK, WithinAlloc, IdsIncrease, EmptyStack

(* The id a new entry gets is larger than that of every entry below it.      *)
LEMMA NextIdAbove ==
  ASSUME NEW st, NEW first \in Nat, StackOK(st)
  PROVE  /\ NextId(st, first) \in Nat
         /\ \A i \in 1 .. st.fill : st.mem[i].id < NextId(st, first)
<1>1. st.fill \in Nat
  BY DEF StackOK, WithinAlloc
<1>2. CASE st.fill = 0
  BY <1>1, <1>2 DEF NextId
<1>3. CASE st.fill > 0
  <2>1. st.fill \in 1 .. st.fill
    BY <1>1, <1>3
  <2>2. st.mem[st.fill].id \in Nat /\ NextId(st, first) = st.mem[st.fill].id + 1
    BY <1>3, <2>1 DEF StackOK, NextId
  <2>3. ASSUME NEW i \in 1 .. st.fill
        PROVE  st.mem[i].id < NextId(st, first)
    <3>1. CASE i = st.fill
      BY <2>2, <3>1
    <3>2. CASE i < st.fill
      <4>1. st.mem[i].id \in Nat /\ st.mem[i].id < st.mem[st.fill].id
        BY <2>1, <3>2 DEF StackOK, IdsIncrease
      <4> QED BY <2>2, <4>1
    <3> QED BY <1>1, <3>1, <3>2
  <2> QED BY <2>2, <2>3
<1> QED BY <1>1, <1>2, <1>3

(* _sig_push_handler and _sig_push_restart keep ids increasing and stay      *)
(* inside the allocation, which they grow in time.                           *)
LEMMA PushOK ==
  ASSUME NEW st, NEW e, NEW first \in Nat, StackOK(st), e.id = NextId(st, first)
  PROVE  StackOK(Push(st, e))
<1> DEFINE new == Push(st, e)
<1>1. /\ st.fill \in Nat /\ st.alloc \in Nat
      /\ 1 .. st.fill \subseteq DOMAIN st.mem /\ DOMAIN st.mem \subseteq 1 .. st.alloc
  BY DEF StackOK, WithinAlloc
<1>2. st.fill <= st.alloc /\ st.alloc > 0
  BY FillBelowAlloc DEF StackOK
<1>3. /\ new.fill = st.fill + 1 /\ new.alloc = Grown(st)
      /\ DOMAIN new.mem = DOMAIN st.mem \cup {st.fill + 1}
      /\ \A i \in 1 .. st.fill : new.mem[i] = st.mem[i]
      /\ new.mem[st.fill + 1] = e
  BY <1>1 DEF Push
<1>4. Grown(st) \in Nat /\ st.alloc <= Grown(st) /\ st.fill + 1 <= Grown(st)
  BY <1>1, <1>2 DEF Grown
<1>5. WithinAlloc(new)
  BY <1>1, <1>3, <1>4 DEF WithinAlloc
<1>6. /\ NextId(st, first) \in Nat
      /\ \A i \in 1 .. st.fill : st.mem[i].id < NextId(st, first)
  BY NextIdAbove
<1>7. \A i \in 1 .. new.fill : new.mem[i].id \in Nat
  <2>1. \A i \in 1 .. st.fill : st.mem[i].id \in Nat
    BY DEF StackOK
  <2> QED BY <1>1, <1>3, <1>6, <2>1
<1>8. IdsIncrease(new)
  <2>1. SUFFICES ASSUME NEW i \in 1 .. new.fill, NEW j \in 1 .. new.fill, i < j
                 PROVE  new.mem[i].id < new.mem[j].id
    BY DEF IdsIncrease
  <2>2. i \in 1 .. st.fill
    BY <1>1, <1>3, <2>1
  <2>3. CASE j = st.fill + 1
    BY <1>3, <1>6, <2>2, <2>3
  <2>4. CASE j \in 1 .. st.fill
    BY <1>3, <2>1, <2>2, <2>4 DEF StackOK, IdsIncrease
  <2> QED BY <1>1, <1>3, <2>3, <2>4
<1> QED BY <1>2, <1>3, <1>4, <1>1, <1>5, <1>7, <1>8 DEF StackOK

(* There is at most one slot with an id, so the search finds it whatever the *)
(* direction it looks in.                                                    *)
LEMMA SlotIsUnique ==
  ASSUME NEW st, NEW id, StackOK(st), NEW k \in SlotsWithId(st, id)
  PROVE  SlotsWithId(st, id) = {k} /\ Max(SlotsWithId(st, id)) = k
<1>1. \A j \in SlotsWithId(st, id) : j = k
  <2>1. SUFFICES ASSUME NEW j \in SlotsWithId(st, id), j # k PROVE FALSE
    OBVIOUS
  <2>2. /\ j \in 1 .. st.fill /\ k \in 1 .. st.fill
        /\ st.mem[j].id = st.mem[k].id /\ st.mem[k].id \in Nat
    BY <2>1 DEF SlotsWithId, StackOK
  <2>3. j < k \/ k < j
    BY <2>1, <2>2 DEF StackOK, WithinAlloc
  <2> QED BY <2>2, <2>3 DEF StackOK, IdsIncrease
<1>2. SlotsWithId(st, id) = {k}
  BY <1>1
<1>3. k \in Nat
  BY DEF SlotsWithId, StackOK, WithinAlloc
<1> QED BY <1>2, <1>3 DEF Max

(* _sig_rm_handler and _sig_rm_restart keep the order of the other entries.  *)
LEMMA RemoveOK ==
  ASSUME NEW st, NEW id, StackOK(st)
  PROVE  StackOK(RemoveId(st, id))
<1>1. CASE SlotsWithId(st, id) = {}
  BY <1>1 DEF RemoveId
<1>2. CASE SlotsWithId(st, id) # {}
  <2> DEFINE new == RemoveId(st, id)
  <2>1. PICK k \in SlotsWithId(st, id) : TRUE
    BY <1>2
  <2>2. Max(SlotsWithId(st, id)) = k /\ k \in 1 .. st.fill
    BY SlotIsUnique DEF SlotsWithId
  <2>3. /\ st.fill \in Nat /\ st.alloc \in Nat /\ st.alloc > 0
        /\ 1 .. st.fill \subseteq DOMAIN st.mem /\ DOMAIN st.mem \subseteq 1 .. st.alloc
    BY DEF StackOK, WithinAlloc
  <2>4. new = [mem   |-> [i \in DOMAIN st.mem |->
                            IF k <= i /\ i < st.fill THEN st.mem[i + 1] ELSE st.mem[i]],
               fill  |-> st.fill - 1,
               alloc |-> st.alloc]
    BY <1>2, <2>2 DEF RemoveId
  <2>5. /\ new.fill = st.fill - 1 /\ new.fill \in Nat /\ new.alloc = st.alloc
        /\ DOMAIN new.mem = DOMAIN st.mem
    BY <2>2, <2>3, <2>4
  <2>6. \A i \in 1 .. new.fill :
          /\ i \in 1 .. st.fill /\ i + 1 \in 1 .. st.fill
          /\ new.mem[i] = IF k <= i THEN st.mem[i + 1] ELSE st.mem[i]
    <3>1. SUFFICES ASSUME NEW i \in 1 .. new.fill
                   PROVE  /\ i \in 1 .. st.fill /\ i + 1 \in 1 .. st.fill
                          /\ new.mem[i] = IF k <= i THEN st.mem[i + 1] ELSE st.mem[i]
      OBVIOUS
    <3>2. i \in 1 .. st.fill /\ i + 1 \in 1 .. st.fill /\ i < st.fill
      BY <2>3, <2>5
    <3>3. i \in DOMAIN st.mem
      BY <2>3, <3>2
    <3> QED BY <2>4, <3>2, <3>3
  <2>7. \A i \in 1 .. new.fill : new.mem[i].id \in Nat
    BY <2>6 DEF StackOK
  <2>8. IdsIncrease(new)
    <3>1. SUFFICES ASSUME NEW i \in 1 .. new.fill, NEW j \in 1 .. new.fill, i < j
                   PROVE  new.mem[i].id < new.mem[j].id
      BY DEF IdsIncrease
    <3>2. \A a, b \in 1 .. st.fill : a < b => st.mem[a].id < st.mem[b].id
      BY DEF StackOK, IdsIncrease
    <3>3. CASE k <= i
      <4>1. k <= j
        BY <2>2, <2>5, <3>1, <3>3
      <4>2. new.mem[i] = st.mem[i + 1] /\ new.mem[j] = st.mem[j + 1]
        BY <2>6, <3>3, <4>1
      <4>3. i + 1 \in 1 .. st.fill /\ j + 1 \in 1 .. st.fill /\ i + 1 < j + 1
        BY <2>5, <2>6, <3>1
      <4> QED BY <3>2, <4>2, <4>3
    <3>4. CASE ~(k <= i) /\ k <= j
      <4>1. new.mem[i] = st.mem[i] /\ new.mem[j] = st.mem[j + 1]
        BY <2>6, <3>4
      <4>2. i \in 1 .. st.fill /\ j + 1 \in 1 .. st.fill /\ i < j + 1
        BY <2>5, <2>6, <3>1
      <4> QED BY <3>2, <4>1, <4>2
    <3>5. CASE ~(k <= i) /\ ~(k <= j)
      <4>1. new.mem[i] = st.mem[i] /\ new.mem[j] = st.mem[j]
        BY <2>6, <3>5
      <4> QED BY <2>6, <3>1, <3>2, <4>1
    <3>6. k <= i => k <= j
      BY <2>2, <2>5, <3>1
    <3> QED BY <3>3, <3>4, <3>5, <3>6
  <2>9. WithinAlloc(new)
    BY <2>3, <2>5 DEF WithinAlloc
  <2> QED BY <2>3, <2>5, <2>7, <2>8, <2>9 DEF StackOK
<1> QED BY <1>1, <1>2

-----------------------------------------------------------------------------
(* The two signal stacks                                                     *)

(* Inductive as it stands: every step pushes on one of the two stacks,       *)
(* removes from one, or leaves both alone.                                   *)
SigStacksOK == StackOK(sig_handler_stack) /\ StackOK(sig_restart_stack)

LEMMA ReachableOK ==
  ASSUME NEW st, StackOK(st)
  PROVE  StackOK(Reachable(st))
<1> DEFINE new == Reachable(st)
<1>1. /\ st.fill \in Nat /\ st.alloc \in Nat
      /\ 1 .. st.fill \subseteq DOMAIN st.mem /\ DOMAIN st.mem \subseteq 1 .. st.alloc
  BY DEF StackOK, WithinAlloc
<1>2. /\ new.fill = st.fill /\ new.alloc = st.alloc
      /\ 1 .. st.fill \subseteq DOMAIN new.mem /\ DOMAIN new.mem \subseteq DOMAIN st.mem
      /\ \A i \in 1 .. st.fill : new.mem[i] = st.mem[i]
  BY <1>1 DEF Reachable
<1>3. WithinAlloc(new)
  BY <1>1, <1>2 DEF WithinAlloc
<1>4. IdsIncrease(new) /\ \A i \in 1 .. new.fill : new.mem[i].id \in Nat
  BY <1>2 DEF StackOK, IdsIncrease
<1> QED BY <1>2, <1>3, <1>4 DEF StackOK

LEMMA SigStacksInit == Init => SigStacksOK
<1>1. CatchAll.id = NextId(EmptyStack, 1)
  BY DEF CatchAll, NextId, EmptyStack
<1>2. StackOK(Push(EmptyStack, CatchAll))
  BY <1>1, EmptyStackOK, PushOK
<1> QED BY <1>2, EmptyStackOK DEF Init, SigStacksOK

LEMMA PushHandlerOK ==
  ASSUME SigStacksOK, NEW sig, PushHandler(sig)
  PROVE  StackOK(sig_handler_stack')
<1> DEFINE e == [sig |-> sig, id |-> NextId(sig_handler_stack, 1), catchall |-> FALSE]
<1>1. e.id = NextId(sig_handler_stack, 1)
  OBVIOUS
<1>2. StackOK(Push(sig_handler_stack, e))
  BY <1>1, PushOK DEF SigStacksOK
<1> QED BY <1>2 DEF PushHandler

LEMMA PushRestartOK ==
  ASSUME SigStacksOK, NEW sig, NEW rst, NEW p, PushRestart(sig, rst, p)
  PROVE  StackOK(sig_restart_stack')
<1> DEFINE e == [sig |-> sig, rst |-> rst, p |-> p, id |-> NextId(sig_restart_stack, 0)]
<1>1. e.id = NextId(sig_restart_stack, 0)
  OBVIOUS
<1>2. StackOK(Push(sig_restart_stack, e))
  BY <1>1, PushOK DEF SigStacksOK
<1> QED BY <1>2 DEF PushRestart

LEMMA RmHandlerOK ==
  ASSUME SigStacksOK, NEW id, RmHandler(id)
  PROVE  StackOK(sig_handler_stack')
BY RemoveOK, ReachableOK DEF SigStacksOK, RmHandler

LEMMA RmRestartOK ==
  ASSUME SigStacksOK, NEW id, RmRestart(id)
  PROVE  StackOK(sig_restart_stack')
BY RemoveOK, ReachableOK DEF SigStacksOK, RmRestart

(* Whatever entry of the unwind stack is called, by whichever of the three   *)
(* loops that call one.                                                      *)
LEMMA CallActionOK ==
  ASSUME SigStacksOK, NEW e, NEW fs, NEW base, CallAction(e, fs, base)
  PROVE  SigStacksOK'
<1>1. CASE UNCHANGED sigVars
  BY <1>1 DEF SigStacksOK, sigVars
<1>2. CASE RmHandler(e.arg) /\ UNCHANGED sig_restart_stack
  BY <1>2, RmHandlerOK DEF SigStacksOK
<1>3. CASE RmRestart(e.arg) /\ UNCHANGED sig_handler_stack
  BY <1>3, RmRestartOK DEF SigStacksOK
<1> QED BY <1>1, <1>2, <1>3 DEF CallAction

LEMMA SigStacksUser ==
  ASSUME SigStacksOK, UserStep
  PROVE  SigStacksOK'
<1> USE DEF SigStacksOK
<1>1. CASE UNCHANGED sigVars
  BY <1>1 DEF sigVars
<1>2. ASSUME NEW sig \in HandlerSigs, AutopopHandler(sig)
      PROVE  SigStacksOK'
  BY <1>2, PushHandlerOK DEF AutopopHandler
<1>3. ASSUME NEW mode, NEW sig, NEW rst, ProvideRestart(mode, sig, rst)
      PROVE  SigStacksOK'
  <2>1. PushRestart(sig, rst, Len(stack) + 1) /\ UNCHANGED sig_handler_stack
    BY <1>3 DEF ProvideRestart
  <2> QED BY <2>1, PushRestartOK
<1>4. CASE ReprovideRestart
  <2>1. PushRestart(Top.sig, Top.rst, Len(stack)) /\ UNCHANGED sig_handler_stack
    BY <1>4 DEF ReprovideRestart
  <2> QED BY <2>1, PushRestartOK
<1>5. CASE LeaveScope
  <2>1. PICK e : CallAction(e, Below, unwind_stack.fill - 1)
    BY <1>5 DEF LeaveScope
  <2> QED BY <2>1, CallActionOK
<1>6. ASSUME NEW sig \in HandlerSigs, PersistentHandler(sig)
      PROVE  SigStacksOK'
  BY <1>6, PushHandlerOK DEF PersistentHandler
<1>7. ASSUME NEW id \in held, RmPersistentHandler(id)
      PROVE  SigStacksOK'
  BY <1>7, RmHandlerOK DEF RmPersistentHandler
<1>8. CASE ThreadCleansUp
  BY <1>8 DEF ThreadCleansUp, SigCleanup
<1>9. \/ UNCHANGED sigVars
      \/ \E sig \in HandlerSigs : AutopopHandler(sig)
      \/ \E mode \in Modes \ {"plain"}, sig \in RestartSigs, rst \in Restarts :
           ProvideRestart(mode, sig, rst)
      \/ ReprovideRestart
      \/ LeaveScope
      \/ \E sig \in HandlerSigs : PersistentHandler(sig)
      \/ \E id \in held : RmPersistentHandler(id)
      \/ ThreadCleansUp
  BY DEF UserStep, UnwindAction, AutopopNullHandler, ReturnPoint, LeaveExplicitScope,
         LeavePoint, ActionReturns, HandlerReturns, UnwindInit, UnwindRelease, Unwind, Send,
         AssertHandler, ThreadUnwindCleanup
<1> QED BY <1>1, <1>2, <1>3, <1>4, <1>5, <1>6, <1>7, <1>8, <1>9

LEMMA SigStacksLibrary ==
  ASSUME SigStacksOK, LibraryStep
  PROVE  SigStacksOK'
<1>1. CASE UNCHANGED sigVars
  BY <1>1 DEF SigStacksOK, sigVars
<1>2. CASE UnwindNext
  <2>1. PICK e, fs, base : CallAction(e, fs, base)
    BY <1>2 DEF UnwindNext
  <2> QED BY <2>1, CallActionOK
<1>3. CASE CleanupNext
  <2>1. PICK e : CallAction(e, stack, unwind_stack.fill - 1)
    BY <1>3 DEF CleanupNext
  <2> QED BY <2>1, CallActionOK
<1>4. CASE CatchallCleansUp
  BY <1>4 DEF CatchallCleansUp, SigCleanup, SigStacksOK
<1>5. \/ UNCHANGED sigVars
      \/ UnwindNext \/ CleanupNext \/ CatchallCleansUp
  BY DEF LibraryStep, UnwindDone, SendNext, ReportFails, ReportAndRaise,
         UnwindAll, ReportOverflows, ExitThread, CleanupDone, UseAfterFree, UndefinedBehaviour
<1> QED BY <1>1, <1>2, <1>3, <1>4, <1>5

LEMMA SigStacksNext == SigStacksOK /\ [Next]_vars => SigStacksOK'
<1> SUFFICES ASSUME SigStacksOK, [Next]_vars PROVE SigStacksOK'
  OBVIOUS
<1>1. CASE UserStep
  BY <1>1, SigStacksUser
<1>2. CASE LibraryStep
  BY <1>2, SigStacksLibrary
<1>3. CASE UNCHANGED vars
  BY <1>3 DEF vars, SigStacksOK
<1> QED BY <1>1, <1>2, <1>3 DEF Next, Ended

(* The ids that the macros keep to remove a handler or a restart name one    *)
(* entry at all times, for every nesting of scopes, sends and unwinds.       *)
THEOREM UniqueIds == Spec => []IdsAreUnique
<1>1. SigStacksOK => IdsAreUnique
  BY DEF SigStacksOK, StackOK, IdsAreUnique
<1> QED BY <1>1, SigStacksInit, SigStacksNext, PTL DEF Spec

(* No push writes past the allocation, no removal lowers fill below 0.       *)
THEOREM SigStacksInBounds ==
  Spec => [](WithinAlloc(sig_handler_stack) /\ WithinAlloc(sig_restart_stack))
<1>1. SigStacksOK => WithinAlloc(sig_handler_stack) /\ WithinAlloc(sig_restart_stack)
  BY DEF SigStacksOK, StackOK
<1> QED BY <1>1, SigStacksInit, SigStacksNext, PTL DEF Spec

-----------------------------------------------------------------------------
(* Sequences                                                                *)

IsSequence(q) == q \in Seq(Range(q))

LEMMA SequenceIs ==
  ASSUME NEW S, NEW q \in Seq(S)
  PROVE  IsSequence(q)
<1>1. q \in [1 .. Len(q) -> S] /\ Len(q) \in Nat
  OBVIOUS
<1>2. q \in [1 .. Len(q) -> Range(q)]
  BY <1>1 DEF Range
<1> QED BY <1>1, <1>2 DEF IsSequence

LEMMA AppendIs ==
  ASSUME NEW q, IsSequence(q), NEW x
  PROVE  /\ IsSequence(Append(q, x)) /\ Len(Append(q, x)) = Len(q) + 1
         /\ \A k \in 1 .. Len(q) : Append(q, x)[k] = q[k]
         /\ Append(q, x)[Len(q) + 1] = x
<1> DEFINE S == Range(q) \cup {x}
<1>1. q \in Seq(S) /\ x \in S
  BY DEF IsSequence
<1> HIDE DEF S
<1>2. Append(q, x) \in Seq(S)
  BY <1>1
<1>3. IsSequence(Append(q, x))
  BY <1>2, SequenceIs, Zenon
<1> QED BY <1>1, <1>3

(* The first p entries of a sequence. *)
LEMMA PrefixIs ==
  ASSUME NEW q, IsSequence(q), NEW p \in 0 .. Len(q)
  PROVE  /\ IsSequence(SubSeq(q, 1, p)) /\ Len(SubSeq(q, 1, p)) = p
         /\ \A k \in 1 .. p : SubSeq(q, 1, p)[k] = q[k]
<1>1. q \in Seq(Range(q))
  BY DEF IsSequence
<1> DEFINE S == Range(q)
<1> HIDE DEF S
<1>2. q \in Seq(S)
  BY <1>1 DEF S
<1>3. SubSeq(q, 1, p) \in Seq(S)
  BY <1>2
<1>4. IsSequence(SubSeq(q, 1, p))
  BY <1>3, SequenceIs, Zenon
<1> QED BY <1>2, <1>4

LEMMA ReplaceIs ==
  ASSUME NEW q, IsSequence(q), NEW n \in 1 .. Len(q), NEW x
  PROVE  /\ IsSequence([q EXCEPT ![n] = x]) /\ Len([q EXCEPT ![n] = x]) = Len(q)
         /\ \A k \in 1 .. Len(q) : k # n => [q EXCEPT ![n] = x][k] = q[k]
         /\ [q EXCEPT ![n] = x][n] = x
<1> DEFINE S == Range(q) \cup {x}
<1>1. q \in Seq(S) /\ x \in S
  BY DEF IsSequence
<1> HIDE DEF S
<1>2. [q EXCEPT ![n] = x] \in Seq(S)
  BY <1>1
<1>3. IsSequence([q EXCEPT ![n] = x])
  BY <1>2, SequenceIs, Zenon
<1> QED BY <1>1, <1>3

(* A set of numbers has a least one. *)
LEMMA LeastOf ==
  ASSUME NEW T, T \subseteq Nat, T # {}
  PROVE  \E x \in T : \A y \in T : x <= y
<1>1. \E R : IsWellFoundedOn(R, Nat) /\ \A x, y \in Nat : x < y => <<x, y>> \in R
  <2>1. IsWellFoundedOn(OpToRel(<, Nat), Nat)
    BY NatLessThanWellFounded
  <2>2. \A x, y \in Nat : x < y => <<x, y>> \in OpToRel(<, Nat)
    BY DEF OpToRel
  <2> QED BY <2>1, <2>2
<1>2. PICK R : IsWellFoundedOn(R, Nat) /\ \A x, y \in Nat : x < y => <<x, y>> \in R
  BY <1>1
<1>3. IsWellFoundedOn(R, Nat)
  BY <1>2
<1>4. \E x \in T : \A y \in T : <<y, x>> \notin R
  BY <1>3, WFMin, Zenon
<1>5. PICK x \in T : \A y \in T : <<y, x>> \notin R
  BY <1>4
<1>6. ASSUME NEW y \in T PROVE x <= y
  <2>1. x \in Nat /\ y \in Nat
    OBVIOUS
  <2>2. ~(y < x)
    BY <1>2, <1>5, <2>1
  <2> QED BY <2>1, <2>2
<1> QED BY <1>6

-----------------------------------------------------------------------------
(* The invariant                                                            *)

(* What follows what on the C stack: the library's loops wait for the        *)
(* functions they call, and for nothing else.                                *)
Above(f, a) ==
  /\ f.k \in {"unwind", "cleanup"} => a.k = "action_body"
  /\ f.k = "send" => a.k \in {"handler_body", "catchall", "unwind"}
  /\ f.k = "catchall" => \/ f.stage = "report" /\ a.k = "send"
                         \/ f.stage = "cleaned" /\ a.k = "cleanup"
  /\ a.k = "handler_body" => f.k = "send"
  /\ a.k = "catchall" => f.k = "send"
  /\ a.k = "cleanup" => f.k = "main" \/ (f.k = "catchall" /\ f.stage = "cleaned")

(* What a step changes in a frame is there to be changed. *)
HasFields(f) ==
  /\ "k" \in DOMAIN f
  /\ f.k = "unwind" => {"i", "p"} \subseteq DOMAIN f
  /\ f.k = "catchall" => "stage" \in DOMAIN f
  /\ f.k = "point" => {"mode", "returned", "to", "id"} \subseteq DOMAIN f
  /\ f.k = "send" => {"i", "data", "called"} \subseteq DOMAIN f

Shape(st) ==
  /\ IsSequence(st) /\ Len(st) >= 1
  /\ \A k \in 1 .. Len(st) : HasFields(st[k])
  /\ \A k \in 1 .. Len(st) : st[k].k = "main" <=> k = 1
  /\ \A k \in 1 .. Len(st) - 1 : Above(st[k], st[k + 1])

(* The last unwind_cleanup takes entries off the unwind stack that belong to *)
(* scopes below it; after it, the catch-all handler is about to exit.        *)
Sinks(f, top, ref) ==
  ref = 0 /\ (f.k = "cleanup" \/ (f.k = "catchall" /\ f.stage = "cleaned" /\ top))

(* A frame f leaves hi of the lo entries below it, or adds its own.          *)
Level(f, lo, hi, top, ref) ==
  /\ HasEntry(f) => hi = lo + 1
  /\ f.k = "unwind" => hi = f.i /\ hi <= lo
  /\ Sinks(f, top, ref) => hi <= lo
  /\ ~HasEntry(f) /\ f.k # "unwind" /\ ~Sinks(f, top, ref) => hi = lo
  /\ f.k = "cleanup" /\ ~top => ref = 0

(* g[k]: how many entries of the unwind stack the lowest k frames of the C   *)
(* stack st account for.  The points know that of the frames below them, the *)
(* functions called by the loops that of the loop.                           *)
Heights(st, ref, g) ==
  /\ g \in [0 .. Len(st) -> Nat] /\ g[0] = 0
  /\ \A k \in 1 .. Len(st) : Level(st[k], g[k - 1], g[k], k = Len(st), ref)
  /\ \A k \in 1 .. Len(st) : st[k].k = "point" => st[k].to = g[k - 1]

Bases(st, g) ==
  \A k \in 1 .. Len(st) - 1 :
    /\ st[k].k = "unwind" => st[k + 1].base = g[k]
    /\ st[k].k = "cleanup" => st[k + 1].base \in Nat /\ st[k + 1].base + 1 = g[k]

(* No frame above the k-th has given up the k-th one's entry.                *)
Stays(st, g, k) == \A j \in k .. Len(st) : g[j] >= g[k]

Entries(st, g, mem) ==
  \A k \in 1 .. Len(st) : HasEntry(st[k]) /\ Stays(st, g, k) => mem[g[k]] = EntryOf(st[k])

(* An _unwind goes to a point below it, and nothing between the two has given *)
(* up an entry below that point.                                             *)
Targets(st, g) ==
  \A u \in 1 .. Len(st) : st[u].k = "unwind" =>
    /\ st[u].p \in 1 .. u - 1 /\ st[st[u].p].k = "point"
    /\ \A j \in st[u].p .. u : g[j] >= st[st[u].p].to

Provides(f, e) == f.k = "point" /\ f.mode # "plain" /\ ~f.returned /\ f.id = e.id

RestartsHold(st, g, rs) ==
  \A i \in 1 .. rs.fill :
    /\ rs.mem[i].p \in 1 .. Len(st)
    /\ Provides(st[rs.mem[i].p], rs.mem[i])
    /\ Stays(st, g, rs.mem[i].p)

(* The unwind stack keeps no slot above the top: unlike those of the signal  *)
(* stacks, nobody looks at them again.                                       *)
UnwindOK(st) ==
  /\ {"mem", "fill", "alloc"} \subseteq DOMAIN st
  /\ IsSequence(st.mem) /\ st.fill = Len(st.mem)
  /\ st.alloc \in Nat \ {0} /\ st.fill <= st.alloc

Match(g) ==
  /\ Heights(stack, unwind_init_ref, g)
  /\ g[Len(stack)] = unwind_stack.fill
  /\ Bases(stack, g)
  /\ Entries(stack, g, unwind_stack.mem)
  /\ Targets(stack, g)
  /\ sig_stacks = "live" => RestartsHold(stack, g, sig_restart_stack)

ScopesInv ==
  /\ Shape(stack)
  /\ UnwindOK(unwind_stack)
  /\ unwind_init_ref \in Nat
  /\ SigStacksOK
  /\ sig_stacks = "live" => \A k \in 1 .. Len(stack) : stack[k].k # "cleanup"
  /\ \E g : Match(g)

-----------------------------------------------------------------------------
(* A step keeps the lowest m frames of st and puts new ones above them       *)

Rebuilt(st, ref, g, new, ref2, h, m) ==
  /\ m \in 0 .. Len(st) /\ m <= Len(new)
  /\ ref = 0 => ref2 = 0
  /\ h \in [0 .. Len(new) -> Nat]
  /\ \A k \in 1 .. m : new[k] = st[k]
  /\ \A k \in 0 .. m : h[k] = g[k]
  /\ m > 0 => Level(new[m], h[m - 1], h[m], m = Len(new), ref2)
  /\ \A k \in m + 1 .. Len(new) :
       /\ Level(new[k], h[k - 1], h[k], k = Len(new), ref2)
       /\ new[k].k = "point" => new[k].to = h[k - 1]
  /\ \E l \in m .. Len(new) : \A j \in m + 1 .. Len(st) : g[j] >= h[l]

LEMMA HeightsCarry ==
  ASSUME NEW st, NEW ref, NEW g, NEW new, NEW ref2, NEW h, NEW m,
         Len(st) \in Nat, Len(new) \in Nat,
         Heights(st, ref, g), Rebuilt(st, ref, g, new, ref2, h, m)
  PROVE  Heights(new, ref2, h)
<1> DEFINE n == Len(st)
           l == Len(new)
<1>1. /\ n \in Nat /\ l \in Nat /\ m \in 0 .. n /\ m <= l
      /\ g[0] = 0 /\ h \in [0 .. l -> Nat]
      /\ \A k \in 1 .. m : new[k] = st[k]
      /\ \A k \in 0 .. m : h[k] = g[k]
      /\ \A k \in m + 1 .. l : Level(new[k], h[k - 1], h[k], k = l, ref2)
      /\ \A k \in m + 1 .. l : new[k].k = "point" => new[k].to = h[k - 1]
      /\ m > 0 => Level(new[m], h[m - 1], h[m], m = l, ref2)
      /\ \A k \in 1 .. n : Level(st[k], g[k - 1], g[k], k = n, ref)
      /\ \A k \in 1 .. n : st[k].k = "point" => st[k].to = g[k - 1]
  BY DEF Heights, Rebuilt
<1>2. ASSUME NEW k \in 1 .. l
      PROVE  Level(new[k], h[k - 1], h[k], k = l, ref2)
  <2> HIDE DEF n, l
  <2>1. CASE k \in m + 1 .. l
    BY <1>1, <2>1
  <2>2. CASE k = m
    BY <1>1, <2>2
  <2>3. CASE k < m
    <3>1. k \in 1 .. n /\ k # n /\ k # l /\ k \in 1 .. m /\ k - 1 \in 0 .. m
      BY <1>1, <2>3
    <3>2. Level(st[k], g[k - 1], g[k], FALSE, ref)
      BY <1>1, <3>1
    <3>3. new[k] = st[k] /\ h[k - 1] = g[k - 1] /\ h[k] = g[k] /\ h[k] \in Nat /\ h[k - 1] \in Nat
      BY <1>1, <3>1
    <3>4. ref = 0 => ref2 = 0
      BY DEF Rebuilt
    <3>5. Level(new[k], h[k - 1], h[k], FALSE, ref2)
      BY <3>2, <3>3, <3>4 DEF Level, Sinks, HasEntry
    <3> QED BY <3>1, <3>5
  <2> QED BY <1>1, <2>1, <2>2, <2>3
<1>3. \A k \in 1 .. l : new[k].k = "point" => new[k].to = h[k - 1]
  <2> HIDE DEF n, l
  <2> SUFFICES ASSUME NEW k \in 1 .. l, k <= m PROVE new[k].k = "point" => new[k].to = h[k - 1]
    BY <1>1
  <2>1. k \in 1 .. n /\ k \in 1 .. m /\ k - 1 \in 0 .. m
    BY <1>1
  <2> QED BY <1>1, <2>1
<1> QED BY <1>1, <1>2, <1>3 DEF Heights

(* What stays in the new stack stayed in the old one.                        *)
LEMMA StaysCarry ==
  ASSUME NEW st, NEW ref, NEW g, NEW new, NEW ref2, NEW h, NEW m,
         Len(st) \in Nat, Len(new) \in Nat,
         Heights(st, ref, g), Rebuilt(st, ref, g, new, ref2, h, m),
         NEW k \in 1 .. m, Stays(new, h, k)
  PROVE  Stays(st, g, k) /\ h[k] = g[k] /\ g[k] <= h[Len(new)] /\ g[k] <= g[Len(st)] /\ g[k] \in Nat
<1> DEFINE n == Len(st)
           l == Len(new)
<1>1. /\ n \in Nat /\ l \in Nat /\ m \in 0 .. n /\ m <= l
      /\ g \in [0 .. n -> Nat] /\ h \in [0 .. l -> Nat]
      /\ \A j \in 0 .. m : h[j] = g[j]
      /\ \A j \in k .. l : h[j] >= h[k]
      /\ \E i \in m .. l : \A j \in m + 1 .. n : g[j] >= h[i]
  BY DEF Heights, Rebuilt, Stays
<1> HIDE DEF n, l
<1>2. ASSUME NEW j \in k .. n PROVE g[j] >= g[k]
  <2>1. CASE j <= m
    <3>1. j \in 0 .. m /\ k \in 0 .. m /\ j \in k .. l
      BY <1>1, <2>1
    <3>2. h[j] = g[j] /\ h[k] = g[k] /\ h[j] >= h[k]
      BY <1>1, <3>1
    <3> QED BY <3>2
  <2>2. CASE j > m
    <3>1. PICK i \in m .. l : \A x \in m + 1 .. n : g[x] >= h[i]
      BY <1>1
    <3>2. j \in m + 1 .. n /\ i \in k .. l /\ k \in 0 .. m /\ i \in 0 .. l /\ j \in 0 .. n /\ k \in 0 .. n
      BY <1>1, <2>2
    <3>3. g[j] >= h[i] /\ h[i] >= h[k] /\ h[k] = g[k]
      BY <1>1, <3>1, <3>2
    <3>4. g[j] \in Nat /\ h[i] \in Nat /\ g[k] \in Nat
      BY <1>1, <3>2
    <3> QED BY <3>3, <3>4
  <2> QED BY <1>1, <2>1, <2>2
<1>3. k \in 0 .. m /\ l \in k .. l /\ n \in k .. n /\ k \in 0 .. n
  BY <1>1
<1>4. h[k] = g[k] /\ h[l] >= h[k] /\ g[n] >= g[k] /\ g[k] \in Nat /\ h[l] \in Nat /\ g[n] \in Nat
  BY <1>1, <1>2, <1>3
<1>5. Stays(st, g, k)
  BY <1>2 DEF Stays, n
<1> QED BY <1>4, <1>5 DEF n, l

(* The other way round, for what has an entry of its own.                    *)
LEMMA EntriesCarry ==
  ASSUME NEW st, NEW ref, NEW g, NEW new, NEW ref2, NEW h, NEW m, NEW mem, NEW mem2,
         Len(st) \in Nat, Len(new) \in Nat,
         Heights(st, ref, g), Rebuilt(st, ref, g, new, ref2, h, m),
         Entries(st, g, mem),
         \A x \in Nat : 1 <= x /\ x <= g[Len(st)] /\ x <= h[Len(new)] => mem2[x] = mem[x],
         \A k \in m + 1 .. Len(new) :
           HasEntry(new[k]) /\ Stays(new, h, k) => mem2[h[k]] = EntryOf(new[k])
  PROVE  Entries(new, h, mem2)
<1> SUFFICES ASSUME NEW k \in 1 .. Len(new), HasEntry(new[k]), Stays(new, h, k)
             PROVE  mem2[h[k]] = EntryOf(new[k])
  BY DEF Entries
<1>0. m \in 0 .. Len(st) /\ m <= Len(new)
  BY DEF Rebuilt
<1>1. CASE k > m
  BY <1>0, <1>1
<1>2. CASE k <= m
  <2>1. k \in 1 .. m /\ k \in 1 .. Len(st)
    BY <1>0, <1>2
  <2>2. Stays(st, g, k) /\ h[k] = g[k] /\ g[k] <= h[Len(new)] /\ g[k] <= g[Len(st)] /\ g[k] \in Nat
    BY <2>1, StaysCarry
  <2>3. new[k] = st[k]
    BY <2>1 DEF Rebuilt
  <2>4. mem[g[k]] = EntryOf(st[k])
    BY <2>1, <2>2, <2>3 DEF Entries
  <2>5. 1 <= g[k]
    <3>1. Level(st[k], g[k - 1], g[k], k = Len(st), ref) /\ HasEntry(st[k])
      BY <2>1, <2>3 DEF Heights
    <3>2. g[k - 1] \in Nat /\ g[k] \in Nat
      <4>1. k - 1 \in 0 .. Len(st) /\ k \in 0 .. Len(st)
        BY <2>1
      <4> QED BY <4>1 DEF Heights
    <3>3. g[k] = g[k - 1] + 1
      BY <3>1 DEF Level
    <3> QED BY <3>2, <3>3
  <2> QED BY <2>2, <2>3, <2>4, <2>5
<1> QED BY <1>0, <1>1, <1>2

(* The new frames follow each other as they may.                             *)
Based(f, a, hi) ==
  /\ f.k = "unwind" => a.base = hi
  /\ f.k = "cleanup" => a.base \in Nat /\ a.base + 1 = hi

Aimed(new, h, u) ==
  new[u].k = "unwind" =>
    /\ new[u].p \in 1 .. u - 1 /\ new[new[u].p].k = "point"
    /\ \A j \in new[u].p .. u : h[j] >= new[new[u].p].to

Fits(new, h, m) ==
  /\ IsSequence(new) /\ Len(new) >= 1
  /\ \A k \in m + 1 .. Len(new) :
       (new[k].k = "main" <=> k = 1) /\ HasFields(new[k]) /\ Aimed(new, h, k)
  /\ \A k \in m .. Len(new) - 1 :
       k > 0 => Above(new[k], new[k + 1]) /\ Based(new[k], new[k + 1], h[k])

LEMMA LengthIs ==
  ASSUME NEW st, IsSequence(st)
  PROVE  Len(st) \in Nat
BY DEF IsSequence

LEMMA ShapeCarry ==
  ASSUME NEW st, NEW ref, NEW g, NEW new, NEW ref2, NEW h, NEW m,
         Shape(st), Heights(st, ref, g), Bases(st, g), Targets(st, g),
         Rebuilt(st, ref, g, new, ref2, h, m), Fits(new, h, m)
  PROVE  Shape(new) /\ Bases(new, h) /\ Targets(new, h)
<1> DEFINE n == Len(st)
           l == Len(new)
<1>1. /\ n \in Nat /\ l \in Nat /\ m \in 0 .. n /\ m <= l /\ l >= 1 /\ IsSequence(new)
      /\ \A k \in 1 .. m : new[k] = st[k]
      /\ \A k \in 0 .. m : h[k] = g[k]
  BY LengthIs DEF Shape, Rebuilt, Fits
<1>2. \A k \in 1 .. l : (new[k].k = "main" <=> k = 1) /\ HasFields(new[k])
  <2>1. \A k \in m + 1 .. l : (new[k].k = "main" <=> k = 1) /\ HasFields(new[k])
    BY DEF Fits
  <2>2. \A k \in 1 .. m : (new[k].k = "main" <=> k = 1) /\ HasFields(new[k])
    BY <1>1 DEF Shape
  <2> HIDE DEF n, l
  <2> QED BY <1>1, <2>1, <2>2
<1>3. ASSUME NEW k \in 1 .. l - 1
      PROVE  Above(new[k], new[k + 1]) /\ Based(new[k], new[k + 1], h[k])
  <2>1. CASE k >= m
    <3>1. k \in m .. l - 1 /\ k > 0
      BY <1>1, <2>1
    <3> QED BY <3>1 DEF Fits
  <2>2. CASE k < m
    <3> HIDE DEF n, l
    <3>1. k \in 1 .. n - 1 /\ k \in 1 .. m /\ k + 1 \in 1 .. m /\ k \in 0 .. m
      BY <1>1, <2>2
    <3>2. new[k] = st[k] /\ new[k + 1] = st[k + 1] /\ h[k] = g[k]
      BY <1>1, <3>1
    <3>3. Above(st[k], st[k + 1]) /\ Based(st[k], st[k + 1], g[k])
      BY <3>1 DEF n, Shape, Bases, Based
    <3> QED BY <3>2, <3>3
  <2> QED BY <1>1, <2>1, <2>2
<1>4. ASSUME NEW u \in 1 .. l PROVE Aimed(new, h, u)
  <2>1. CASE u > m
    <3>1. u \in m + 1 .. l
      BY <1>1, <2>1
    <3> QED BY <3>1 DEF Fits
  <2>2. CASE u <= m
    <3> HIDE DEF n, l
    <3> SUFFICES ASSUME new[u].k = "unwind"
                 PROVE  /\ new[u].p \in 1 .. u - 1 /\ new[new[u].p].k = "point"
                        /\ \A j \in new[u].p .. u : h[j] >= new[new[u].p].to
      BY DEF Aimed
    <3>1. u \in 1 .. n /\ new[u] = st[u]
      BY <1>1, <2>2
    <3>2. /\ st[u].p \in 1 .. u - 1 /\ st[st[u].p].k = "point"
          /\ \A j \in st[u].p .. u : g[j] >= st[st[u].p].to
      BY <3>1 DEF Targets, n
    <3>3. st[u].p \in 1 .. m
      BY <1>1, <2>2, <3>2
    <3>4. new[st[u].p] = st[st[u].p]
      BY <1>1, <3>3
    <3>5. \A j \in st[u].p .. u : h[j] = g[j]
      BY <1>1, <2>2, <3>3
    <3> QED BY <3>1, <3>2, <3>4, <3>5
  <2> QED BY <1>1, <2>1, <2>2
<1>5. Shape(new)
  BY <1>1, <1>2, <1>3 DEF Shape
<1>6. Bases(new, h)
  BY <1>3 DEF Bases, Based
<1>7. Targets(new, h)
  BY <1>4 DEF Targets, Aimed
<1> QED BY <1>5, <1>6, <1>7

(* The restarts that remain are those of frames whose entries remain.        *)
Remains(st, g, new, h, m, e) ==
  /\ e.p \in 1 .. m
  /\ \A j \in m + 1 .. Len(new) : h[j] >= g[e.p]

LEMMA RestartCarry ==
  ASSUME NEW st, NEW ref, NEW g, NEW new, NEW ref2, NEW h, NEW m, NEW e,
         Len(st) \in Nat, Len(new) \in Nat, 
         Heights(st, ref, g), Rebuilt(st, ref, g, new, ref2, h, m),
         Provides(st[e.p], e), Stays(st, g, e.p), Remains(st, g, new, h, m, e)
  PROVE  e.p \in 1 .. Len(new) /\ Provides(new[e.p], e) /\ Stays(new, h, e.p)
<1> DEFINE n == Len(st)
           l == Len(new)
           p == e.p
<1>1. /\ n \in Nat /\ l \in Nat /\ m \in 0 .. n /\ m <= l /\ p \in 1 .. m
      /\ \A k \in 1 .. m : new[k] = st[k]
      /\ \A k \in 0 .. m : h[k] = g[k]
      /\ \A j \in m + 1 .. l : h[j] >= g[p]
      /\ \A j \in p .. n : g[j] >= g[p]
  BY DEF Rebuilt, Remains, Stays
<1>2. Provides(new[p], e)
  BY <1>1
<1>3. p \in 1 .. l /\ \A j \in p .. l : h[j] >= h[p]
  <2> HIDE DEF n, l, p
  <2>1. p \in 1 .. l /\ p \in 0 .. m
    BY <1>1
  <2>2. ASSUME NEW j \in p .. l PROVE h[j] >= h[p]
    <3>1. h[p] = g[p]
      BY <1>1, <2>1
    <3>2. CASE j <= m
      <4>1. j \in 0 .. m /\ j \in p .. n
        BY <1>1, <3>2
      <4>2. h[j] = g[j] /\ g[j] >= g[p]
        BY <1>1, <4>1
      <4> QED BY <3>1, <4>2
    <3>3. CASE j > m
      <4>1. j \in m + 1 .. l
        BY <1>1, <3>3
      <4> QED BY <1>1, <3>1, <4>1
    <3> QED BY <1>1, <3>2, <3>3
  <2> QED BY <2>1, <2>2
<1> QED BY <1>2, <1>3 DEF Stays

-----------------------------------------------------------------------------
(* Pushing on the unwind stack and taking its top entry off                 *)

LEMMA PushUnwind ==
  ASSUME NEW st, UnwindOK(st), NEW e
  PROVE  /\ UnwindOK(Push(st, e)) /\ Push(st, e).fill = st.fill + 1 /\ st.fill \in Nat
         /\ \A x \in 1 .. st.fill : Push(st, e).mem[x] = st.mem[x]
         /\ Push(st, e).mem[st.fill + 1] = e
<1> DEFINE q == st.mem
           r == [i \in DOMAIN q \cup {st.fill + 1} |-> IF i = st.fill + 1 THEN e ELSE q[i]]
           S == Range(q) \cup {e}
<1>1. q \in Seq(Range(q)) /\ st.fill = Len(q) /\ st.alloc \in Nat \ {0} /\ st.fill <= st.alloc
  BY DEF UnwindOK, IsSequence
<1>2. DOMAIN q = 1 .. Len(q) /\ Len(q) \in Nat /\ \A i \in 1 .. Len(q) : q[i] \in Range(q)
  BY <1>1
<1>3. r \in [1 .. Len(q) + 1 -> S]
  BY <1>1, <1>2
<1>4. r \in Seq(S) /\ Len(r) = Len(q) + 1
  <2> DEFINE n == Len(q) + 1
  <2>1. n \in Nat /\ r \in [1 .. n -> S]
    BY <1>2, <1>3
  <2> HIDE DEF n, r, S
  <2>2. r \in Seq(S) /\ Len(r) = n
    BY <2>1
  <2> QED BY <2>2 DEF n
<1>5. Push(st, e) = [mem |-> r, fill |-> st.fill + 1, alloc |-> Grown(st)]
  BY DEF Push
<1>6. IsSequence(r)
  BY <1>4, SequenceIs, Zenon
<1>7. Grown(st) \in Nat \ {0} /\ st.fill + 1 <= Grown(st)
  <2> DEFINE n == st.fill
             a == st.alloc
  <2>1. n \in Nat /\ a \in Nat \ {0} /\ n <= a /\ Grown(st) = IF n + 1 > a THEN 2 * a ELSE a
    BY <1>1, <1>2 DEF Grown
  <2> HIDE DEF n, a
  <2>2. Grown(st) \in Nat \ {0} /\ n + 1 <= Grown(st)
    BY <2>1
  <2> QED BY <2>2 DEF n
<1> HIDE DEF r
<1>8. UnwindOK(Push(st, e)) /\ Push(st, e).fill = st.fill + 1
  BY <1>1, <1>4, <1>5, <1>6, <1>7 DEF UnwindOK
<1>9. Push(st, e).mem = r
  BY <1>5
<1> QED BY <1>1, <1>2, <1>8, <1>9 DEF r

LEMMA PopUnwind ==
  ASSUME NEW st, UnwindOK(st), st.fill > 0
  PROVE  /\ UnwindOK(Pop(st)) /\ Pop(st).fill = st.fill - 1 /\ st.fill \in Nat
         /\ \A x \in 1 .. st.fill - 1 : Pop(st).mem[x] = st.mem[x]
<1> DEFINE n == st.fill
           q == st.mem
           r == SubSeq(q, 1, n - 1)
<1>1. /\ IsSequence(q) /\ n = Len(q) /\ n \in Nat /\ n > 0
      /\ st.alloc \in Nat \ {0} /\ n <= st.alloc
      /\ {"mem", "fill", "alloc"} \subseteq DOMAIN st
  BY LengthIs DEF UnwindOK
<1>2. n - 1 \in 0 .. Len(q)
  BY <1>1
<1>3. IsSequence(r) /\ Len(r) = n - 1 /\ \A k \in 1 .. n - 1 : r[k] = q[k]
  BY <1>1, <1>2, PrefixIs
<1>4. Pop(st) = [st EXCEPT !.mem = r, !.fill = n - 1]
  BY DEF Pop
<1> HIDE DEF r, n, q
<1>5. /\ Pop(st).mem = r /\ Pop(st).fill = n - 1 /\ Pop(st).alloc = st.alloc
      /\ DOMAIN Pop(st) = DOMAIN st
  BY <1>1, <1>4
<1>6. n - 1 <= st.alloc
  BY <1>1
<1>7. UnwindOK(Pop(st))
  BY <1>1, <1>3, <1>5, <1>6 DEF UnwindOK
<1> QED BY <1>1, <1>3, <1>5, <1>7 DEF n, q

LEMMA UnwindWithinAlloc ==
  ASSUME NEW st, UnwindOK(st)
  PROVE  WithinAlloc(st)
<1>1. st.mem \in Seq(Range(st.mem)) /\ st.fill = Len(st.mem) /\ st.alloc \in Nat /\ st.fill <= st.alloc
  BY DEF UnwindOK, IsSequence
<1>2. st.fill \in Nat /\ DOMAIN st.mem = 1 .. st.fill
  BY <1>1
<1> QED BY <1>1, <1>2 DEF WithinAlloc

-----------------------------------------------------------------------------
(* What a step has to show                                                  *)

LEMMA Carried ==
  ASSUME ScopesInv, NEW g, Match(g), NEW h, NEW m,
         Rebuilt(stack, unwind_init_ref, g, stack', unwind_init_ref', h, m),
         Fits(stack', h, m),
         SigStacksOK', UnwindOK(unwind_stack'), unwind_init_ref' \in Nat,
         h[Len(stack')] = unwind_stack'.fill,
         \A x \in 1 .. unwind_stack.fill :
           x <= unwind_stack'.fill => unwind_stack'.mem[x] = unwind_stack.mem[x],
         \A k \in m + 1 .. Len(stack') :
           HasEntry(stack'[k]) /\ Stays(stack', h, k) =>
             unwind_stack'.mem[h[k]] = EntryOf(stack'[k]),
         sig_stacks' = "live" =>
           /\ sig_stacks = "live"
           /\ \A k \in m + 1 .. Len(stack') : stack'[k].k # "cleanup"
           /\ RestartsHold(stack', h, sig_restart_stack')
  PROVE  ScopesInv'
<1>1. Len(stack) \in Nat /\ Len(stack') \in Nat
  BY LengthIs DEF ScopesInv, Shape, Fits
<1>2. Heights(stack', unwind_init_ref', h)
  BY <1>1, HeightsCarry DEF Match
<1>3. Shape(stack') /\ Bases(stack', h) /\ Targets(stack', h)
  BY ShapeCarry DEF Match, ScopesInv
<1>4. \A x \in Nat : 1 <= x /\ x <= g[Len(stack)] /\ x <= h[Len(stack')] =>
        unwind_stack'.mem[x] = unwind_stack.mem[x]
  <2>1. unwind_stack.fill \in Nat
    BY LengthIs DEF ScopesInv, UnwindOK
  <2> QED BY <2>1 DEF Match
<1>5. Entries(stack', h, unwind_stack'.mem)
  BY <1>1, <1>4, EntriesCarry DEF Match
<1>6. Match(h)'
  BY <1>2, <1>3, <1>5 DEF Match
<1>7. sig_stacks' = "live" => \A k \in 1 .. Len(stack') : stack'[k].k # "cleanup"
  <2> SUFFICES ASSUME sig_stacks' = "live", NEW k \in 1 .. Len(stack') PROVE stack'[k].k # "cleanup"
    OBVIOUS
  <2>1. CASE k <= m
    <3>1. k \in 1 .. m /\ k \in 1 .. Len(stack)
      BY <1>1, <2>1 DEF Rebuilt
    <3> QED BY <3>1 DEF ScopesInv, Rebuilt
  <2>2. CASE k > m
    BY <1>1, <2>2 DEF Rebuilt
  <2> QED BY <1>1, <2>1, <2>2 DEF Rebuilt
<1> QED BY <1>3, <1>6, <1>7 DEF ScopesInv

(* A step leaves the lowest m frames and puts at most two above them, which  *)
(* account for a and b entries.                                              *)
Replaces(st, ref, g, new, ref2, m, a, b) ==
  /\ Len(st) \in Nat /\ Len(new) \in Nat /\ Heights(st, ref, g)
  /\ m \in 0 .. Len(st) /\ Len(new) \in {m, m + 1, m + 2}
  /\ a \in Nat /\ b \in Nat
  /\ ref = 0 => ref2 = 0
  /\ \A k \in 1 .. m : new[k] = st[k]
  /\ m > 0 => Level(new[m], g[m - 1], g[m], m = Len(new), ref2)
  /\ Len(new) > m => /\ Level(new[m + 1], g[m], a, m + 1 = Len(new), ref2)
                     /\ new[m + 1].k = "point" => new[m + 1].to = g[m]
  /\ Len(new) = m + 2 => /\ Level(new[m + 2], a, b, TRUE, ref2)
                         /\ new[m + 2].k = "point" => new[m + 2].to = a
  /\ \/ \A j \in m + 1 .. Len(st) : g[j] >= g[m]
     \/ Len(new) > m /\ \A j \in m + 1 .. Len(st) : g[j] >= a
     \/ Len(new) = m + 2 /\ \A j \in m + 1 .. Len(st) : g[j] >= b

Replaced(st, ref, g, new, ref2, m, a, b) ==
  \E h : /\ Rebuilt(st, ref, g, new, ref2, h, m)
         /\ \A k \in 0 .. m : h[k] = g[k]
         /\ Len(new) > m => h[m + 1] = a
         /\ Len(new) = m + 2 => h[m + 2] = b

LEMMA NewHeights ==
  ASSUME NEW st, NEW ref, NEW g, NEW new, NEW ref2, NEW m, NEW a, NEW b,
         Replaces(st, ref, g, new, ref2, m, a, b)
  PROVE  Replaced(st, ref, g, new, ref2, m, a, b)
<1> USE DEF Replaces
<1> DEFINE n == Len(st)
           l == Len(new)
<1>1. PICK h : h = [k \in 0 .. l |-> IF k <= m THEN g[k] ELSE IF k = m + 1 THEN a ELSE b]
  OBVIOUS
<1>2. g \in [0 .. n -> Nat] /\ n \in Nat /\ l \in Nat /\ m \in 0 .. n /\ l \in {m, m + 1, m + 2}
  BY DEF Heights
<1>3. h \in [0 .. l -> Nat] /\ \A k \in 0 .. m : h[k] = g[k]
  <2> HIDE DEF Replaces, n, l
  <2>1. \A k \in 0 .. m : k \in 0 .. l /\ k \in 0 .. n /\ k <= m
    BY <1>2
  <2>2. a \in Nat /\ b \in Nat
    BY DEF Replaces
  <2>3. \A k \in 0 .. l : k <= m => k \in 0 .. n
    BY <1>2
  <2>4. \A k \in 0 .. l : (IF k <= m THEN g[k] ELSE IF k = m + 1 THEN a ELSE b) \in Nat
    BY <1>2, <2>2, <2>3
  <2>5. h \in [0 .. l -> Nat]
    BY <1>1, <2>4
  <2> QED BY <1>1, <2>1, <2>5
<1>4. (l > m => h[m + 1] = a) /\ (l = m + 2 => h[m + 2] = b)
  <2> HIDE DEF Replaces, n, l
  <2> QED BY <1>1, <1>2
<1>5. m > 0 => Level(new[m], h[m - 1], h[m], m = l, ref2)
  <2>1. m > 0 => m - 1 \in 0 .. m /\ m \in 0 .. m
    <3> HIDE DEF Replaces, n, l
    <3> QED BY <1>2
  <2> QED BY <1>3, <2>1
<1>6. ASSUME NEW k \in m + 1 .. l
      PROVE  /\ Level(new[k], h[k - 1], h[k], k = l, ref2)
             /\ new[k].k = "point" => new[k].to = h[k - 1]
  <2>1. CASE k = m + 1
    <3>1. l > m /\ k - 1 = m /\ m \in 0 .. m
      <4> HIDE DEF Replaces, n, l
      <4> QED BY <1>2, <2>1
    <3> QED BY <1>3, <1>4, <2>1, <3>1
  <2>2. CASE k = m + 2
    <3>1. l = m + 2 /\ l > m /\ k - 1 = m + 1
      <4> HIDE DEF Replaces, n, l
      <4> QED BY <1>2, <2>2
    <3>2. (k = l) = TRUE
      BY <2>2, <3>1
    <3> QED BY <1>4, <2>2, <3>1, <3>2
  <2> QED BY <1>2, <2>1, <2>2
<1>7. \E i \in m .. l : \A j \in m + 1 .. n : g[j] >= h[i]
  <2>1. CASE \A j \in m + 1 .. n : g[j] >= g[m]
    <3>1. m \in m .. l /\ h[m] = g[m]
      <4> HIDE DEF Replaces, n, l
      <4> QED BY <1>2, <1>3
    <3> QED BY <2>1, <3>1
  <2>2. CASE l > m /\ \A j \in m + 1 .. n : g[j] >= a
    <3>1. m + 1 \in m .. l /\ h[m + 1] = a
      <4> HIDE DEF Replaces, n, l
      <4> QED BY <1>2, <1>4, <2>2
    <3> QED BY <2>2, <3>1
  <2>3. CASE l = m + 2 /\ \A j \in m + 1 .. n : g[j] >= b
    <3>1. m + 2 \in m .. l /\ h[m + 2] = b
      <4> HIDE DEF Replaces, n, l
      <4> QED BY <1>2, <1>4, <2>3
    <3> QED BY <2>3, <3>1
  <2> QED BY <2>1, <2>2, <2>3
<1>8. m <= l
  BY <1>2
<1>9. Rebuilt(st, ref, g, new, ref2, h, m)
  BY <1>3, <1>5, <1>6, <1>7, <1>8 DEF Rebuilt
<1> QED BY <1>3, <1>4, <1>9 DEF Replaced

-----------------------------------------------------------------------------
(* The frame on top                                                         *)

LEMMA TopIs ==
  ASSUME ScopesInv, NEW g, Match(g)
  PROVE  /\ IsSequence(stack) /\ Len(stack) \in Nat \ {0}
         /\ g \in [0 .. Len(stack) -> Nat]
         /\ g[Len(stack)] = unwind_stack.fill /\ unwind_stack.fill \in Nat
         /\ g[Len(stack) - 1] \in Nat
         /\ Level(Top, g[Len(stack) - 1], unwind_stack.fill, TRUE, unwind_init_ref)
         /\ Top.k = "point" => Top.to = g[Len(stack) - 1]
         /\ HasEntry(Top) => /\ unwind_stack.fill = g[Len(stack) - 1] + 1
                             /\ unwind_stack.mem[unwind_stack.fill] = EntryOf(Top)
<1> DEFINE n == Len(stack)
<1>1. IsSequence(stack) /\ n \in Nat /\ n >= 1
  BY LengthIs DEF ScopesInv, Shape
<1>2. g \in [0 .. n -> Nat] /\ g[n] = unwind_stack.fill
  BY DEF Match, Heights
<1>3. n \in 1 .. n /\ n - 1 \in 0 .. n /\ n \in 0 .. n /\ n \in Nat \ {0}
  BY <1>1
<1>4. Level(stack[n], g[n - 1], g[n], n = Len(stack), unwind_init_ref)
      /\ (stack[n].k = "point" => stack[n].to = g[n - 1])
  BY <1>3 DEF Match, Heights
<1>5. Level(Top, g[n - 1], unwind_stack.fill, TRUE, unwind_init_ref)
  <2>1. (n = Len(stack)) = TRUE
    OBVIOUS
  <2> QED BY <1>2, <1>4, <2>1 DEF Top
<1>6. ASSUME HasEntry(Top)
      PROVE  /\ unwind_stack.fill = g[n - 1] + 1
             /\ unwind_stack.mem[unwind_stack.fill] = EntryOf(Top)
  <2>1. Stays(stack, g, n)
    <3>1. \A j \in n .. n : j = n /\ g[j] \in Nat
      BY <1>2, <1>3
    <3> QED BY <3>1 DEF Stays
  <2> QED BY <1>2, <1>3, <1>5, <1>6, <2>1 DEF Level, Match, Entries, Top
<1> QED BY <1>1, <1>2, <1>3, <1>4, <1>5, <1>6 DEF Top

-----------------------------------------------------------------------------
(* Forms of steps                                                           *)

LEMMA LevelOf ==
  ASSUME NEW f, NEW lo \in Nat, NEW hi, NEW ref,
         HasEntry(f) => hi = lo + 1, ~HasEntry(f) => hi = lo, f.k = "unwind" => f.i = lo
  PROVE  Level(f, lo, hi, TRUE, ref)
BY DEF Level, HasEntry, Sinks

(* A frame is pushed, with its entry if it has one.                          *)
LEMMA Pushes ==
  ASSUME ScopesInv, SigStacksOK', NEW f, stack' = Append(stack, f),
         f.k # "main", HasFields(f), Above(Top, f), Top.k \notin {"unwind", "cleanup"},
         Top.k = "catchall" => Top.stage = "report",
         unwind_init_ref' \in Nat, unwind_init_ref = 0 => unwind_init_ref' = 0,
         HasEntry(f) => unwind_stack' = Push(unwind_stack, EntryOf(f)),
         ~HasEntry(f) => unwind_stack' = unwind_stack,
         f.k = "point" => f.to = unwind_stack.fill,
         f.k = "unwind" =>
           /\ f.i = unwind_stack.fill /\ f.p \in 1 .. Len(stack) /\ stack[f.p].k = "point"
           /\ \A g : Match(g) => \A j \in f.p .. Len(stack) : g[j] >= stack[f.p].to,
         sig_stacks' = "live" =>
           /\ sig_stacks = "live" /\ f.k # "cleanup"
           /\ \A i \in 1 .. sig_restart_stack'.fill :
                LET e == sig_restart_stack'.mem[i]
                IN  \/ \E o \in 1 .. sig_restart_stack.fill : e = sig_restart_stack.mem[o]
                    \/ e.p = Len(stack) + 1 /\ Provides(f, e)
  PROVE  ScopesInv'
<1>1. PICK g : Match(g)
  BY DEF ScopesInv
<1> DEFINE n == Len(stack)
           u == unwind_stack
           a == unwind_stack'.fill
<1>2. /\ IsSequence(stack) /\ n \in Nat \ {0} /\ g \in [0 .. n -> Nat]
      /\ g[n] = u.fill /\ u.fill \in Nat /\ g[n - 1] \in Nat
      /\ Level(Top, g[n - 1], u.fill, TRUE, unwind_init_ref)
  BY <1>1, TopIs
<1>3. /\ IsSequence(stack') /\ Len(stack') = n + 1
      /\ \A k \in 1 .. n : stack'[k] = stack[k]
      /\ stack'[n + 1] = f
  BY <1>2, AppendIs
<1>4. /\ UnwindOK(unwind_stack') /\ a \in Nat
      /\ HasEntry(f) => a = u.fill + 1 /\ unwind_stack'.mem[a] = EntryOf(f)
      /\ ~HasEntry(f) => a = u.fill
      /\ \A x \in 1 .. u.fill : unwind_stack'.mem[x] = u.mem[x]
  <2>1. UnwindOK(u)
    BY DEF ScopesInv
  <2>2. CASE HasEntry(f)
    <3>1. unwind_stack' = Push(u, EntryOf(f))
      BY <2>2
    <3> QED BY <2>1, <2>2, <3>1, <1>2, PushUnwind
  <2>3. CASE ~HasEntry(f)
    BY <2>1, <2>3, <1>2
  <2> QED BY <2>2, <2>3
<1>5. Level(f, u.fill, a, TRUE, unwind_init_ref')
  BY <1>2, <1>4, LevelOf
<1>6. Level(Top, g[n - 1], g[n], FALSE, unwind_init_ref')
  BY <1>2 DEF Level, Sinks, HasEntry
<1>7. stack'[n] = Top
  BY <1>2, <1>3 DEF Top
<1>8. PICK h : /\ Rebuilt(stack, unwind_init_ref, g, stack', unwind_init_ref', h, n)
               /\ \A k \in 0 .. n : h[k] = g[k]
               /\ h[n + 1] = a
  <2>1. Heights(stack, unwind_init_ref, g)
    BY <1>1 DEF Match
  <2>2. Len(stack') \in {n, n + 1, n + 2} /\ Len(stack') \in Nat /\ n \in 0 .. n /\ n \in Nat
        /\ Len(stack') > n /\ Len(stack') # n + 2
    BY <1>2, <1>3
  <2>3. (n = Len(stack')) = FALSE /\ (n + 1 = Len(stack')) = TRUE
    BY <1>2, <1>3
  <2>4. Level(stack'[n], g[n - 1], g[n], n = Len(stack'), unwind_init_ref')
    BY <1>6, <1>7, <2>3
  <2>5. Level(stack'[n + 1], g[n], a, n + 1 = Len(stack'), unwind_init_ref')
        /\ (stack'[n + 1].k = "point" => stack'[n + 1].to = g[n])
    BY <1>2, <1>3, <1>5, <2>3
  <2>6. \A j \in n + 1 .. n : g[j] >= g[n]
    BY <2>2
  <2>7. Replaces(stack, unwind_init_ref, g, stack', unwind_init_ref', n, a, a)
    BY <1>3, <1>4, <2>1, <2>2, <2>4, <2>5, <2>6 DEF Replaces
  <2>8. Replaced(stack, unwind_init_ref, g, stack', unwind_init_ref', n, a, a)
    BY <2>7, NewHeights
  <2> QED BY <2>2, <2>8 DEF Replaced
<1> HIDE DEF n, a
<1>9. Fits(stack', h, n)
  <2>1. \A k \in n + 1 .. Len(stack') : k = n + 1
    BY <1>2, <1>3
  <2>2. \A k \in n .. Len(stack') - 1 : k = n
    BY <1>2, <1>3
  <2>3. n + 1 # 1
    BY <1>2
  <2>4. Above(stack'[n], stack'[n + 1]) /\ Based(stack'[n], stack'[n + 1], h[n])
    BY <1>3, <1>7 DEF Based
  <2>5. Aimed(stack', h, n + 1)
    <3> SUFFICES ASSUME f.k = "unwind"
                 PROVE  /\ f.p \in 1 .. n /\ stack'[f.p].k = "point"
                        /\ \A j \in f.p .. n + 1 : h[j] >= stack'[f.p].to
      BY <1>2, <1>3 DEF Aimed
    <3>1. /\ f.p \in 1 .. n /\ stack'[f.p] = stack[f.p] /\ stack[f.p].k = "point"
          /\ \A j \in f.p .. n : g[j] >= stack[f.p].to
      BY <1>1, <1>3 DEF n
    <3>2. h[n + 1] >= stack[f.p].to
      <4>1. ~HasEntry(f)
        BY DEF HasEntry
      <4>2. h[n + 1] = g[n]
        BY <1>2, <1>4, <1>8, <4>1
      <4> QED BY <1>2, <3>1, <4>2
    <3>3. \A j \in f.p .. n + 1 : j = n + 1 \/ (j \in f.p .. n /\ h[j] = g[j])
      BY <1>2, <1>8, <3>1
    <3> QED BY <3>1, <3>2, <3>3
  <2> QED BY <1>2, <1>3, <2>1, <2>2, <2>3, <2>4, <2>5 DEF Fits
<1>10. sig_stacks' = "live" => RestartsHold(stack', h, sig_restart_stack')
  <2> SUFFICES ASSUME sig_stacks' = "live", NEW i \in 1 .. sig_restart_stack'.fill, NEW e,
                      e = sig_restart_stack'.mem[i]
               PROVE  /\ e.p \in 1 .. Len(stack') /\ Provides(stack'[e.p], e)
                      /\ Stays(stack', h, e.p)
    BY DEF RestartsHold
  <2>1. CASE \E o \in 1 .. sig_restart_stack.fill : e = sig_restart_stack.mem[o]
    <3>1. e.p \in 1 .. n /\ Provides(stack[e.p], e) /\ Stays(stack, g, e.p)
      BY <1>1, <2>1 DEF Match, RestartsHold, n
    <3>2. Remains(stack, g, stack', h, n, e)
      <4>0. n \in e.p .. n /\ e.p \in 0 .. n
        BY <1>2, <3>1
      <4>1. g[n] >= g[e.p] /\ g[e.p] \in Nat
        BY <1>2, <3>1, <4>0 DEF Stays, n
      <4>2. a >= g[n]
        BY <1>2, <1>4
      <4>3. h[n + 1] >= g[e.p]
        <5>1. h[n + 1] = a
          BY <1>8
        <5>2. PICK x, y : x = g[n] /\ y = g[e.p]
          OBVIOUS
        <5>3. x \in Nat /\ a \in Nat
          BY <1>2, <1>4, <5>2
        <5> QED BY <4>1, <4>2, <5>1, <5>2, <5>3
      <4>4. \A j \in n + 1 .. Len(stack') : j = n + 1
        BY <1>2, <1>3
      <4>5. \A j \in n + 1 .. Len(stack') : h[j] >= g[e.p]
        BY <4>3, <4>4
      <4>6. e.p \in 1 .. n
        BY <3>1
      <4> QED BY <4>5, <4>6 DEF Remains
    <3>3. Heights(stack, unwind_init_ref, g) /\ Len(stack) \in Nat /\ Len(stack') \in Nat
      BY <1>1, <1>2, <1>3 DEF Match, n
    <3> QED BY <1>8, <3>1, <3>2, <3>3, RestartCarry
  <2>2. CASE e.p = n + 1 /\ Provides(f, e)
    <3>1. \A j \in n + 1 .. Len(stack') : j = n + 1
      BY <1>2, <1>3
    <3>2. Stays(stack', h, n + 1)
      BY <1>4, <1>8, <3>1 DEF Stays
    <3> QED BY <1>2, <1>3, <2>2, <3>2
  <2> QED BY <2>1, <2>2 DEF n
<1>11. \A k \in n + 1 .. Len(stack') :
         HasEntry(stack'[k]) /\ Stays(stack', h, k) => unwind_stack'.mem[h[k]] = EntryOf(stack'[k])
  <2>1. \A k \in n + 1 .. Len(stack') : k = n + 1
    BY <1>2, <1>3
  <2> QED BY <1>3, <1>4, <1>8, <2>1 DEF a
<1>12. sig_stacks' = "live" => \A k \in n + 1 .. Len(stack') : stack'[k].k # "cleanup"
  <2>1. \A k \in n + 1 .. Len(stack') : k = n + 1
    BY <1>2, <1>3
  <2> QED BY <1>3, <2>1
<1>13. h[Len(stack')] = unwind_stack'.fill
  BY <1>3, <1>8 DEF a
<1> QED BY <1>1, <1>4, <1>8, <1>9, <1>10, <1>11, <1>12, <1>13, Carried

(* Other steps keep m frames and put at most two new ones above them.        *)
AimsAt(new, g, m, f, a) ==
  /\ f.p \in 1 .. m /\ new[f.p].k = "point"
  /\ \A j \in f.p .. m : g[j] >= new[f.p].to
  /\ a >= new[f.p].to

Follows(new, g, m, a, b) ==
  /\ IsSequence(new) /\ Len(new) >= 1
  /\ Len(new) > m =>
       /\ (new[m + 1].k = "main" <=> m = 0) /\ HasFields(new[m + 1])
       /\ m > 0 => Above(new[m], new[m + 1]) /\ Based(new[m], new[m + 1], g[m])
       /\ new[m + 1].k = "unwind" => AimsAt(new, g, m, new[m + 1], a)
  /\ Len(new) = m + 2 =>
       /\ new[m + 2].k # "main" /\ HasFields(new[m + 2])
       /\ Above(new[m + 1], new[m + 2]) /\ Based(new[m + 1], new[m + 2], a)
       /\ new[m + 2].k = "unwind" => AimsAt(new, g, m, new[m + 2], a) /\ b >= new[new[m + 2].p].to

LEMMA FollowsFits ==
  ASSUME NEW st, NEW ref, NEW g, NEW new, NEW ref2, NEW m, NEW a, NEW b, NEW h,
         Replaces(st, ref, g, new, ref2, m, a, b), Follows(new, g, m, a, b),
         \A k \in 0 .. m : h[k] = g[k],
         Len(new) > m => h[m + 1] = a, Len(new) = m + 2 => h[m + 2] = b
  PROVE  Fits(new, h, m)
<1> DEFINE l == Len(new)
<1>1. l \in Nat /\ m \in Nat /\ l \in {m, m + 1, m + 2} /\ a \in Nat /\ b \in Nat
  BY DEF Replaces
<1>2. ASSUME NEW k \in m + 1 .. l
      PROVE  (new[k].k = "main" <=> k = 1) /\ HasFields(new[k]) /\ Aimed(new, h, k)
  <2>1. CASE k = m + 1
    <3>1. l > m /\ (m = 0 <=> k = 1)
      BY <1>1, <2>1
    <3>2. (new[k].k = "main" <=> k = 1) /\ HasFields(new[k])
      BY <2>1, <3>1 DEF Follows
    <3>3. ASSUME new[k].k = "unwind"
          PROVE  /\ new[k].p \in 1 .. k - 1 /\ new[new[k].p].k = "point"
                 /\ \A j \in new[k].p .. k : h[j] >= new[new[k].p].to
      <4>1. AimsAt(new, g, m, new[k], a)
        BY <2>1, <3>1, <3>3 DEF Follows
      <4> DEFINE p == new[k].p
                 to == new[p].to
      <4>2. p \in 1 .. m /\ new[p].k = "point" /\ (\A j \in p .. m : g[j] >= to) /\ a >= to
        BY <4>1 DEF AimsAt
      <4> HIDE DEF p, to, l
      <4>3. ASSUME NEW j \in p .. k PROVE h[j] >= to
        <5>1. CASE j = m + 1
          BY <3>1, <4>2, <5>1 DEF l
        <5>2. CASE j # m + 1
          <6>1. j \in p .. m /\ j \in 0 .. m
            BY <1>1, <2>1, <4>2, <5>2
          <6>2. h[j] = g[j] /\ g[j] >= to
            BY <4>2, <6>1
          <6> QED BY <6>2
        <5> QED BY <5>1, <5>2
      <4>4. p \in 1 .. k - 1
        BY <1>1, <2>1, <4>2
      <4> QED BY <4>2, <4>3, <4>4 DEF p, to
    <3> QED BY <3>2, <3>3 DEF Aimed
  <2>2. CASE k = m + 2
    <3>1. l = m + 2 /\ l > m /\ k # 1
      BY <1>1, <2>2
    <3>2. (new[k].k = "main" <=> k = 1) /\ HasFields(new[k])
      BY <2>2, <3>1 DEF Follows
    <3>3. ASSUME new[k].k = "unwind"
          PROVE  /\ new[k].p \in 1 .. k - 1 /\ new[new[k].p].k = "point"
                 /\ \A j \in new[k].p .. k : h[j] >= new[new[k].p].to
      <4>1. AimsAt(new, g, m, new[k], a) /\ b >= new[new[k].p].to
        BY <2>2, <3>1, <3>3 DEF Follows
      <4> DEFINE p == new[k].p
                 to == new[p].to
      <4>2. p \in 1 .. m /\ new[p].k = "point" /\ (\A j \in p .. m : g[j] >= to) /\ a >= to /\ b >= to
        BY <4>1 DEF AimsAt
      <4> HIDE DEF p, to, l
      <4>3. ASSUME NEW j \in p .. k PROVE h[j] >= to
        <5>1. CASE j = m + 1
          BY <3>1, <4>2, <5>1 DEF l
        <5>2. CASE j = m + 2
          BY <3>1, <4>2, <5>2 DEF l
        <5>3. CASE j # m + 1 /\ j # m + 2
          <6>1. j \in p .. m /\ j \in 0 .. m
            BY <1>1, <2>2, <4>2, <5>3
          <6>2. h[j] = g[j] /\ g[j] >= to
            BY <4>2, <6>1
          <6> QED BY <6>2
        <5> QED BY <5>1, <5>2, <5>3
      <4>4. p \in 1 .. k - 1
        BY <1>1, <2>2, <4>2
      <4> QED BY <4>2, <4>3, <4>4 DEF p, to
    <3> QED BY <3>2, <3>3 DEF Aimed
  <2>3. k = m + 1 \/ k = m + 2
    BY <1>1
  <2> QED BY <2>1, <2>2, <2>3
<1>3. ASSUME NEW k \in m .. l - 1, k > 0
      PROVE  Above(new[k], new[k + 1]) /\ Based(new[k], new[k + 1], h[k])
  <2>1. CASE k = m
    <3>1. l > m /\ m > 0 /\ m \in 0 .. m
      BY <1>1, <1>3, <2>1
    <3>2. Above(new[m], new[m + 1]) /\ Based(new[m], new[m + 1], g[m]) /\ h[m] = g[m]
      BY <3>1 DEF Follows
    <3> QED BY <2>1, <3>2
  <2>2. CASE k = m + 1
    <3>1. l = m + 2 /\ l > m /\ k + 1 = m + 2
      BY <1>1, <2>2
    <3>2. Above(new[m + 1], new[m + 2]) /\ Based(new[m + 1], new[m + 2], a) /\ h[m + 1] = a
      BY <3>1 DEF Follows
    <3> QED BY <2>2, <3>1, <3>2
  <2> QED BY <1>1, <2>1, <2>2
<1> QED BY <1>2, <1>3 DEF Fits, Follows

(* What is left of the restart stack, or new on it.                          *)
Keeps(st, g, new, m, a, b, rs, rs2) ==
  \A i \in 1 .. rs2.fill :
    LET e == rs2.mem[i]
    IN  \/ /\ \E o \in 1 .. rs.fill : e = rs.mem[o]
           /\ e.p \in 1 .. m
           /\ Len(new) > m => a >= g[e.p]
           /\ Len(new) = m + 2 => b >= g[e.p]
        \/ e.p = m + 1 /\ Len(new) = m + 1 /\ Provides(new[m + 1], e)

LEMMA KeepsHolds ==
  ASSUME NEW st, NEW ref, NEW g, NEW new, NEW ref2, NEW m, NEW a, NEW b, NEW h, NEW rs, NEW rs2,
         Replaces(st, ref, g, new, ref2, m, a, b), Rebuilt(st, ref, g, new, ref2, h, m),
         \A k \in 0 .. m : h[k] = g[k],
         Len(new) > m => h[m + 1] = a, Len(new) = m + 2 => h[m + 2] = b,
         RestartsHold(st, g, rs), Keeps(st, g, new, m, a, b, rs, rs2)
  PROVE  RestartsHold(new, h, rs2)
<1> DEFINE l == Len(new)
<1>1. l \in Nat /\ m \in Nat /\ l \in {m, m + 1, m + 2} /\ a \in Nat /\ b \in Nat
      /\ Len(st) \in Nat /\ Heights(st, ref, g)
  BY DEF Replaces
<1> SUFFICES ASSUME NEW i \in 1 .. rs2.fill, NEW e, e = rs2.mem[i]
             PROVE  /\ e.p \in 1 .. Len(new) /\ Provides(new[e.p], e) /\ Stays(new, h, e.p)
  BY DEF RestartsHold
<1>2. CASE /\ \E o \in 1 .. rs.fill : e = rs.mem[o]
           /\ e.p \in 1 .. m
           /\ l > m => a >= g[e.p]
           /\ l = m + 2 => b >= g[e.p]
  <2>1. Provides(st[e.p], e) /\ Stays(st, g, e.p)
    BY <1>2 DEF RestartsHold
  <2>2. ASSUME NEW j \in m + 1 .. l PROVE h[j] >= g[e.p]
    <3>1. CASE j = m + 1
      <4>1. l > m
        BY <1>1, <3>1
      <4> QED BY <1>2, <3>1, <4>1
    <3>2. CASE j = m + 2
      <4>1. l = m + 2
        BY <1>1, <3>2
      <4> QED BY <1>2, <3>2, <4>1
    <3> QED BY <1>1, <3>1, <3>2
  <2>3. Remains(st, g, new, h, m, e)
    BY <1>2, <2>2 DEF Remains
  <2> QED BY <1>1, <2>1, <2>3, RestartCarry
<1>3. CASE e.p = m + 1 /\ l = m + 1 /\ Provides(new[m + 1], e)
  <2>1. \A j \in m + 1 .. l : j = m + 1
    BY <1>1, <1>3
  <2>2. l > m
    BY <1>1, <1>3
  <2>3. Stays(new, h, m + 1)
    BY <1>1, <2>1, <2>2 DEF Stays
  <2> QED BY <1>1, <1>3, <2>3
<1> QED BY <1>2, <1>3 DEF Keeps

LEMMA Settles ==
  ASSUME ScopesInv, SigStacksOK', NEW g, Match(g), NEW m, NEW a, NEW b,
         Replaces(stack, unwind_init_ref, g, stack', unwind_init_ref', m, a, b),
         Follows(stack', g, m, a, b),
         UnwindOK(unwind_stack'), unwind_init_ref' \in Nat,
         unwind_stack'.fill = IF Len(stack') = m THEN g[m] ELSE IF Len(stack') = m + 1 THEN a ELSE b,
         \A x \in 1 .. unwind_stack.fill :
           x <= unwind_stack'.fill => unwind_stack'.mem[x] = unwind_stack.mem[x],
         Len(stack') > m /\ HasEntry(stack'[m + 1]) => unwind_stack'.mem[a] = EntryOf(stack'[m + 1]),
         Len(stack') = m + 2 => ~HasEntry(stack'[m + 2]),
         sig_stacks' = "live" =>
           /\ sig_stacks = "live"
           /\ Len(stack') > m => stack'[m + 1].k # "cleanup"
           /\ Len(stack') = m + 2 => stack'[m + 2].k # "cleanup"
           /\ Keeps(stack, g, stack', m, a, b, sig_restart_stack, sig_restart_stack')
  PROVE  ScopesInv'
<1> DEFINE l == Len(stack')
<1>1. l \in Nat /\ m \in Nat /\ l \in {m, m + 1, m + 2} /\ a \in Nat /\ b \in Nat
  BY DEF Replaces
<1>2. PICK h : /\ Rebuilt(stack, unwind_init_ref, g, stack', unwind_init_ref', h, m)
               /\ \A k \in 0 .. m : h[k] = g[k]
               /\ l > m => h[m + 1] = a
               /\ l = m + 2 => h[m + 2] = b
  <2>1. Replaced(stack, unwind_init_ref, g, stack', unwind_init_ref', m, a, b)
    BY NewHeights
  <2> QED BY <2>1 DEF Replaced
<1>3. Fits(stack', h, m)
  BY <1>2, FollowsFits
<1>4. sig_stacks' = "live" => RestartsHold(stack', h, sig_restart_stack')
  <2> SUFFICES ASSUME sig_stacks' = "live" PROVE RestartsHold(stack', h, sig_restart_stack')
    OBVIOUS
  <2>1. RestartsHold(stack, g, sig_restart_stack)
    BY DEF Match
  <2>2. Keeps(stack, g, stack', m, a, b, sig_restart_stack, sig_restart_stack')
    OBVIOUS
  <2> QED BY <1>2, <2>1, <2>2, KeepsHolds
<1>5. h[l] = unwind_stack'.fill
  <2>1. m \in 0 .. m
    BY <1>1
  <2> HIDE DEF l
  <2>2. unwind_stack'.fill = IF l = m THEN g[m] ELSE IF l = m + 1 THEN a ELSE b
    BY DEF l
  <2> QED BY <1>1, <1>2, <2>1, <2>2
<1>6. ASSUME NEW k \in m + 1 .. l, HasEntry(stack'[k])
      PROVE  unwind_stack'.mem[h[k]] = EntryOf(stack'[k])
  <2>1. k = m + 1 \/ (k = m + 2 /\ l = m + 2)
    BY <1>1
  <2>2. k = m + 1 /\ l > m
    BY <1>1, <1>6, <2>1
  <2> QED BY <1>2, <1>6, <2>2
<1>7. sig_stacks' = "live" => \A k \in m + 1 .. l : stack'[k].k # "cleanup"
  <2>1. \A k \in m + 1 .. l : (k = m + 1 /\ l > m) \/ (k = m + 2 /\ l = m + 2)
    BY <1>1
  <2> QED BY <2>1
<1> QED BY <1>2, <1>3, <1>4, <1>5, <1>6, <1>7, Carried

-----------------------------------------------------------------------------
(* Restarts that go when their entry is called                              *)

(* What RemoveId leaves, and none of it has the id.                          *)
LEMMA RemainingRestarts ==
  ASSUME NEW id, StackOK(sig_restart_stack), RmRestart(id)
  PROVE  \A i \in 1 .. sig_restart_stack'.fill : \E o \in 1 .. sig_restart_stack.fill :
           sig_restart_stack'.mem[i] = sig_restart_stack.mem[o] /\ sig_restart_stack.mem[o].id # id
<1> DEFINE rs == sig_restart_stack
           rm == RemoveId(rs, id)
           f == rs.fill
<1>1. f \in Nat /\ 1 .. f \subseteq DOMAIN rs.mem
  BY DEF StackOK, WithinAlloc
<1>2. rm.fill \in Nat /\ 1 .. rm.fill \subseteq DOMAIN rm.mem
  BY RemoveOK DEF StackOK, WithinAlloc
<1>3. sig_restart_stack'.fill = rm.fill /\ \A i \in 1 .. rm.fill : sig_restart_stack'.mem[i] = rm.mem[i]
  BY <1>2 DEF RmRestart, Reachable
<1>4. ASSUME NEW i \in 1 .. rm.fill
      PROVE  \E o \in 1 .. f : rm.mem[i] = rs.mem[o] /\ rs.mem[o].id # id
  <2>1. CASE SlotsWithId(rs, id) = {}
    <3>1. rm = rs
      BY <2>1 DEF RemoveId
    <3> QED BY <2>1, <3>1 DEF SlotsWithId
  <2>2. CASE SlotsWithId(rs, id) # {}
    <3>1. PICK k \in SlotsWithId(rs, id) : TRUE
      BY <2>2
    <3>2. SlotsWithId(rs, id) = {k} /\ Max(SlotsWithId(rs, id)) = k /\ k \in 1 .. f
      BY <3>1, SlotIsUnique DEF SlotsWithId
    <3>3. rm = [mem   |-> [x \in DOMAIN rs.mem |->
                             IF k <= x /\ x < f THEN rs.mem[x + 1] ELSE rs.mem[x]],
                fill  |-> f - 1,
                alloc |-> rs.alloc]
      BY <2>2, <3>2 DEF RemoveId
    <3>4. i \in 1 .. f - 1 /\ i \in 1 .. f /\ i + 1 \in 1 .. f
      BY <1>1, <3>2, <3>3
    <3>5. rm.mem[i] = IF k <= i /\ i < f THEN rs.mem[i + 1] ELSE rs.mem[i]
      BY <1>1, <3>3, <3>4
    <3>6. \A x \in 1 .. f : rs.mem[x].id = id => x = k
      BY <3>2 DEF SlotsWithId
    <3>7. CASE k <= i
      BY <1>1, <3>2, <3>4, <3>5, <3>6, <3>7
    <3>8. CASE ~(k <= i)
      BY <1>1, <3>2, <3>4, <3>5, <3>6, <3>8
    <3> QED BY <3>7, <3>8
  <2> QED BY <2>1, <2>2
<1> QED BY <1>3, <1>4

(* A restart whose frame's entry is called and taken off is removed.         *)
LEMMA PoppedRestarts ==
  ASSUME ScopesInv, NEW g, Match(g), sig_stacks = "live", NEW e, NEW fs, NEW base,
         unwind_stack.fill > 0, e = unwind_stack.mem[unwind_stack.fill],
         CallAction(e, fs, base)
  PROVE  \A i \in 1 .. sig_restart_stack'.fill : \E o \in 1 .. sig_restart_stack.fill :
           /\ sig_restart_stack'.mem[i] = sig_restart_stack.mem[o]
           /\ sig_restart_stack.mem[o].p \in 1 .. Len(stack)
           /\ Provides(stack[sig_restart_stack.mem[o].p], sig_restart_stack.mem[o])
           /\ g[sig_restart_stack.mem[o].p] < unwind_stack.fill
<1> DEFINE rs == sig_restart_stack
           n == Len(stack)
           f == unwind_stack.fill
<1>1. /\ n \in Nat \ {0} /\ g \in [0 .. n -> Nat] /\ g[n] = f /\ f \in Nat
  BY TopIs
<1>2. ASSUME NEW o \in 1 .. rs.fill
      PROVE  /\ rs.mem[o].p \in 1 .. n
             /\ Provides(stack[rs.mem[o].p], rs.mem[o])
             /\ g[rs.mem[o].p] = f => e.h = "rm_restart" /\ e.arg = rs.mem[o].id
             /\ g[rs.mem[o].p] <= f /\ g[rs.mem[o].p] \in Nat
  <2> DEFINE r == rs.mem[o]
  <2>1. r.p \in 1 .. n /\ Provides(stack[r.p], r) /\ Stays(stack, g, r.p)
    BY DEF Match, RestartsHold
  <2>2. n \in r.p .. n /\ r.p \in 0 .. n
    BY <1>1, <2>1
  <2>3. g[r.p] <= f /\ g[r.p] \in Nat
    BY <1>1, <2>1, <2>2 DEF Stays
  <2>4. unwind_stack.mem[g[r.p]] = [h |-> "rm_restart", arg |-> r.id]
    <3>1. HasEntry(stack[r.p]) /\ EntryOf(stack[r.p]) = [h |-> "rm_restart", arg |-> r.id]
      BY <2>1 DEF Provides, HasEntry, EntryOf
    <3> QED BY <2>1, <3>1 DEF Match, Entries
  <2>5. g[r.p] = f => e.h = "rm_restart" /\ e.arg = r.id
    BY <2>4
  <2> QED BY <2>1, <2>3, <2>5
<1>3. CASE e.h = "rm_restart"
  <2>1. RmRestart(e.arg) /\ StackOK(rs)
    BY <1>3 DEF CallAction, ScopesInv, SigStacksOK
  <2>2. \A i \in 1 .. rs'.fill : \E o \in 1 .. rs.fill : rs'.mem[i] = rs.mem[o] /\ rs.mem[o].id # e.arg
    BY <2>1, RemainingRestarts
  <2> SUFFICES ASSUME NEW i \in 1 .. rs'.fill
               PROVE  \E o \in 1 .. rs.fill :
                        /\ rs'.mem[i] = rs.mem[o] /\ rs.mem[o].p \in 1 .. n
                        /\ Provides(stack[rs.mem[o].p], rs.mem[o]) /\ g[rs.mem[o].p] < f
    OBVIOUS
  <2>3. PICK o \in 1 .. rs.fill : rs'.mem[i] = rs.mem[o] /\ rs.mem[o].id # e.arg
    BY <2>2
  <2>4. g[rs.mem[o].p] # f /\ g[rs.mem[o].p] <= f /\ g[rs.mem[o].p] \in Nat
    BY <1>2, <2>3
  <2>5. g[rs.mem[o].p] < f
    BY <1>1, <2>4
  <2> QED BY <1>2, <2>3, <2>5
<1>4. CASE e.h # "rm_restart"
  <2>1. rs' = rs
    BY <1>4 DEF CallAction, sigVars
  <2> SUFFICES ASSUME NEW o \in 1 .. rs.fill
               PROVE  /\ rs.mem[o].p \in 1 .. n
                      /\ Provides(stack[rs.mem[o].p], rs.mem[o]) /\ g[rs.mem[o].p] < f
    BY <2>1
  <2>2. g[rs.mem[o].p] # f /\ g[rs.mem[o].p] <= f /\ g[rs.mem[o].p] \in Nat
    BY <1>2, <1>4
  <2>3. g[rs.mem[o].p] < f
    BY <1>1, <2>2
  <2> QED BY <1>2, <2>3
<1> QED BY <1>3, <1>4

-----------------------------------------------------------------------------
(* Steps that push a frame                                                  *)

LEMMA UserTop ==
  ASSUME UserRuns
  PROVE  /\ Top.k \in {"main", "action", "handler", "point", "handler_body", "action_body"}
         /\ \A a : a.k \notin {"handler_body", "catchall", "cleanup"} => Above(Top, a)
BY DEF UserRuns, Above

LEMMA UserPushes ==
  ASSUME ScopesInv, SigStacksOK', UserRuns, NEW f, Call(f),
         f.k \in {"action", "handler", "point", "send", "unwind"}, HasFields(f),
         UNCHANGED <<sig_restart_stack, sig_stacks, unwind_init_ref>>,
         HasEntry(f) => unwind_stack' = Push(unwind_stack, EntryOf(f)),
         ~HasEntry(f) => unwind_stack' = unwind_stack,
         f.k = "point" => f.to = unwind_stack.fill,
         f.k = "unwind" =>
           /\ f.i = unwind_stack.fill /\ f.p \in 1 .. Len(stack) /\ stack[f.p].k = "point"
           /\ \A g : Match(g) => \A j \in f.p .. Len(stack) : g[j] >= stack[f.p].to
  PROVE  ScopesInv'
<1>1. /\ f.k # "main" /\ Above(Top, f) /\ Top.k \notin {"unwind", "cleanup"}
      /\ Top.k # "catchall" /\ f.k # "cleanup"
  BY UserTop
<1>2. unwind_init_ref' \in Nat /\ (unwind_init_ref = 0 => unwind_init_ref' = 0)
  BY DEF ScopesInv
<1>3. \A i \in 1 .. sig_restart_stack'.fill :
        \E o \in 1 .. sig_restart_stack.fill : sig_restart_stack'.mem[i] = sig_restart_stack.mem[o]
  OBVIOUS
<1>4. stack' = Append(stack, f)
  BY DEF Call
<1>5. sig_stacks' = sig_stacks
  OBVIOUS
<1> QED BY <1>1, <1>2, <1>3, <1>4, <1>5, Pushes

LEMMA UnwindActionScopes ==
  ASSUME ScopesInv, SigStacksOK', NEW n, NEW always, UnwindAction(n, always)
  PROVE  ScopesInv'
<1> DEFINE f == [k |-> "action", n |-> n, always |-> always]
<1>1. f.k = "action" /\ HasFields(f) /\ HasEntry(f) /\ EntryOf(f) = [h |-> "user", arg |-> n]
  BY DEF HasFields, HasEntry, EntryOf
<1>2. /\ UserRuns /\ Call(f) /\ unwind_stack' = Push(unwind_stack, EntryOf(f))
      /\ UNCHANGED <<sig_restart_stack, sig_stacks, unwind_init_ref>>
  BY <1>1 DEF UnwindAction, UserCalls, sigVars, exitVars
<1> HIDE DEF f
<1> QED BY <1>1, <1>2, UserPushes

LEMMA AutopopHandlerScopes ==
  ASSUME ScopesInv, SigStacksOK', NEW sig, AutopopHandler(sig)
  PROVE  ScopesInv'
<1> DEFINE f == [k |-> "handler", id |-> NextId(sig_handler_stack, 1)]
<1>1. f.k = "handler" /\ HasFields(f) /\ HasEntry(f)
      /\ EntryOf(f) = [h |-> "rm_handler", arg |-> NextId(sig_handler_stack, 1)]
  BY DEF HasFields, HasEntry, EntryOf
<1>2. /\ UserRuns /\ Call(f) /\ unwind_stack' = Push(unwind_stack, EntryOf(f))
      /\ UNCHANGED <<sig_restart_stack, sig_stacks, unwind_init_ref>>
  BY <1>1 DEF AutopopHandler, UserCalls, sigVars, exitVars
<1> HIDE DEF f
<1> QED BY <1>1, <1>2, UserPushes

LEMMA AutopopNullHandlerScopes ==
  ASSUME ScopesInv, SigStacksOK', AutopopNullHandler
  PROVE  ScopesInv'
<1> DEFINE f == [k |-> "handler", id |-> 0]
<1>1. f.k = "handler" /\ HasFields(f) /\ HasEntry(f) /\ EntryOf(f) = [h |-> "rm_handler", arg |-> 0]
  BY DEF HasFields, HasEntry, EntryOf
<1>2. /\ UserRuns /\ Call(f) /\ unwind_stack' = Push(unwind_stack, EntryOf(f))
      /\ UNCHANGED <<sig_restart_stack, sig_stacks, unwind_init_ref>>
  BY <1>1 DEF AutopopNullHandler, UserCalls, sigVars, exitVars
<1> HIDE DEF f
<1> QED BY <1>1, <1>2, UserPushes

LEMMA ReturnPointScopes ==
  ASSUME ScopesInv, SigStacksOK', ReturnPoint
  PROVE  ScopesInv'
<1> DEFINE f == [k |-> "point", mode |-> "plain", returned |-> FALSE,
                 to |-> unwind_stack.fill, id |-> NoId]
<1>1. f.k = "point" /\ HasFields(f) /\ ~HasEntry(f) /\ f.to = unwind_stack.fill
  BY DEF HasFields, HasEntry
<1>2. /\ UserRuns /\ Call(f) /\ unwind_stack' = unwind_stack
      /\ UNCHANGED <<sig_restart_stack, sig_stacks, unwind_init_ref>>
  BY DEF ReturnPoint, UserCalls, sigVars, exitVars
<1> HIDE DEF f
<1> QED BY <1>1, <1>2, UserPushes

LEMMA SendScopes ==
  ASSUME ScopesInv, SigStacksOK', NEW sig, NEW data, UserRuns, Call(SendFrame(sig, data)),
         UNCHANGED <<unwind_stack, sig_restart_stack, sig_stacks, unwind_init_ref>>
  PROVE  ScopesInv'
<1> DEFINE f == SendFrame(sig, data)
<1>1. f.k = "send" /\ HasFields(f) /\ ~HasEntry(f)
  BY DEF HasFields, HasEntry, SendFrame
<1> HIDE DEF f
<1>2. Call(f)
  BY DEF f
<1> QED BY <1>1, <1>2, UserPushes

LEMMA ReportFailsScopes ==
  ASSUME ScopesInv, SigStacksOK', ReportFails
  PROVE  ScopesInv'
<1> DEFINE f == SendFrame(SIGNAL_FAIL, "none")
<1>1. f.k = "send" /\ HasFields(f) /\ ~HasEntry(f)
  BY DEF HasFields, HasEntry, SendFrame
<1>2. /\ Top.k = "catchall" /\ Top.stage = "report" /\ stack' = Append(stack, f)
      /\ UNCHANGED <<unwind_stack, sig_restart_stack, sig_stacks, unwind_init_ref>>
  BY DEF ReportFails, AtStage, Call, sigVars, exitVars
<1> HIDE DEF f
<1>3. Above(Top, f) /\ f.k # "main" /\ f.k # "cleanup"
  BY <1>1, <1>2 DEF Above
<1>4. \A i \in 1 .. sig_restart_stack'.fill :
        \E o \in 1 .. sig_restart_stack.fill : sig_restart_stack'.mem[i] = sig_restart_stack.mem[o]
  BY <1>2
<1>5. unwind_init_ref' \in Nat
  BY <1>2 DEF ScopesInv
<1> QED BY <1>1, <1>2, <1>3, <1>4, <1>5, Pushes

LEMMA ThreadCleanupScopes ==
  ASSUME ScopesInv, SigStacksOK', Len(stack) = 1, sig_stacks' = "freed",
         stack' = Append(stack, [k |-> "cleanup"]), unwind_stack' = unwind_stack,
         unwind_init_ref' \in Nat, unwind_init_ref = 0 => unwind_init_ref' = 0
  PROVE  ScopesInv'
<1> DEFINE f == [k |-> "cleanup"]
<1>1. f.k = "cleanup" /\ HasFields(f) /\ ~HasEntry(f)
  BY DEF HasFields, HasEntry
<1> HIDE DEF f
<1>2. Top.k = "main"
  BY DEF Top, ScopesInv, Shape
<1>3. Above(Top, f) /\ f.k # "main"
  BY <1>1, <1>2 DEF Above
<1>4. stack' = Append(stack, f)
  BY DEF f
<1> QED BY <1>1, <1>2, <1>3, <1>4, Pushes

LEMMA ProvideRestartScopes ==
  ASSUME ScopesInv, SigStacksOK', NEW mode, mode # "plain", NEW sig, NEW rst,
         ProvideRestart(mode, sig, rst)
  PROVE  ScopesInv'
<1> DEFINE id == NextId(sig_restart_stack, 0)
           f == [k |-> "point", mode |-> mode, sig |-> sig, rst |-> rst, returned |-> FALSE,
                 to |-> unwind_stack.fill, id |-> id]
           e == [sig |-> sig, rst |-> rst, p |-> Len(stack) + 1, id |-> id]
           rs == sig_restart_stack
<1>1. f.k = "point" /\ HasFields(f) /\ HasEntry(f) /\ EntryOf(f) = [h |-> "rm_restart", arg |-> id]
      /\ f.to = unwind_stack.fill
  BY DEF HasFields, HasEntry, EntryOf
<1>2. /\ UserRuns /\ stack' = Append(stack, f) /\ unwind_stack' = Push(unwind_stack, EntryOf(f))
      /\ UNCHANGED <<sig_stacks, unwind_init_ref>> /\ rs' = Push(rs, e)
  BY <1>1 DEF ProvideRestart, PushRestart, Call, UserCalls, exitVars
<1>3. Provides(f, e) /\ e.p = Len(stack) + 1
  BY DEF Provides
<1> HIDE DEF f, e
<1>4. \A i \in 1 .. rs'.fill :
        (\E o \in 1 .. rs.fill : rs'.mem[i] = rs.mem[o]) \/ rs'.mem[i] = e
  <2>1. rs.fill \in Nat /\ 1 .. rs.fill \subseteq DOMAIN rs.mem
    BY DEF ScopesInv, SigStacksOK, StackOK, WithinAlloc
  <2>2. /\ rs'.fill = rs.fill + 1 /\ rs'.mem[rs.fill + 1] = e
        /\ \A i \in 1 .. rs.fill : rs'.mem[i] = rs.mem[i]
    BY <1>2, <2>1 DEF Push
  <2> QED BY <2>1, <2>2
<1>5. Above(Top, f) /\ f.k # "main" /\ f.k # "cleanup" /\ Top.k \notin {"unwind", "cleanup", "catchall"}
  BY <1>1, <1>2, UserTop
<1>6. unwind_init_ref' \in Nat
  BY <1>2 DEF ScopesInv
<1>7. \A i \in 1 .. rs'.fill :
        \/ \E o \in 1 .. rs.fill : rs'.mem[i] = rs.mem[o]
        \/ rs'.mem[i].p = Len(stack) + 1 /\ Provides(f, rs'.mem[i])
  BY <1>3, <1>4
<1> QED BY <1>1, <1>2, <1>5, <1>6, <1>7, Pushes

(* User code that unwinds has given up nothing below the point: only the     *)
(* library's loops take entries that belong to frames below them, and the    *)
(* functions they call know how far.                                         *)
LEMMA UnwindReaches ==
  ASSUME ScopesInv, UserRuns, NEW p \in DOMAIN stack, stack[p].k = "point", MayUnwindTo(p),
         NEW g, Match(g)
  PROVE  \A j \in p .. Len(stack) : g[j] >= stack[p].to
<1> DEFINE n == Len(stack)
           to == stack[p].to
<1>1. /\ IsSequence(stack) /\ n \in Nat \ {0} /\ g \in [0 .. n -> Nat]
      /\ DOMAIN stack = 1 .. n
  <2>1. IsSequence(stack) /\ n \in Nat \ {0} /\ g \in [0 .. n -> Nat]
    BY TopIs
  <2> QED BY <2>1 DEF IsSequence
<1>2. /\ \A k \in 1 .. n : Level(stack[k], g[k - 1], g[k], k = n, unwind_init_ref)
      /\ to = g[p - 1]
  BY <1>1 DEF Match, Heights
<1>3. \A b \in p + 1 .. n : stack[b].k = "action_body" => to <= stack[b].base
  BY DEF MayUnwindTo
<1>4. /\ \A k \in 1 .. n - 1 : Above(stack[k], stack[k + 1])
      /\ \A k \in 1 .. n - 1 :
           /\ stack[k].k = "unwind" => stack[k + 1].base = g[k]
           /\ stack[k].k = "cleanup" => stack[k + 1].base \in Nat /\ stack[k + 1].base + 1 = g[k]
  BY DEF ScopesInv, Shape, Match, Bases
<1>5. stack[n].k \in {"main", "action", "handler", "point", "handler_body", "action_body"}
  BY UserTop DEF Top
<1> DEFINE T == {j \in p .. n : g[j] < to}
<1>6. ASSUME T # {} PROVE FALSE
  <2>0. T \subseteq Nat
    BY <1>1
  <2> HIDE DEF T
  <2>1. \E x \in T : \A y \in T : x <= y
    BY <1>6, <2>0, LeastOf
  <2>2. PICK j \in T : \A y \in T : j <= y
    BY <2>1
  <2>3. j \in p .. n /\ g[j] < to /\ p \in 1 .. n
    BY <1>1 DEF T
  <2> HIDE DEF n, to
  <2>4. j \in 1 .. n /\ j - 1 \in 0 .. n /\ p - 1 \in 0 .. n /\ j \in 0 .. n
        /\ g[j] \in Nat /\ g[j - 1] \in Nat /\ to \in Nat
    BY <1>1, <1>2, <2>3
  <2>5. g[j - 1] >= to
    <3>1. CASE j = p
      BY <1>2, <2>4, <3>1
    <3>2. CASE j # p
      <4>1. j - 1 \in p .. n /\ ~(j <= j - 1)
        BY <1>1, <2>3, <2>4, <3>2
      <4>2. j - 1 \notin T
        BY <2>2, <4>1
      <4> QED BY <2>4, <4>1, <4>2 DEF T
    <3> QED BY <3>1, <3>2
  <2>6. g[j] # g[j - 1] /\ g[j] # g[j - 1] + 1
    BY <2>3, <2>4, <2>5
  <2>7. Level(stack[j], g[j - 1], g[j], j = n, unwind_init_ref)
    BY <1>2, <2>4
  <2>8. stack[j].k = "unwind" \/ Sinks(stack[j], j = n, unwind_init_ref)
    BY <2>6, <2>7 DEF Level
  <2>9. j # n
    BY <1>5, <2>8 DEF Sinks
  <2>10. stack[j].k = "unwind" \/ stack[j].k = "cleanup"
    BY <2>8, <2>9 DEF Sinks
  <2>11. j \in 1 .. n - 1 /\ j + 1 \in p + 1 .. n
    BY <1>1, <2>3, <2>4, <2>9
  <2>12. stack[j + 1].k = "action_body"
    BY <1>4, <2>10, <2>11 DEF Above
  <2>13. to <= stack[j + 1].base
    BY <1>3, <2>11, <2>12
  <2>14. stack[j + 1].base = g[j] \/ (stack[j + 1].base \in Nat /\ stack[j + 1].base + 1 = g[j])
    BY <1>4, <2>10, <2>11
  <2> QED BY <2>3, <2>4, <2>13, <2>14
<1>7. \A j \in p .. n : j \in 0 .. n /\ ~(g[j] < to)
  BY <1>1, <1>6
<1> HIDE DEF n, to
<1>8. to \in Nat
  <2>1. p - 1 \in 0 .. n
    BY <1>1
  <2> QED BY <1>1, <1>2, <2>1
<1> SUFFICES ASSUME NEW j \in p .. n PROVE g[j] >= to
  BY DEF n, to
<1>9. g[j] \in Nat /\ ~(g[j] < to)
  BY <1>1, <1>7
<1> QED BY <1>8, <1>9

LEMMA UnwindScopes ==
  ASSUME ScopesInv, SigStacksOK', NEW p \in DOMAIN stack, Unwind(p)
  PROVE  ScopesInv'
<1> DEFINE f == UnwindFrame(p)
<1>1. f.k = "unwind" /\ HasFields(f) /\ ~HasEntry(f) /\ f.i = unwind_stack.fill /\ f.p = p
  BY DEF HasFields, HasEntry, UnwindFrame
<1>2. /\ UserRuns /\ Call(f) /\ stack[p].k = "point" /\ MayUnwindTo(p)
      /\ UNCHANGED <<unwind_stack, sig_restart_stack, sig_stacks, unwind_init_ref>>
  BY DEF Unwind, UserCalls, sigVars, exitVars
<1>3. p \in 1 .. Len(stack)
  BY DEF ScopesInv, Shape, IsSequence
<1>4. \A g : Match(g) => \A j \in f.p .. Len(stack) : g[j] >= stack[f.p].to
  BY <1>1, <1>2, UnwindReaches
<1> HIDE DEF f
<1> QED BY <1>1, <1>2, <1>3, <1>4, UserPushes

-----------------------------------------------------------------------------
(* Steps that take frames off                                               *)

LEMMA LevelBelow ==
  ASSUME ScopesInv, NEW g, Match(g), NEW m \in 1 .. Len(stack) - 1, NEW top \in BOOLEAN,
         NEW ref, unwind_init_ref = 0 => ref = 0
  PROVE  Level(stack[m], g[m - 1], g[m], top, ref)
<1> DEFINE n == Len(stack)
<1>1. n \in Nat \ {0} /\ g \in [0 .. n -> Nat]
  BY TopIs
<1>2. m \in 1 .. n /\ m - 1 \in 0 .. n /\ m \in 0 .. n /\ (m = n) = FALSE
  BY <1>1
<1>3. g[m - 1] \in Nat /\ g[m] \in Nat
  BY <1>1, <1>2
<1>4. Level(stack[m], g[m - 1], g[m], m = Len(stack), unwind_init_ref)
  BY <1>2 DEF Match, Heights
<1>5. Level(stack[m], g[m - 1], g[m], FALSE, unwind_init_ref)
  BY <1>2, <1>4
<1> QED BY <1>3, <1>5 DEF Level, Sinks, HasEntry

LEMMA BelowIs ==
  ASSUME ScopesInv, Len(stack) > 1
  PROVE  /\ IsSequence(Below) /\ Len(Below) = Len(stack) - 1
         /\ \A k \in 1 .. Len(stack) - 1 : Below[k] = stack[k]
<1>1. IsSequence(stack) /\ Len(stack) \in Nat
  BY LengthIs DEF ScopesInv, Shape
<1>2. Len(stack) - 1 \in 0 .. Len(stack)
  BY <1>1
<1> QED BY <1>1, <1>2, PrefixIs DEF Below

LEMMA UnwindStackIs ==
  ASSUME ScopesInv
  PROVE  /\ UnwindOK(unwind_stack) /\ unwind_stack.fill \in Nat
         /\ unwind_stack.fill > 0 =>
              /\ UnwindOK(Pop(unwind_stack)) /\ Pop(unwind_stack).fill = unwind_stack.fill - 1
              /\ \A x \in 1 .. unwind_stack.fill - 1 : Pop(unwind_stack).mem[x] = unwind_stack.mem[x]
<1>1. UnwindOK(unwind_stack) /\ unwind_stack.fill \in Nat
  BY LengthIs DEF ScopesInv, UnwindOK
<1> QED BY <1>1, PopUnwind

(* The top frame goes, with its entry if it has one. *)
LEMMA Returns ==
  ASSUME ScopesInv, SigStacksOK', Len(stack) > 1, stack' = Below,
         Top.k # "unwind", ~Sinks(Top, TRUE, unwind_init_ref),
         unwind_init_ref' \in Nat, unwind_init_ref = 0 => unwind_init_ref' = 0,
         unwind_stack' = IF HasEntry(Top) THEN Pop(unwind_stack) ELSE unwind_stack,
         sig_stacks' = "live" =>
           /\ sig_stacks = "live"
           /\ \A i \in 1 .. sig_restart_stack'.fill : \E o \in 1 .. sig_restart_stack.fill :
                /\ sig_restart_stack'.mem[i] = sig_restart_stack.mem[o]
                /\ sig_restart_stack.mem[o].p # Len(stack)
  PROVE  ScopesInv'
<1>1. PICK g : Match(g)
  BY DEF ScopesInv
<1> DEFINE n == Len(stack)
           m == n - 1
           u == unwind_stack
<1>2. /\ n \in Nat \ {0} /\ g \in [0 .. n -> Nat] /\ g[n] = u.fill /\ u.fill \in Nat
      /\ g[n - 1] \in Nat
      /\ Level(Top, g[n - 1], u.fill, TRUE, unwind_init_ref)
  BY <1>1, TopIs
<1>3. /\ IsSequence(stack') /\ Len(stack') = m /\ \A k \in 1 .. m : stack'[k] = stack[k]
  BY BelowIs
<1>4. m \in 1 .. n - 1 /\ m \in 0 .. n /\ m \in Nat /\ m > 0
  BY <1>2
<1>5. Level(stack[m], g[m - 1], g[m], m = Len(stack'), unwind_init_ref')
  BY <1>1, <1>4, LevelBelow
<1>6. u.fill = IF HasEntry(Top) THEN g[m] + 1 ELSE g[m]
  BY <1>2 DEF Level
<1>7. \A j \in m + 1 .. n : g[j] >= g[m]
  <2>1. g[n] >= g[m]
    BY <1>2, <1>6
  <2>2. \A j \in m + 1 .. n : j = n
    BY <1>2
  <2> QED BY <2>1, <2>2
<1>8. /\ UnwindOK(unwind_stack') /\ unwind_stack'.fill = g[m]
      /\ \A x \in 1 .. u.fill : x <= unwind_stack'.fill => unwind_stack'.mem[x] = u.mem[x]
  <2>1. CASE HasEntry(Top)
    <3>1. u.fill > 0 /\ unwind_stack' = Pop(u) /\ u.fill - 1 = g[m]
      BY <1>2, <1>6, <2>1
    <3>2. UnwindOK(Pop(u)) /\ Pop(u).fill = g[m] /\ \A x \in 1 .. u.fill - 1 : Pop(u).mem[x] = u.mem[x]
      BY <3>1, UnwindStackIs
    <3>3. \A x \in 1 .. u.fill : x <= g[m] => x \in 1 .. u.fill - 1
      BY <1>2, <3>1
    <3> QED BY <3>1, <3>2, <3>3
  <2>2. CASE ~HasEntry(Top)
    BY <1>6, <2>2, UnwindStackIs
  <2> QED BY <2>1, <2>2
<1>9. Replaces(stack, unwind_init_ref, g, stack', unwind_init_ref', m, 0, 0)
  <2>1. Heights(stack, unwind_init_ref, g)
    BY <1>1 DEF Match
  <2>2. stack'[m] = stack[m]
    BY <1>3, <1>4
  <2>3. ~(Len(stack') > m) /\ Len(stack') # m + 2 /\ Len(stack') \in Nat
    BY <1>3, <1>4
  <2> HIDE DEF m, n
  <2>4. Level(stack'[m], g[m - 1], g[m], m = Len(stack'), unwind_init_ref')
    BY <1>5, <2>2
  <2> QED BY <1>2, <1>3, <1>4, <1>7, <2>1, <2>3, <2>4 DEF Replaces, n
<1>10. Follows(stack', g, m, 0, 0)
  BY <1>3, <1>4 DEF Follows
<1>11. sig_stacks' = "live" => Keeps(stack, g, stack', m, 0, 0, sig_restart_stack, sig_restart_stack')
  <2> SUFFICES ASSUME sig_stacks' = "live", NEW i \in 1 .. sig_restart_stack'.fill
               PROVE  /\ \E o \in 1 .. sig_restart_stack.fill :
                           sig_restart_stack'.mem[i] = sig_restart_stack.mem[o]
                      /\ sig_restart_stack'.mem[i].p \in 1 .. m
    BY <1>3, <1>4 DEF Keeps
  <2>1. PICK o \in 1 .. sig_restart_stack.fill :
          /\ sig_restart_stack'.mem[i] = sig_restart_stack.mem[o]
          /\ sig_restart_stack.mem[o].p # n
    OBVIOUS
  <2>2. sig_restart_stack.mem[o].p \in 1 .. n
    BY <1>1 DEF Match, RestartsHold
  <2> QED BY <1>2, <2>1, <2>2
<1>12. ~(Len(stack') > m) /\ Len(stack') # m + 2
  BY <1>3, <1>4
<1> HIDE DEF m, n
<1> QED BY <1>1, <1>3, <1>8, <1>9, <1>10, <1>11, <1>12, Settles

(* Without an entry no restart is the frame's. *)
LEMMA ReturnsPlain ==
  ASSUME ScopesInv, SigStacksOK', Len(stack) > 1, stack' = Below, ~HasEntry(Top),
         Top.k # "unwind", ~Sinks(Top, TRUE, unwind_init_ref),
         UNCHANGED <<unwind_stack, sig_restart_stack, sig_stacks, unwind_init_ref>>
  PROVE  ScopesInv'
<1>1. PICK g : Match(g)
  BY DEF ScopesInv
<1>2. sig_stacks = "live" => \A o \in 1 .. sig_restart_stack.fill : sig_restart_stack.mem[o].p # Len(stack)
  <2> SUFFICES ASSUME sig_stacks = "live", NEW o \in 1 .. sig_restart_stack.fill,
                      sig_restart_stack.mem[o].p = Len(stack)
               PROVE  FALSE
    OBVIOUS
  <2>1. Provides(Top, sig_restart_stack.mem[o])
    BY <1>1 DEF Match, RestartsHold, Top
  <2> QED BY <2>1 DEF Provides, HasEntry
<1>3. unwind_init_ref' \in Nat /\ (unwind_init_ref = 0 => unwind_init_ref' = 0)
  BY DEF ScopesInv
<1>4. sig_stacks' = "live" =>
        /\ sig_stacks = "live"
        /\ \A i \in 1 .. sig_restart_stack'.fill : \E o \in 1 .. sig_restart_stack.fill :
             /\ sig_restart_stack'.mem[i] = sig_restart_stack.mem[o]
             /\ sig_restart_stack.mem[o].p # Len(stack)
  BY <1>2
<1>5. unwind_stack' = IF HasEntry(Top) THEN Pop(unwind_stack) ELSE unwind_stack
  OBVIOUS
<1> QED BY <1>3, <1>4, <1>5, Returns

LEMMA NotMain ==
  ASSUME ScopesInv, Top.k # "main"
  PROVE  Len(stack) > 1
<1> DEFINE n == Len(stack)
<1>1. n \in Nat /\ n >= 1
  BY LengthIs DEF ScopesInv, Shape
<1>2. n # 1
  BY <1>1 DEF ScopesInv, Shape, Top
<1> HIDE DEF n
<1>3. n > 1
  BY <1>1, <1>2
<1> QED BY <1>3 DEF n

LEMMA LeavePointScopes ==
  ASSUME ScopesInv, SigStacksOK', LeavePoint
  PROVE  ScopesInv'
<1>1. /\ Top.k = "point" /\ (Top.mode = "plain" \/ Top.returned) /\ stack' = Below
      /\ UNCHANGED <<unwind_stack, sig_restart_stack, sig_stacks, unwind_init_ref>>
  BY DEF LeavePoint, Return, sigVars, exitVars
<1>2. ~HasEntry(Top) /\ ~Sinks(Top, TRUE, unwind_init_ref)
  BY <1>1 DEF HasEntry, Sinks
<1> QED BY <1>1, <1>2, NotMain, ReturnsPlain

LEMMA ActionReturnsScopes ==
  ASSUME ScopesInv, SigStacksOK', ActionReturns, stack[Len(stack) - 1].k # "cleanup"
  PROVE  ScopesInv'
<1>1. /\ Top.k = "action_body" /\ stack' = Below
      /\ UNCHANGED <<unwind_stack, sig_restart_stack, sig_stacks, unwind_init_ref>>
  BY DEF ActionReturns, Return, sigVars, exitVars
<1>2. ~HasEntry(Top) /\ ~Sinks(Top, TRUE, unwind_init_ref)
  BY <1>1 DEF HasEntry, Sinks
<1> QED BY <1>1, <1>2, NotMain, ReturnsPlain

LEMMA SendReturnsScopes ==
  ASSUME ScopesInv, SigStacksOK', SendNext, Candidates(Top) = {}
  PROVE  ScopesInv'
<1>1. /\ Top.k = "send" /\ stack' = Below
      /\ UNCHANGED <<unwind_stack, sig_restart_stack, sig_stacks, unwind_init_ref>>
  BY DEF SendNext, Return, sigVars, exitVars
<1>2. ~HasEntry(Top) /\ ~Sinks(Top, TRUE, unwind_init_ref)
  BY <1>1 DEF HasEntry, Sinks
<1> QED BY <1>1, <1>2, NotMain, ReturnsPlain

(* unwind_cleanup that did not release the last reference. *)
LEMMA CleanupReturnsScopes ==
  ASSUME ScopesInv, SigStacksOK', CleanupDone, unwind_init_ref # 0
  PROVE  ScopesInv'
<1>1. /\ Top.k = "cleanup" /\ stack' = Below
      /\ UNCHANGED <<unwind_stack, sig_restart_stack, sig_stacks, unwind_init_ref>>
  BY DEF CleanupDone, Return, sigVars
<1>2. ~HasEntry(Top) /\ ~Sinks(Top, TRUE, unwind_init_ref)
  BY <1>1 DEF HasEntry, Sinks
<1> QED BY <1>1, <1>2, NotMain, ReturnsPlain

LEMMA LeaveExplicitScopeScopes ==
  ASSUME ScopesInv, SigStacksOK', LeaveExplicitScope
  PROVE  ScopesInv'
<1>1. PICK g : Match(g)
  BY DEF ScopesInv
<1>2. /\ Top.k = "action" /\ stack' = Below /\ unwind_stack' = Pop(unwind_stack)
      /\ UNCHANGED <<sig_restart_stack, sig_stacks, unwind_init_ref>>
  BY DEF LeaveExplicitScope, Explicit, Return, sigVars, exitVars
<1>3. HasEntry(Top) /\ ~Sinks(Top, TRUE, unwind_init_ref)
  BY <1>2 DEF HasEntry, Sinks
<1>4. sig_stacks = "live" => \A o \in 1 .. sig_restart_stack.fill : sig_restart_stack.mem[o].p # Len(stack)
  <2> SUFFICES ASSUME sig_stacks = "live", NEW o \in 1 .. sig_restart_stack.fill,
                      sig_restart_stack.mem[o].p = Len(stack)
               PROVE  FALSE
    OBVIOUS
  <2>1. Provides(Top, sig_restart_stack.mem[o])
    BY <1>1 DEF Match, RestartsHold, Top
  <2> QED BY <1>2, <2>1 DEF Provides
<1>5. unwind_init_ref' \in Nat /\ (unwind_init_ref = 0 => unwind_init_ref' = 0)
  BY <1>2 DEF ScopesInv
<1>6. sig_stacks' = "live" =>
        /\ sig_stacks = "live"
        /\ \A i \in 1 .. sig_restart_stack'.fill : \E o \in 1 .. sig_restart_stack.fill :
             /\ sig_restart_stack'.mem[i] = sig_restart_stack.mem[o]
             /\ sig_restart_stack.mem[o].p # Len(stack)
  BY <1>2, <1>4
<1>7. unwind_stack' = IF HasEntry(Top) THEN Pop(unwind_stack) ELSE unwind_stack
  BY <1>2, <1>3
<1> QED BY <1>2, <1>3, <1>5, <1>6, <1>7, NotMain, Returns

(* A scope's entry removes the handler or restart at once. *)
LEMMA LeaveScopeAtOnce ==
  ASSUME ScopesInv, SigStacksOK', LeaveScope, EntryOf(Top).h # "user"
  PROVE  ScopesInv'
<1>1. PICK g : Match(g)
  BY DEF ScopesInv
<1> DEFINE e == EntryOf(Top)
<1>2. /\ HasEntry(Top) /\ unwind_stack' = Pop(unwind_stack)
      /\ CallAction(e, Below, unwind_stack.fill - 1) /\ UNCHANGED unwind_init_ref
      /\ Top.k \in {"action", "handler", "point"}
  BY DEF LeaveScope, exitVars, HasEntry
<1>3. stack' = Below /\ sig_stacks' = sig_stacks
  BY <1>2 DEF CallAction, sigVars
<1>4. /\ g[Len(stack)] = unwind_stack.fill /\ unwind_stack.fill \in Nat
      /\ g[Len(stack) - 1] \in Nat /\ unwind_stack.fill = g[Len(stack) - 1] + 1
      /\ unwind_stack.mem[unwind_stack.fill] = e
  BY <1>1, <1>2, TopIs
<1>5. unwind_stack.fill > 0
  BY <1>4
<1> HIDE DEF e
<1>6. ASSUME sig_stacks = "live"
      PROVE  \A i \in 1 .. sig_restart_stack'.fill : \E o \in 1 .. sig_restart_stack.fill :
               /\ sig_restart_stack'.mem[i] = sig_restart_stack.mem[o]
               /\ sig_restart_stack.mem[o].p # Len(stack)
  <2>1. \A i \in 1 .. sig_restart_stack'.fill : \E o \in 1 .. sig_restart_stack.fill :
           /\ sig_restart_stack'.mem[i] = sig_restart_stack.mem[o]
           /\ sig_restart_stack.mem[o].p \in 1 .. Len(stack)
           /\ Provides(stack[sig_restart_stack.mem[o].p], sig_restart_stack.mem[o])
           /\ g[sig_restart_stack.mem[o].p] < unwind_stack.fill
    BY <1>1, <1>2, <1>4, <1>5, <1>6, PoppedRestarts
  <2>2. \A p : g[p] < unwind_stack.fill => p # Len(stack)
    BY <1>4
  <2> QED BY <2>1, <2>2, Zenon
<1>7. unwind_init_ref' \in Nat /\ (unwind_init_ref = 0 => unwind_init_ref' = 0)
  BY <1>2 DEF ScopesInv
<1>8. Top.k # "unwind" /\ Top.k # "main" /\ ~Sinks(Top, TRUE, unwind_init_ref)
  BY <1>2 DEF Sinks
<1>9. unwind_stack' = IF HasEntry(Top) THEN Pop(unwind_stack) ELSE unwind_stack
  BY <1>2
<1> QED BY <1>3, <1>6, <1>7, <1>8, <1>9, NotMain, Returns

-----------------------------------------------------------------------------
(* Steps that change a frame, and may call a function from it               *)

LEMMA SameKind ==
  ASSUME ScopesInv, NEW g, Match(g), NEW m \in 0 .. Len(stack) - 1, NEW f,
         f.k = stack[m + 1].k, f.k # "action_body"
  PROVE  /\ f.k = "main" <=> m = 0
         /\ m > 0 => Above(stack[m], f) /\ Based(stack[m], f, g[m])
<1> DEFINE n == Len(stack)
<1>1. n \in Nat
  BY TopIs
<1> HIDE DEF n
<1>2. m \in Nat /\ m + 1 \in 1 .. n /\ (m + 1 = 1 <=> m = 0) /\ (m > 0 => m \in 1 .. n - 1)
  BY <1>1 DEF n
<1>3. f.k = "main" <=> m = 0
  BY <1>2 DEF ScopesInv, Shape, n
<1>4. m > 0 => Above(stack[m], stack[m + 1])
  BY <1>2 DEF ScopesInv, Shape, n
<1>5. m > 0 => Above(stack[m], f) /\ Based(stack[m], f, g[m])
  BY <1>4 DEF Above, Based
<1> QED BY <1>3, <1>5

(* The lowest m frames stay, f takes the place of the next one, and a function *)
(* it calls may follow; they account for a and b entries.                    *)
RewritesTo(g, m, a, b, f) ==
  /\ m \in 0 .. Len(stack) - 1 /\ a \in Nat /\ b \in Nat
  /\ IsSequence(stack')
  /\ Len(stack') = m + 1 \/ Len(stack') = m + 2
  /\ \A k \in 1 .. m : stack'[k] = stack[k]
  /\ stack'[m + 1] = f
  /\ HasFields(f) /\ (f.k = "main" <=> m = 0)
  /\ m > 0 => Above(stack[m], f) /\ Based(stack[m], f, g[m])
  /\ f.k = "point" => f.to = g[m]
  /\ f.k = "unwind" => AimsAt(stack, g, m, f, a)
  /\ Len(stack') = m + 1 =>
       /\ Level(f, g[m], a, TRUE, unwind_init_ref')
       /\ unwind_stack'.fill = a
  /\ Len(stack') = m + 2 =>
       /\ Level(f, g[m], a, FALSE, unwind_init_ref')
       /\ Above(f, stack'[m + 2]) /\ Based(f, stack'[m + 2], a)
       /\ Level(stack'[m + 2], a, b, TRUE, unwind_init_ref')
       /\ stack'[m + 2].k # "point" /\ stack'[m + 2].k # "main"
       /\ HasFields(stack'[m + 2]) /\ ~HasEntry(stack'[m + 2])
       /\ stack'[m + 2].k = "unwind" =>
            AimsAt(stack, g, m, stack'[m + 2], a) /\ b >= stack[stack'[m + 2].p].to
       /\ unwind_stack'.fill = b
  /\ \/ \A j \in m + 1 .. Len(stack) : g[j] >= g[m]
     \/ \A j \in m + 1 .. Len(stack) : g[j] >= a
  /\ unwind_init_ref' \in Nat
  /\ unwind_init_ref = 0 => unwind_init_ref' = 0
  /\ UnwindOK(unwind_stack')
  /\ \A x \in 1 .. unwind_stack.fill :
       x <= unwind_stack'.fill => unwind_stack'.mem[x] = unwind_stack.mem[x]
  /\ HasEntry(f) => unwind_stack'.mem[a] = EntryOf(f)
  /\ sig_stacks' = "live" =>
       /\ sig_stacks = "live" /\ f.k # "cleanup"
       /\ Len(stack') = m + 2 => stack'[m + 2].k # "cleanup"
       /\ Keeps(stack, g, stack', m, a, b, sig_restart_stack, sig_restart_stack')

LEMMA Rewrites ==
  ASSUME ScopesInv, SigStacksOK', NEW g, Match(g), NEW m, NEW a, NEW b, NEW f,
         RewritesTo(g, m, a, b, f)
  PROVE  ScopesInv'
<1> USE DEF RewritesTo
<1> DEFINE n == Len(stack)
           l == Len(stack')
<1>1. n \in Nat \ {0} /\ g \in [0 .. n -> Nat] /\ IsSequence(stack)
  BY TopIs
<1>2. /\ m \in Nat /\ m \in 0 .. n /\ l \in Nat /\ l \in {m, m + 1, m + 2} /\ l > m
      /\ l # m /\ (m = l) = FALSE /\ (l = m + 1 <=> l # m + 2) /\ l >= 1
      /\ (m > 0 => m \in 1 .. m /\ m \in 1 .. n - 1)
  BY <1>1
<1>3. m > 0 => Level(stack'[m], g[m - 1], g[m], m = l, unwind_init_ref')
  <2>1. m > 0 => Level(stack[m], g[m - 1], g[m], FALSE, unwind_init_ref')
    BY <1>2, LevelBelow
  <2>2. m > 0 => stack'[m] = stack[m]
    BY <1>2
  <2> QED BY <1>2, <2>1, <2>2
<1>4. Level(stack'[m + 1], g[m], a, m + 1 = l, unwind_init_ref')
  <2>1. CASE l = m + 1
    BY <2>1
  <2>2. CASE l # m + 1
    <3>1. (m + 1 = l) = FALSE /\ l = m + 2
      BY <1>2, <2>2
    <3> QED BY <3>1
  <2> QED BY <2>1, <2>2
<1>5. Replaces(stack, unwind_init_ref, g, stack', unwind_init_ref', m, a, b)
  <2>1. Heights(stack, unwind_init_ref, g)
    BY DEF Match
  <2>2. n \in Nat
    BY <1>1
  <2> HIDE DEF n, l
  <2> QED BY <1>2, <1>3, <1>4, <2>1, <2>2 DEF Replaces, n, l
<1>6. Follows(stack', g, m, a, b)
  <2>1. ASSUME NEW h, AimsAt(stack, g, m, h, a)
        PROVE  AimsAt(stack', g, m, h, a) /\ stack'[h.p] = stack[h.p]
    BY <2>1 DEF AimsAt
  <2>2. m > 0 => stack'[m] = stack[m]
    BY <1>2
  <2>3. f.k = "unwind" => AimsAt(stack', g, m, f, a)
    BY <2>1
  <2>4. l = m + 2 /\ stack'[m + 2].k = "unwind" =>
          AimsAt(stack', g, m, stack'[m + 2], a) /\ b >= stack'[stack'[m + 2].p].to
    BY <2>1
  <2> HIDE DEF n, l
  <2> QED BY <1>2, <2>2, <2>3, <2>4 DEF Follows, l
<1>7. unwind_stack'.fill = IF l = m THEN g[m] ELSE IF l = m + 1 THEN a ELSE b
  BY <1>2
<1>8. /\ l > m /\ HasEntry(stack'[m + 1]) => unwind_stack'.mem[a] = EntryOf(stack'[m + 1])
      /\ l = m + 2 => ~HasEntry(stack'[m + 2])
  OBVIOUS
<1>9. sig_stacks' = "live" =>
           /\ sig_stacks = "live"
           /\ l > m => stack'[m + 1].k # "cleanup"
           /\ l = m + 2 => stack'[m + 2].k # "cleanup"
           /\ Keeps(stack, g, stack', m, a, b, sig_restart_stack, sig_restart_stack')
  OBVIOUS
<1> HIDE DEF n, l
<1>10. /\ Len(stack') > m /\ HasEntry(stack'[m + 1]) => unwind_stack'.mem[a] = EntryOf(stack'[m + 1])
       /\ Len(stack') = m + 2 => ~HasEntry(stack'[m + 2])
       /\ unwind_stack'.fill = IF Len(stack') = m THEN g[m] ELSE IF Len(stack') = m + 1 THEN a ELSE b
  BY <1>7, <1>8 DEF l
<1>11. sig_stacks' = "live" =>
           /\ sig_stacks = "live"
           /\ Len(stack') > m => stack'[m + 1].k # "cleanup"
           /\ Len(stack') = m + 2 => stack'[m + 2].k # "cleanup"
           /\ Keeps(stack, g, stack', m, a, b, sig_restart_stack, sig_restart_stack')
  BY <1>9 DEF l
<1> QED BY <1>5, <1>6, <1>10, <1>11, Settles

(* The restarts of the frames that are kept, when the unwind stack is as high *)
(* as it was.                                                                *)
LEMMA KeepsAll ==
  ASSUME ScopesInv, NEW g, Match(g), sig_stacks = "live", sig_restart_stack' = sig_restart_stack,
         NEW m \in 0 .. Len(stack) - 1, \A k \in m + 1 .. Len(stack) : stack[k].k # "point"
  PROVE  Keeps(stack, g, stack', m, unwind_stack.fill, unwind_stack.fill,
               sig_restart_stack, sig_restart_stack')
<1> DEFINE n == Len(stack)
           f == unwind_stack.fill
           rs == sig_restart_stack
<1>1. n \in Nat \ {0} /\ g \in [0 .. n -> Nat] /\ g[n] = f
  BY TopIs
<1>2. ASSUME NEW i \in 1 .. rs.fill
      PROVE  rs.mem[i].p \in 1 .. m /\ f >= g[rs.mem[i].p]
  <2>1. rs.mem[i].p \in 1 .. n /\ Provides(stack[rs.mem[i].p], rs.mem[i]) /\ Stays(stack, g, rs.mem[i].p)
    BY DEF Match, RestartsHold
  <2>2. rs.mem[i].p \notin m + 1 .. n
    BY <2>1 DEF Provides
  <2>3. rs.mem[i].p \in 1 .. m /\ n \in rs.mem[i].p .. n
    BY <1>1, <2>1, <2>2
  <2> QED BY <1>1, <2>1, <2>3 DEF Stays
<1> QED BY <1>2 DEF Keeps

(* ... and when its top entry was called and taken off. *)
LEMMA KeepsPopped ==
  ASSUME ScopesInv, NEW g, Match(g), sig_stacks = "live", NEW e, NEW fs, NEW base,
         unwind_stack.fill > 0, e = unwind_stack.mem[unwind_stack.fill], CallAction(e, fs, base),
         NEW m \in 0 .. Len(stack) - 1, \A k \in m + 1 .. Len(stack) : stack[k].k # "point"
  PROVE  Keeps(stack, g, stack', m, unwind_stack.fill - 1, unwind_stack.fill - 1,
               sig_restart_stack, sig_restart_stack')
<1> DEFINE n == Len(stack)
           f == unwind_stack.fill
           rs == sig_restart_stack
<1>1. n \in Nat \ {0} /\ g \in [0 .. n -> Nat] /\ g[n] = f /\ f \in Nat
  BY TopIs
<1>2. \A i \in 1 .. rs'.fill : \E o \in 1 .. rs.fill :
           /\ rs'.mem[i] = rs.mem[o] /\ rs.mem[o].p \in 1 .. n
           /\ Provides(stack[rs.mem[o].p], rs.mem[o]) /\ g[rs.mem[o].p] < f
  BY PoppedRestarts
<1>3. ASSUME NEW i \in 1 .. rs'.fill
      PROVE  /\ \E o \in 1 .. rs.fill : rs'.mem[i] = rs.mem[o]
             /\ rs'.mem[i].p \in 1 .. m /\ f - 1 >= g[rs'.mem[i].p]
  <2>1. PICK o \in 1 .. rs.fill :
           /\ rs'.mem[i] = rs.mem[o] /\ rs.mem[o].p \in 1 .. n
           /\ Provides(stack[rs.mem[o].p], rs.mem[o]) /\ g[rs.mem[o].p] < f
    BY <1>2
  <2>2. rs.mem[o].p \notin m + 1 .. n
    BY <2>1 DEF Provides
  <2>3. rs.mem[o].p \in 1 .. m /\ g[rs.mem[o].p] \in Nat
    <3>1. rs.mem[o].p \in 0 .. n
      BY <1>1, <2>1
    <3> QED BY <1>1, <2>1, <2>2, <3>1
  <2>4. f - 1 >= g[rs.mem[o].p]
    BY <1>1, <2>1, <2>3
  <2> QED BY <2>1, <2>3, <2>4
<1> QED BY <1>3 DEF Keeps

LEMMA LeaveScopeRuns ==
  ASSUME ScopesInv, SigStacksOK', LeaveScope, EntryOf(Top).h = "user"
  PROVE  ScopesInv'
<1>1. PICK g : Match(g)
  BY DEF ScopesInv
<1> DEFINE n == Len(stack)
           u == unwind_stack
           base == u.fill - 1
           body == [k |-> "action_body", n |-> EntryOf(Top).arg, base |-> base]
<1>2. /\ HasEntry(Top) /\ unwind_stack' = Pop(u) /\ CallAction(EntryOf(Top), Below, base)
      /\ stack' = Append(Below, body) /\ UNCHANGED <<sigVars, unwind_init_ref>>
  BY DEF LeaveScope, exitVars, CallAction
<1>3. Top.k = "action"
  BY <1>2 DEF HasEntry, EntryOf
<1>4. n > 1
  BY <1>3, NotMain
<1>5. /\ n \in Nat \ {0} /\ g \in [0 .. n -> Nat] /\ g[n] = u.fill /\ u.fill \in Nat
      /\ g[n - 1] \in Nat /\ u.fill = g[n - 1] + 1 /\ u.mem[u.fill] = EntryOf(Top)
  BY <1>1, <1>2, TopIs
<1> DEFINE m == n - 1
<1>6. m \in 0 .. n - 1 /\ m > 0 /\ u.fill > 0 /\ base \in Nat /\ base = g[m]
      /\ \A j \in m + 1 .. n : j = n
  BY <1>4, <1>5
<1>7. /\ IsSequence(stack') /\ Len(stack') = m + 1
      /\ \A k \in 1 .. m : stack'[k] = stack[k]
      /\ stack'[m + 1] = body
  <2>1. IsSequence(Below) /\ Len(Below) = m /\ \A k \in 1 .. m : Below[k] = stack[k]
    BY <1>4, BelowIs
  <2> HIDE DEF m, n, body
  <2> QED BY <1>2, <2>1, AppendIs
<1>8. body.k = "action_body" /\ HasFields(body) /\ ~HasEntry(body)
  BY DEF HasFields, HasEntry
<1> HIDE DEF body
<1>9. body.k # "main" /\ Above(stack[m], body) /\ Based(stack[m], body, g[m])
  <2>1. Above(stack[m], Top)
    <3>1. m \in 1 .. n - 1 /\ m + 1 = n
      BY <1>5, <1>6
    <3> QED BY <3>1 DEF ScopesInv, Shape, Top
  <2> QED BY <1>3, <1>8, <2>1 DEF Above, Based
<1>10. Level(body, g[m], base, TRUE, unwind_init_ref')
  BY <1>6, <1>8 DEF Level, Sinks
<1>11. \A j \in m + 1 .. n : g[j] >= g[m]
  BY <1>5, <1>6
<1>12. /\ UnwindOK(unwind_stack') /\ unwind_stack'.fill = base
       /\ \A x \in 1 .. u.fill : x <= unwind_stack'.fill => unwind_stack'.mem[x] = u.mem[x]
  <2>1. UnwindOK(Pop(u)) /\ Pop(u).fill = base /\ \A x \in 1 .. base : Pop(u).mem[x] = u.mem[x]
    BY <1>6, UnwindStackIs
  <2>2. \A x \in 1 .. u.fill : x <= base => x \in 1 .. base
    BY <1>5, <1>6
  <2> QED BY <1>2, <2>1, <2>2
<1>13. sig_stacks' = "live" =>
         /\ sig_stacks = "live"
         /\ Keeps(stack, g, stack', m, base, base, sig_restart_stack, sig_restart_stack')
  <2>1. \A k \in m + 1 .. n : stack[k].k # "point"
    BY <1>3, <1>6 DEF Top
  <2>2. sig_stacks' = sig_stacks
    BY <1>2 DEF sigVars
  <2> HIDE DEF m, n
  <2> QED BY <1>1, <1>2, <1>5, <1>6, <2>1, <2>2, KeepsPopped DEF n
<1>14. unwind_init_ref' \in Nat /\ (unwind_init_ref = 0 => unwind_init_ref' = 0)
  BY <1>2 DEF ScopesInv
<1>15. Len(stack') # m + 2 /\ body.k \notin {"point", "unwind", "cleanup"}
  BY <1>5, <1>7, <1>8
<1> HIDE DEF m, base
<1>16. RewritesTo(g, m, base, base, body)
  <2>1. m \in 0 .. Len(stack) - 1 /\ base \in Nat /\ (body.k = "main" <=> m = 0)
    BY <1>6, <1>9
  <2>2. \/ \A j \in m + 1 .. Len(stack) : g[j] >= g[m]
        \/ \A j \in m + 1 .. Len(stack) : g[j] >= base
    BY <1>11
  <2>3. IsSequence(stack') /\ (Len(stack') = m + 1 \/ Len(stack') = m + 2)
        /\ (\A k \in 1 .. m : stack'[k] = stack[k]) /\ stack'[m + 1] = body
    BY <1>7
  <2>4. (m > 0 => Above(stack[m], body) /\ Based(stack[m], body, g[m]))
      /\ (body.k = "point" => body.to = g[m])
      /\ (body.k = "unwind" => AimsAt(stack, g, m, body, base))
    BY <1>9, <1>8, <1>15
  <2>5. ~(Len(stack') = m + 2)
    BY <1>15
  <2>6. Level(body, g[m], base, TRUE, unwind_init_ref') /\ unwind_stack'.fill = base
    BY <1>10, <1>12
  <2> QED BY <1>8, <1>12, <1>13, <1>14, <1>15, <2>1, <2>2, <2>3, <2>4, <2>5, <2>6 DEF RewritesTo
<1> QED BY <1>1, <1>16, Rewrites

(* f takes the place of the frame on top, and may call a function.           *)
ChangesTop(g, f, calls, c) ==
  /\ f.k = Top.k /\ f.k \notin {"main", "action_body"} /\ HasFields(f)
  /\ ~calls => /\ stack' = [stack EXCEPT ![Len(stack)] = f]
               /\ Level(f, g[Len(stack) - 1], unwind_stack'.fill, TRUE, unwind_init_ref')
  /\ calls => /\ stack' = Append([stack EXCEPT ![Len(stack)] = f], c)
              /\ Level(f, g[Len(stack) - 1], unwind_stack'.fill, FALSE, unwind_init_ref')
              /\ c.k \in {"action_body", "handler_body", "catchall", "cleanup"} /\ HasFields(c)
              /\ Above(f, c) /\ Based(f, c, unwind_stack'.fill)
  /\ f.k = "point" => f.to = g[Len(stack) - 1]
  /\ f.k = "unwind" => f.p = Top.p /\ unwind_stack'.fill >= stack[Top.p].to
  /\ HasEntry(f) => unwind_stack'.mem[unwind_stack'.fill] = EntryOf(f)
  /\ \/ unwind_stack.fill >= g[Len(stack) - 1]
     \/ unwind_stack.fill >= unwind_stack'.fill
  /\ unwind_init_ref' \in Nat
  /\ unwind_init_ref = 0 => unwind_init_ref' = 0
  /\ UnwindOK(unwind_stack')
  /\ \A x \in 1 .. unwind_stack.fill :
       x <= unwind_stack'.fill => unwind_stack'.mem[x] = unwind_stack.mem[x]
  /\ sig_stacks' = "live" =>
       /\ sig_stacks = "live" /\ f.k # "cleanup"
       /\ calls => c.k # "cleanup"
       /\ Keeps(stack, g, stack', Len(stack) - 1, unwind_stack'.fill, unwind_stack'.fill,
                sig_restart_stack, sig_restart_stack')

LEMMA TopChanges ==
  ASSUME ScopesInv, SigStacksOK', NEW g, Match(g), NEW f, NEW calls \in BOOLEAN, NEW c,
         ChangesTop(g, f, calls, c)
  PROVE  ScopesInv'
<1> DEFINE n == Len(stack)
           m == n - 1
           a == unwind_stack'.fill
<1>1. /\ IsSequence(stack) /\ n \in Nat \ {0} /\ g \in [0 .. n -> Nat] /\ g[n] = unwind_stack.fill
  BY TopIs
<1>2. /\ m \in 0 .. n - 1 /\ m \in Nat /\ m + 1 = n /\ n \in 1 .. n /\ n # m + 2
      /\ \A k \in 1 .. m : k \in 1 .. n /\ k # n
      /\ \A j \in m + 1 .. n : j = n
      /\ n + 1 = m + 2 /\ n + 1 # n
  BY <1>1
<1>3. a \in Nat
  BY LengthIs DEF UnwindOK, ChangesTop
<1> DEFINE q == [stack EXCEPT ![n] = f]
<1>4. /\ IsSequence(q) /\ Len(q) = n /\ q[n] = f
      /\ \A k \in 1 .. m : q[k] = stack[k]
  <2>1. n \in 1 .. Len(stack) /\ 1 .. n = 1 .. Len(stack)
    BY <1>2
  <2> HIDE DEF m, n
  <2>2. /\ IsSequence(q) /\ Len(q) = Len(stack) /\ q[n] = f
        /\ \A k \in 1 .. Len(stack) : k # n => q[k] = stack[k]
    BY <1>1, <2>1, ReplaceIs
  <2>3. Len(stack) = n
    BY DEF n
  <2> QED BY <1>2, <2>1, <2>2, <2>3
<1>5. /\ IsSequence(stack')
      /\ \A k \in 1 .. m : stack'[k] = stack[k]
      /\ stack'[m + 1] = f
      /\ ~calls => Len(stack') = n
      /\ calls => Len(stack') = n + 1 /\ stack'[m + 2] = c
  <2> HIDE DEF m
  <2>1. CASE ~calls
    <3>1. stack' = q
      BY <2>1 DEF ChangesTop
    <3> QED BY <1>2, <1>4, <2>1, <3>1
  <2>2. CASE calls
    <3>1. stack' = Append(q, c)
      BY <2>2 DEF ChangesTop
    <3> HIDE DEF q, n
    <3>2. /\ IsSequence(stack') /\ Len(stack') = n + 1 /\ stack'[n + 1] = c
          /\ \A k \in 1 .. n : stack'[k] = q[k]
      BY <1>4, <3>1, AppendIs
    <3> QED BY <1>2, <1>4, <2>2, <3>2
  <2> QED BY <2>1, <2>2
<1> HIDE DEF q
<1>6. /\ f.k = "main" <=> m = 0
      /\ m > 0 => Above(stack[m], f) /\ Based(stack[m], f, g[m])
  <2>1. f.k = stack[m + 1].k /\ f.k # "action_body"
    BY <1>2 DEF ChangesTop, Top
  <2>2. m \in 0 .. Len(stack) - 1
    BY <1>2
  <2> HIDE DEF m, n
  <2> QED BY <2>1, <2>2, SameKind
<1>7. f.k = "unwind" => AimsAt(stack, g, m, f, a)
  <2> SUFFICES ASSUME f.k = "unwind" PROVE AimsAt(stack, g, m, f, a)
    OBVIOUS
  <2> DEFINE p == f.p
  <2>1. p = Top.p /\ Top.k = "unwind" /\ a >= stack[p].to
    BY DEF ChangesTop
  <2>2. /\ p \in 1 .. n - 1 /\ stack[p].k = "point"
        /\ \A j \in p .. n : g[j] >= stack[p].to
    BY <1>2, <2>1 DEF Match, Targets, Top
  <2> HIDE DEF n, p, a
  <2>3. \A j \in p .. m : j \in p .. n
    BY <1>1, <2>2
  <2> QED BY <2>1, <2>2, <2>3 DEF AimsAt, p
<1>8. \/ \A j \in m + 1 .. n : g[j] >= g[m]
      \/ \A j \in m + 1 .. n : g[j] >= a
  <2>1. g[n] >= g[m] \/ g[n] >= a
    BY <1>1 DEF ChangesTop
  <2> HIDE DEF m, n, a
  <2> QED BY <1>2, <2>1
<1>9. calls => /\ Level(c, a, a, TRUE, unwind_init_ref') /\ c.k \notin {"point", "main", "unwind"}
               /\ ~HasEntry(c)
  <2> SUFFICES ASSUME calls PROVE /\ Level(c, a, a, TRUE, unwind_init_ref')
                                  /\ c.k \notin {"point", "main", "unwind"} /\ ~HasEntry(c)
    OBVIOUS
  <2>1. c.k \in {"action_body", "handler_body", "catchall", "cleanup"}
    BY DEF ChangesTop
  <2>2. ~HasEntry(c) /\ c.k # "unwind"
    BY <2>1 DEF HasEntry
  <2> HIDE DEF a
  <2> QED BY <1>3, <2>1, <2>2, LevelOf
<1>10. calls <=> Len(stack') = m + 2
  BY <1>2, <1>5
<1>11. ~calls <=> Len(stack') = m + 1
  BY <1>2, <1>5
<1>12. RewritesTo(g, m, a, a, f)
  <2>1. /\ f.k = "point" => f.to = g[m]
        /\ HasFields(f) /\ (HasEntry(f) => unwind_stack'.mem[a] = EntryOf(f))
        /\ unwind_init_ref' \in Nat
        /\ unwind_init_ref = 0 => unwind_init_ref' = 0
        /\ UnwindOK(unwind_stack')
        /\ \A x \in 1 .. unwind_stack.fill :
             x <= unwind_stack'.fill => unwind_stack'.mem[x] = unwind_stack.mem[x]
    BY DEF ChangesTop
  <2>2. ~calls => Level(f, g[m], a, TRUE, unwind_init_ref')
    BY DEF ChangesTop
  <2>3. calls => /\ Level(f, g[m], a, FALSE, unwind_init_ref') /\ HasFields(c)
                 /\ Above(f, c) /\ Based(f, c, a)
    BY DEF ChangesTop
  <2>4. sig_stacks' = "live" =>
          /\ sig_stacks = "live" /\ f.k # "cleanup"
          /\ calls => c.k # "cleanup"
          /\ Keeps(stack, g, stack', m, a, a, sig_restart_stack, sig_restart_stack')
    BY DEF ChangesTop
  <2>5. /\ m \in 0 .. Len(stack) - 1 /\ m + 1 .. n = m + 1 .. Len(stack)
        /\ Len(stack') = m + 1 \/ Len(stack') = m + 2
    BY <1>2, <1>10, <1>11
  <2>6. unwind_stack'.fill = a
    OBVIOUS
  <2> HIDE DEF m, n, a
  <2>7. Len(stack') = m + 2 =>
         /\ Level(f, g[m], a, FALSE, unwind_init_ref')
         /\ Above(f, stack'[m + 2]) /\ Based(f, stack'[m + 2], a)
         /\ Level(stack'[m + 2], a, a, TRUE, unwind_init_ref')
         /\ stack'[m + 2].k # "point" /\ stack'[m + 2].k # "main"
         /\ HasFields(stack'[m + 2]) /\ ~HasEntry(stack'[m + 2])
         /\ stack'[m + 2].k # "unwind"
    BY <1>5, <1>9, <1>10, <2>3
  <2>8. sig_stacks' = "live" => (Len(stack') = m + 2 => stack'[m + 2].k # "cleanup")
    BY <1>5, <1>10, <2>4
  <2>9. \/ \A j \in m + 1 .. Len(stack) : g[j] >= g[m]
        \/ \A j \in m + 1 .. Len(stack) : g[j] >= a
    BY <1>8, <2>5
  <2>10. Len(stack') = m + 1 => Level(f, g[m], a, TRUE, unwind_init_ref')
    BY <1>11, <2>2
  <2> QED BY <1>3, <1>5, <1>6, <1>7, <2>1, <2>4, <2>5, <2>6, <2>7, <2>8, <2>9, <2>10 DEF RewritesTo
<1> QED BY <1>12, Rewrites

LEMMA TopFields ==
  ASSUME ScopesInv
  PROVE  HasFields(Top)
<1> DEFINE n == Len(stack)
<1>1. n \in Nat /\ n >= 1
  BY LengthIs DEF ScopesInv, Shape
<1>2. n \in 1 .. n
  BY <1>1
<1> QED BY <1>2 DEF ScopesInv, Shape, Top

(* catchall_handler goes on. *)
LEMMA StageScopes ==
  ASSUME ScopesInv, SigStacksOK', Top.k = "catchall", Top.stage # "cleaned",
         NEW s, s # "cleaned", stack' = GoTo(s),
         UNCHANGED <<unwind_stack, sig_restart_stack, sig_stacks, unwind_init_ref>>
  PROVE  ScopesInv'
<1>1. PICK g : Match(g)
  BY DEF ScopesInv
<1> DEFINE f == [Top EXCEPT !.stage = s]
<1>2. f.k = "catchall" /\ f.stage = s /\ HasFields(f)
  BY TopFields DEF HasFields
<1>3. stack' = [stack EXCEPT ![Len(stack)] = f]
  BY DEF GoTo, Top
<1> HIDE DEF f
<1>4. /\ Len(stack) \in Nat \ {0} /\ g[Len(stack) - 1] \in Nat
      /\ Level(Top, g[Len(stack) - 1], unwind_stack.fill, TRUE, unwind_init_ref)
  BY <1>1, TopIs
<1>5. unwind_stack.fill = g[Len(stack) - 1]
  BY <1>4 DEF Level, Sinks, HasEntry
<1>6. ~HasEntry(f) /\ Level(f, g[Len(stack) - 1], unwind_stack.fill, TRUE, unwind_init_ref)
  BY <1>2, <1>4, <1>5 DEF Level, Sinks, HasEntry
<1>7. UnwindOK(unwind_stack) /\ unwind_init_ref \in Nat
  BY DEF ScopesInv
<1>8. sig_stacks' = "live" =>
        Keeps(stack, g, stack', Len(stack) - 1, unwind_stack'.fill, unwind_stack'.fill,
              sig_restart_stack, sig_restart_stack')
  <2> SUFFICES ASSUME sig_stacks' = "live"
               PROVE  Keeps(stack, g, stack', Len(stack) - 1, unwind_stack'.fill, unwind_stack'.fill,
                            sig_restart_stack, sig_restart_stack')
    OBVIOUS
  <2> DEFINE m == Len(stack) - 1
  <2>1. m \in 0 .. Len(stack) - 1 /\ \A k \in m + 1 .. Len(stack) : k = Len(stack)
    BY <1>4
  <2>2. \A k \in m + 1 .. Len(stack) : stack[k].k # "point"
    BY <2>1 DEF Top
  <2> HIDE DEF m
  <2>3. Keeps(stack, g, stack', m, unwind_stack'.fill, unwind_stack'.fill,
              sig_restart_stack, sig_restart_stack')
    BY <1>1, <2>1, <2>2, KeepsAll
  <2> QED BY <2>3 DEF m
<1>9. ChangesTop(g, f, FALSE, f)
  <2>1. unwind_stack.fill >= unwind_stack'.fill
    BY <1>4, <1>5
  <2> QED BY <1>2, <1>3, <1>6, <1>7, <1>8, <2>1 DEF ChangesTop
<1> QED BY <1>1, <1>9, TopChanges

(* sig_cleanup, called by the catch-all handler. *)
LEMMA CatchallCleansUpScopes ==
  ASSUME ScopesInv, SigStacksOK', CatchallCleansUp
  PROVE  ScopesInv'
<1>1. PICK g : Match(g)
  BY DEF ScopesInv
<1> DEFINE f == [Top EXCEPT !.stage = "cleaned"]
           c == [k |-> "cleanup"]
<1>2. /\ Top.k = "catchall" /\ Top.stage = "asked" /\ sig_stacks' = "freed"
      /\ unwind_init_ref' = IF unwind_init_ref > 0 THEN unwind_init_ref - 1 ELSE 0
      /\ stack' = Append(GoTo("cleaned"), c) /\ unwind_stack' = unwind_stack
  BY DEF CatchallCleansUp, SigCleanup, AtStage
<1>3. f.k = "catchall" /\ f.stage = "cleaned" /\ HasFields(f)
  BY <1>2, TopFields DEF HasFields
<1>4. stack' = Append([stack EXCEPT ![Len(stack)] = f], c)
  BY <1>2 DEF GoTo, Top
<1>5. c.k = "cleanup" /\ HasFields(c)
  BY DEF HasFields
<1> HIDE DEF f, c
<1>6. /\ Len(stack) \in Nat \ {0} /\ g[Len(stack) - 1] \in Nat
      /\ Level(Top, g[Len(stack) - 1], unwind_stack.fill, TRUE, unwind_init_ref)
  BY <1>1, TopIs
<1>7. unwind_stack.fill = g[Len(stack) - 1]
  BY <1>2, <1>6 DEF Level, Sinks, HasEntry
<1>8. ~HasEntry(f) /\ Level(f, g[Len(stack) - 1], unwind_stack.fill, FALSE, unwind_init_ref')
  BY <1>3, <1>6, <1>7 DEF Level, Sinks, HasEntry
<1>9. Above(f, c) /\ Based(f, c, unwind_stack.fill)
  BY <1>3, <1>5 DEF Above, Based
<1>10. UnwindOK(unwind_stack) /\ unwind_init_ref' \in Nat /\ (unwind_init_ref = 0 => unwind_init_ref' = 0)
  BY <1>2 DEF ScopesInv
<1>11. ChangesTop(g, f, TRUE, c)
  <2>1. unwind_stack.fill >= unwind_stack'.fill
    BY <1>2, <1>6, <1>7
  <2> QED BY <1>2, <1>3, <1>4, <1>5, <1>8, <1>9, <1>10, <2>1 DEF ChangesTop
<1> QED BY <1>1, <1>11, TopChanges

(* _sig_send calls the next handler. *)
LEMMA SendCallsScopes ==
  ASSUME ScopesInv, SigStacksOK', SendNext, Candidates(Top) # {}
  PROVE  ScopesInv'
<1>1. PICK g : Match(g)
  BY DEF ScopesInv
<1>2. PICK j : j = Max(Candidates(Top))
  OBVIOUS
<1> DEFINE f == [Top EXCEPT !.i = j - 1]
           c == CalledFrame(sig_handler_stack.mem[j])
<1>3. /\ Top.k = "send" /\ stack' = Append([stack EXCEPT ![Len(stack)].i = j - 1], c)
      /\ UNCHANGED <<unwind_stack, sig_restart_stack, sig_stacks, unwind_init_ref>>
  BY <1>2 DEF SendNext, sigVars, exitVars
<1>4. f.k = "send" /\ HasFields(f)
  BY <1>3, TopFields DEF HasFields
<1>5. stack' = Append([stack EXCEPT ![Len(stack)] = f], c)
  BY <1>3 DEF Top
<1>6. c.k \in {"handler_body", "catchall"} /\ (c.k = "catchall" => c.stage = "report") /\ HasFields(c)
  BY DEF CalledFrame, HasFields
<1> HIDE DEF f, c
<1>7. /\ Len(stack) \in Nat \ {0} /\ g[Len(stack) - 1] \in Nat
      /\ Level(Top, g[Len(stack) - 1], unwind_stack.fill, TRUE, unwind_init_ref)
  BY <1>1, TopIs
<1>8. unwind_stack.fill = g[Len(stack) - 1]
  BY <1>3, <1>7 DEF Level, Sinks, HasEntry
<1>9. ~HasEntry(f) /\ Level(f, g[Len(stack) - 1], unwind_stack.fill, FALSE, unwind_init_ref)
  BY <1>4, <1>7, <1>8 DEF Level, Sinks, HasEntry
<1>10. Above(f, c) /\ Based(f, c, unwind_stack.fill)
  BY <1>4, <1>6 DEF Above, Based
<1>11. UnwindOK(unwind_stack) /\ unwind_init_ref \in Nat
  BY DEF ScopesInv
<1>12. sig_stacks' = "live" =>
        Keeps(stack, g, stack', Len(stack) - 1, unwind_stack'.fill, unwind_stack'.fill,
              sig_restart_stack, sig_restart_stack')
  <2> SUFFICES ASSUME sig_stacks' = "live"
               PROVE  Keeps(stack, g, stack', Len(stack) - 1, unwind_stack'.fill, unwind_stack'.fill,
                            sig_restart_stack, sig_restart_stack')
    OBVIOUS
  <2> DEFINE m == Len(stack) - 1
  <2>1. m \in 0 .. Len(stack) - 1 /\ \A k \in m + 1 .. Len(stack) : k = Len(stack)
    BY <1>7
  <2>2. \A k \in m + 1 .. Len(stack) : stack[k].k # "point"
    BY <1>3, <2>1 DEF Top
  <2> HIDE DEF m
  <2>3. Keeps(stack, g, stack', m, unwind_stack'.fill, unwind_stack'.fill,
              sig_restart_stack, sig_restart_stack')
    BY <1>1, <1>3, <2>1, <2>2, KeepsAll
  <2> QED BY <2>3 DEF m
<1>13. ChangesTop(g, f, TRUE, c)
  <2>1. unwind_stack.fill >= unwind_stack'.fill
    BY <1>3, <1>7, <1>8
  <2> QED BY <1>3, <1>4, <1>5, <1>6, <1>9, <1>10, <1>11, <1>12, <2>1 DEF ChangesTop
<1> QED BY <1>1, <1>13, TopChanges

LEMMA SameTop ==
  ASSUME ScopesInv
  PROVE  [stack EXCEPT ![Len(stack)] = Top] = stack
<1>1. stack \in Seq(Range(stack))
  BY DEF ScopesInv, Shape, IsSequence
<1> DEFINE S == Range(stack)
<1> HIDE DEF S
<1>2. stack \in Seq(S)
  BY <1>1 DEF S
<1> QED BY <1>2 DEF Top

(* unwind_cleanup calls the top entry. *)
LEMMA CleanupNextScopes ==
  ASSUME ScopesInv, SigStacksOK', CleanupNext
  PROVE  ScopesInv'
<1>1. PICK g : Match(g)
  BY DEF ScopesInv
<1> DEFINE u == unwind_stack
           e == u.mem[u.fill]
           c == [k |-> "action_body", n |-> e.arg, base |-> u.fill - 1]
<1>2. /\ Top.k = "cleanup" /\ unwind_init_ref = 0 /\ u.fill > 0
      /\ CallAction(e, stack, u.fill - 1) /\ UNCHANGED unwind_init_ref
      /\ unwind_stack' = IF e.h = "user" THEN u ELSE Pop(u)
  BY DEF CleanupNext, exitVars
<1>3. /\ Len(stack) \in Nat \ {0} /\ g[Len(stack) - 1] \in Nat /\ u.fill \in Nat
      /\ Level(Top, g[Len(stack) - 1], u.fill, TRUE, unwind_init_ref)
  BY <1>1, TopIs
<1>4. sig_stacks # "live" /\ sig_stacks' # "live"
  <2>1. Len(stack) \in 1 .. Len(stack)
    BY <1>3
  <2>2. sig_stacks # "live"
    BY <1>2, <2>1 DEF ScopesInv, Top
  <2> QED BY <1>2, <2>2 DEF CallAction, sigVars
<1>5. u.fill <= g[Len(stack) - 1]
  BY <1>2, <1>3 DEF Level, Sinks
<1>6. HasFields(Top) /\ ~HasEntry(Top) /\ UnwindOK(u)
  BY <1>2, TopFields DEF HasEntry, ScopesInv
<1>7. CASE e.h = "user"
  <2>1. stack' = Append(stack, c) /\ unwind_stack' = u
    BY <1>2, <1>7 DEF CallAction
  <2>2. /\ c.k = "action_body" /\ HasFields(c)
        /\ c.base \in Nat /\ c.base + 1 = u.fill
    BY <1>2, <1>3 DEF HasFields
  <2> HIDE DEF c
  <2>3. stack' = Append([stack EXCEPT ![Len(stack)] = Top], c)
    BY <2>1, SameTop
  <2>4. Level(Top, g[Len(stack) - 1], u.fill, FALSE, unwind_init_ref)
    BY <1>2, <1>5 DEF Level, Sinks, HasEntry
  <2>5. Above(Top, c) /\ Based(Top, c, u.fill)
    BY <1>2, <2>2 DEF Above, Based
  <2>6. ChangesTop(g, Top, TRUE, c)
    <3>1. u.fill >= unwind_stack'.fill /\ unwind_init_ref' \in Nat
      BY <1>2, <1>3, <2>1
    <3> QED BY <1>2, <1>4, <1>6, <2>1, <2>2, <2>3, <2>4, <2>5, <3>1 DEF ChangesTop
  <2> QED BY <1>1, <2>6, TopChanges
<1>8. CASE e.h # "user"
  <2>1. stack' = stack /\ unwind_stack' = Pop(u)
    BY <1>2, <1>8 DEF CallAction
  <2>2. stack' = [stack EXCEPT ![Len(stack)] = Top]
    BY <2>1, SameTop
  <2>3. /\ UnwindOK(unwind_stack') /\ unwind_stack'.fill = u.fill - 1
        /\ \A x \in 1 .. u.fill - 1 : unwind_stack'.mem[x] = u.mem[x]
    BY <1>2, <2>1, UnwindStackIs
  <2>4. \A x \in 1 .. u.fill : x <= unwind_stack'.fill => unwind_stack'.mem[x] = u.mem[x]
    <3>1. \A x \in 1 .. u.fill : x <= u.fill - 1 => x \in 1 .. u.fill - 1
      BY <1>3
    <3> QED BY <2>3, <3>1
  <2>5. Level(Top, g[Len(stack) - 1], unwind_stack'.fill, TRUE, unwind_init_ref)
    <3>1. u.fill - 1 <= g[Len(stack) - 1]
      BY <1>3, <1>5
    <3> QED BY <1>2, <2>3, <3>1 DEF Level, Sinks, HasEntry
  <2>6. ChangesTop(g, Top, FALSE, Top)
    <3>1. u.fill >= unwind_stack'.fill /\ unwind_init_ref' \in Nat
      BY <1>2, <1>3, <2>3
    <3> QED BY <1>2, <1>4, <1>6, <2>2, <2>3, <2>4, <2>5, <3>1 DEF ChangesTop
  <2> QED BY <1>1, <2>6, TopChanges
<1> QED BY <1>7, <1>8

(* An _unwind goes to a point below it that it does not reach below.         *)
LEMMA TargetIs ==
  ASSUME ScopesInv, NEW g, Match(g), Top.k = "unwind"
  PROVE  /\ Top.p \in 1 .. Len(stack) - 1 /\ stack[Top.p].k = "point"
         /\ stack[Top.p].to = g[Top.p - 1] /\ stack[Top.p].to \in Nat
         /\ \A j \in Top.p .. Len(stack) : g[j] >= stack[Top.p].to
         /\ Top.i = unwind_stack.fill /\ unwind_stack.fill <= g[Len(stack) - 1]
         /\ unwind_stack.fill >= stack[Top.p].to
<1> DEFINE n == Len(stack)
           p == Top.p
<1>1. /\ n \in Nat \ {0} /\ g \in [0 .. n -> Nat] /\ g[n] = unwind_stack.fill
      /\ Level(Top, g[n - 1], unwind_stack.fill, TRUE, unwind_init_ref)
  BY TopIs
<1>2. n \in 1 .. n
  BY <1>1
<1>3. /\ p \in 1 .. n - 1 /\ stack[p].k = "point"
      /\ \A j \in p .. n : g[j] >= stack[p].to
  BY <1>2 DEF Match, Targets, Top
<1>4. p \in 1 .. n /\ p - 1 \in 0 .. n /\ n \in p .. n
  <2> HIDE DEF n, p
  <2> QED BY <1>1, <1>3
<1>5. stack[p].to = g[p - 1] /\ g[p - 1] \in Nat
  BY <1>1, <1>3, <1>4 DEF Match, Heights
<1>6. Top.i = unwind_stack.fill /\ unwind_stack.fill <= g[n - 1]
  BY <1>1 DEF Level
<1>7. unwind_stack.fill >= stack[p].to
  BY <1>1, <1>3, <1>4
<1> QED BY <1>3, <1>5, <1>6, <1>7

(* _unwind calls the top entry. *)
LEMMA UnwindNextScopes ==
  ASSUME ScopesInv, SigStacksOK', UnwindNext
  PROVE  ScopesInv'
<1>1. PICK g : Match(g)
  BY DEF ScopesInv
<1> DEFINE u == unwind_stack
           e == u.mem[u.fill]
           f == [Top EXCEPT !.i = @ - 1]
           fs == [stack EXCEPT ![Len(stack)] = f]
           c == [k |-> "action_body", n |-> e.arg, base |-> u.fill - 1]
<1>2. /\ Top.k = "unwind" /\ Top.i > stack[Top.p].to
      /\ unwind_stack' = Pop(u) /\ UNCHANGED unwind_init_ref
  BY DEF UnwindNext, UnwindMore, exitVars
<1>3. /\ stack[Top.p].to \in Nat /\ Top.i = u.fill /\ u.fill <= g[Len(stack) - 1]
  BY <1>1, <1>2, TargetIs
<1>4. CallAction(e, fs, u.fill - 1)
  BY <1>3 DEF UnwindNext, Top
<1>5. /\ Len(stack) \in Nat \ {0} /\ g[Len(stack) - 1] \in Nat /\ u.fill \in Nat
  BY <1>1, TopIs
<1>6. u.fill > 0 /\ u.fill - 1 \in Nat /\ u.fill - 1 >= stack[Top.p].to /\ u.fill >= u.fill - 1
      /\ u.fill - 1 <= g[Len(stack) - 1]
  BY <1>2, <1>3, <1>5
<1>7. f.k = "unwind" /\ HasFields(f) /\ f.i = u.fill - 1 /\ f.p = Top.p
  BY <1>2, <1>3, TopFields DEF HasFields
<1>8. /\ UnwindOK(unwind_stack') /\ unwind_stack'.fill = u.fill - 1
      /\ \A x \in 1 .. u.fill : x <= unwind_stack'.fill => unwind_stack'.mem[x] = u.mem[x]
  <2>1. UnwindOK(Pop(u)) /\ Pop(u).fill = u.fill - 1 /\ \A x \in 1 .. u.fill - 1 : Pop(u).mem[x] = u.mem[x]
    BY <1>6, UnwindStackIs
  <2>2. \A x \in 1 .. u.fill : x <= u.fill - 1 => x \in 1 .. u.fill - 1
    BY <1>5
  <2> QED BY <1>2, <2>1, <2>2
<1>9. sig_stacks' = "live" =>
        /\ sig_stacks = "live"
        /\ Keeps(stack, g, stack', Len(stack) - 1, unwind_stack'.fill, unwind_stack'.fill,
                 sig_restart_stack, sig_restart_stack')
  <2> SUFFICES ASSUME sig_stacks' = "live"
               PROVE  /\ sig_stacks = "live"
                      /\ Keeps(stack, g, stack', Len(stack) - 1, unwind_stack'.fill,
                               unwind_stack'.fill, sig_restart_stack, sig_restart_stack')
    OBVIOUS
  <2> DEFINE m == Len(stack) - 1
  <2>1. m \in 0 .. Len(stack) - 1 /\ \A k \in m + 1 .. Len(stack) : k = Len(stack)
    BY <1>5
  <2>2. \A k \in m + 1 .. Len(stack) : stack[k].k # "point"
    BY <1>2, <2>1 DEF Top
  <2>3. sig_stacks = "live"
    BY <1>4 DEF CallAction, sigVars
  <2> HIDE DEF m, f, fs, e
  <2>4. Keeps(stack, g, stack', m, u.fill - 1, u.fill - 1, sig_restart_stack, sig_restart_stack')
    BY <1>1, <1>4, <1>6, <2>1, <2>2, <2>3, KeepsPopped DEF e
  <2> QED BY <1>8, <2>3, <2>4 DEF m
<1>10. ~HasEntry(f)
  BY <1>7 DEF HasEntry
<1>11. unwind_init_ref' \in Nat /\ (unwind_init_ref = 0 => unwind_init_ref' = 0)
  BY <1>2 DEF ScopesInv
<1>12. Level(f, g[Len(stack) - 1], unwind_stack'.fill, TRUE, unwind_init_ref')
       /\ Level(f, g[Len(stack) - 1], unwind_stack'.fill, FALSE, unwind_init_ref')
  BY <1>6, <1>7, <1>8 DEF Level, Sinks, HasEntry
<1> HIDE DEF f, e
<1>13. CASE e.h = "user"
  <2>1. stack' = Append([stack EXCEPT ![Len(stack)] = f], c)
    BY <1>4, <1>13 DEF CallAction
  <2>2. c.k = "action_body" /\ HasFields(c) /\ c.base = u.fill - 1
    BY DEF HasFields
  <2> HIDE DEF c
  <2>3. Above(f, c) /\ Based(f, c, unwind_stack'.fill)
    BY <1>7, <1>8, <2>2 DEF Above, Based
  <2>4. ChangesTop(g, f, TRUE, c)
    BY <1>2, <1>6, <1>7, <1>8, <1>9, <1>10, <1>11, <1>12, <2>1, <2>2, <2>3 DEF ChangesTop
  <2> QED BY <1>1, <2>4, TopChanges
<1>14. CASE e.h # "user"
  <2>1. stack' = [stack EXCEPT ![Len(stack)] = f]
    BY <1>4, <1>14 DEF CallAction
  <2>2. ChangesTop(g, f, FALSE, f)
    BY <1>2, <1>6, <1>7, <1>8, <1>9, <1>10, <1>11, <1>12, <2>1 DEF ChangesTop
  <2> QED BY <1>1, <2>2, TopChanges
<1> QED BY <1>13, <1>14

(* An autopop restart is provided once more. *)
LEMMA ReprovideRestartScopes ==
  ASSUME ScopesInv, SigStacksOK', ReprovideRestart
  PROVE  ScopesInv'
<1>1. PICK g : Match(g)
  BY DEF ScopesInv
<1> DEFINE n == Len(stack)
           u == unwind_stack
           rs == sig_restart_stack
           id == NextId(rs, 0)
           f == [Top EXCEPT !.returned = FALSE, !.id = id]
           e == [sig |-> Top.sig, rst |-> Top.rst, p |-> n, id |-> id]
<1>2. /\ Top.k = "point" /\ Top.mode = "autopop" /\ Top.returned /\ sig_stacks = "live"
      /\ rs' = Push(rs, e) /\ unwind_stack' = Push(u, [h |-> "rm_restart", arg |-> id])
      /\ stack' = [stack EXCEPT ![n].returned = FALSE, ![n].id = id]
      /\ UNCHANGED <<unwind_init_ref, sig_stacks>>
  BY DEF ReprovideRestart, PushRestart, exitVars
<1>3. /\ f.k = "point" /\ HasFields(f) /\ f.to = Top.to /\ f.id = id /\ f.mode = "autopop"
      /\ f.returned = FALSE
  BY <1>2, TopFields DEF HasFields
<1>4. /\ IsSequence(stack) /\ n \in Nat \ {0} /\ g[n - 1] \in Nat /\ u.fill \in Nat
      /\ g \in [0 .. n -> Nat] /\ g[n] = u.fill
      /\ Level(Top, g[n - 1], u.fill, TRUE, unwind_init_ref) /\ Top.to = g[n - 1]
  BY <1>1, <1>2, TopIs
<1>5. stack' = [stack EXCEPT ![n] = f]
  <2>1. n \in DOMAIN stack
    <3>1. DOMAIN stack = 1 .. n
      BY <1>4 DEF IsSequence
    <3> QED BY <1>4, <3>1
  <2> HIDE DEF n
  <2> QED BY <1>2, <2>1 DEF Top, n
<1>6. HasEntry(f) /\ EntryOf(f) = [h |-> "rm_restart", arg |-> id] /\ Provides(f, e) /\ e.p = n
  BY <1>3 DEF HasEntry, EntryOf, Provides
<1> HIDE DEF f, e
<1>7. u.fill = g[n - 1]
  BY <1>2, <1>4 DEF Level, Sinks, HasEntry
<1>8. /\ UnwindOK(unwind_stack') /\ unwind_stack'.fill = u.fill + 1
      /\ \A x \in 1 .. u.fill : unwind_stack'.mem[x] = u.mem[x]
      /\ unwind_stack'.mem[u.fill + 1] = EntryOf(f)
  BY <1>2, <1>6, PushUnwind DEF ScopesInv
<1>9. Level(f, g[n - 1], u.fill + 1, TRUE, unwind_init_ref')
  BY <1>3, <1>6, <1>7 DEF Level, Sinks
<1>10. Keeps(stack, g, stack', n - 1, u.fill + 1, u.fill + 1, rs, rs')
  <2>1. rs.fill \in Nat /\ 1 .. rs.fill \subseteq DOMAIN rs.mem
    BY DEF ScopesInv, SigStacksOK, StackOK, WithinAlloc
  <2>2. /\ rs'.fill = rs.fill + 1 /\ rs'.mem[rs.fill + 1] = e
        /\ \A i \in 1 .. rs.fill : rs'.mem[i] = rs.mem[i]
    BY <1>2, <2>1 DEF Push
  <2>3. Len(stack') = n /\ stack'[n] = f
    <3>1. n \in 1 .. n
      BY <1>4
    <3> QED BY <1>4, <1>5, <3>1, ReplaceIs
  <2>4. ASSUME NEW i \in 1 .. rs.fill
        PROVE  rs.mem[i].p \in 1 .. n - 1 /\ u.fill + 1 >= g[rs.mem[i].p]
    <3> DEFINE p == rs.mem[i].p
    <3>1. p \in 1 .. n /\ Provides(stack[p], rs.mem[i]) /\ Stays(stack, g, p)
      BY <1>1, <1>2 DEF Match, RestartsHold
    <3>2. p # n
      BY <1>2, <3>1 DEF Provides, Top
    <3> HIDE DEF p, n
    <3>3. p \in 1 .. n - 1 /\ n \in p .. n /\ p \in 0 .. n
      BY <1>4, <3>1, <3>2
    <3>4. g[n] >= g[p] /\ g[p] \in Nat
      BY <1>4, <3>1, <3>3 DEF Stays, n
    <3> QED BY <1>4, <3>3, <3>4 DEF p
  <2>5. n = n - 1 + 1 /\ ~(n = n - 1 + 2)
    BY <1>4
  <2>6. ASSUME NEW i \in 1 .. rs'.fill
        PROVE  \/ /\ \E o \in 1 .. rs.fill : rs'.mem[i] = rs.mem[o]
                  /\ rs'.mem[i].p \in 1 .. n - 1 /\ u.fill + 1 >= g[rs'.mem[i].p]
               \/ rs'.mem[i].p = n /\ Provides(f, rs'.mem[i])
    <3>1. CASE i = rs.fill + 1
      BY <1>6, <2>2, <3>1
    <3>2. CASE i # rs.fill + 1
      <4>1. i \in 1 .. rs.fill
        BY <2>1, <2>2, <3>2
      <4> QED BY <2>2, <2>4, <4>1
    <3> QED BY <3>1, <3>2
  <2> HIDE DEF n, rs, u
  <2> QED BY <2>3, <2>5, <2>6 DEF Keeps
<1>11. ChangesTop(g, f, FALSE, f)
  <2>1. /\ u.fill >= g[n - 1]
        /\ unwind_init_ref' \in Nat /\ (unwind_init_ref = 0 => unwind_init_ref' = 0)
    BY <1>2, <1>4, <1>7 DEF ScopesInv
  <2> QED BY <1>2, <1>3, <1>4, <1>5, <1>6, <1>8, <1>9, <1>10, <2>1 DEF ChangesTop
<1> QED BY <1>1, <1>11, TopChanges

-----------------------------------------------------------------------------
(* Steps that return into the library                                       *)

LEMMA MaxOf ==
  ASSUME NEW n \in Nat, NEW T, T \subseteq 1 .. n, T # {}
  PROVE  Max(T) \in T
<1> DEFINE D == {n - x : x \in T}
<1>1. D \subseteq Nat /\ D # {}
  <2>1. \A x \in T : n - x \in Nat
    OBVIOUS
  <2>2. PICK x \in T : TRUE
    OBVIOUS
  <2>3. n - x \in D
    OBVIOUS
  <2> QED BY <2>1, <2>3
<1> HIDE DEF D
<1>2. \E d \in D : \A y \in D : d <= y
  BY <1>1, LeastOf
<1>3. PICK d \in D : \A y \in D : d <= y
  BY <1>2
<1>4. PICK x \in T : d = n - x
  BY <1>3 DEF D
<1>5. \A y \in T : x >= y
  <2> SUFFICES ASSUME NEW y \in T PROVE x >= y
    OBVIOUS
  <2>1. n - y \in D
    BY DEF D
  <2>2. n - x <= n - y
    BY <1>3, <1>4, <2>1
  <2> QED BY <2>2
<1> QED BY <1>5 DEF Max

LEMMA SecondIs ==
  ASSUME ScopesInv, NEW g, Match(g), Len(stack) > 1
  PROVE  /\ Len(stack) - 1 \in 1 .. Len(stack) - 1 /\ Len(stack) - 2 \in Nat
         /\ g[Len(stack) - 2] \in Nat /\ g[Len(stack) - 1] \in Nat
         /\ Above(stack[Len(stack) - 1], Top)
         /\ Level(stack[Len(stack) - 1], g[Len(stack) - 2], g[Len(stack) - 1], FALSE, unwind_init_ref)
         /\ Based(stack[Len(stack) - 1], Top, g[Len(stack) - 1])
         /\ HasFields(stack[Len(stack) - 1])
         /\ \A k \in Len(stack) - 1 .. Len(stack) : k = Len(stack) \/ k = Len(stack) - 1
<1> DEFINE n == Len(stack)
<1>1. n \in Nat \ {0} /\ g \in [0 .. n -> Nat] /\ n > 1
  BY TopIs
<1> HIDE DEF n
<1> DEFINE m == n - 1
<1>2. /\ m \in 1 .. n - 1 /\ m \in 1 .. n /\ m + 1 = n /\ m - 1 = n - 2 /\ n - 2 \in Nat
      /\ \A k \in n - 1 .. n : k = n \/ k = n - 1
      /\ m \in 0 .. n /\ n - 2 \in 0 .. n
  BY <1>1
<1>3. g[n - 2] \in Nat /\ g[m] \in Nat
  BY <1>1, <1>2
<1> HIDE DEF m
<1>4. Above(stack[m], stack[n]) /\ HasFields(stack[m])
  BY <1>2 DEF ScopesInv, Shape, n
<1>5. Level(stack[m], g[m - 1], g[m], FALSE, unwind_init_ref)
  <2>1. m \in 1 .. Len(stack) - 1
    BY <1>2 DEF n
  <2> QED BY <2>1, LevelBelow
<1>6. Based(stack[m], stack[n], g[m])
  BY <1>2 DEF Match, Bases, Based, n
<1> QED BY <1>2, <1>3, <1>4, <1>5, <1>6 DEF m, n, Top

(* An action called by unwind_cleanup has returned. *)
LEMMA ActionReturnsToCleanup ==
  ASSUME ScopesInv, SigStacksOK', ActionReturns, stack[Len(stack) - 1].k = "cleanup"
  PROVE  ScopesInv'
<1>1. PICK g : Match(g)
  BY DEF ScopesInv
<1> DEFINE n == Len(stack)
           u == unwind_stack
           f == stack[n - 1]
           a == u.fill - 1
<1>2. /\ Top.k = "action_body" /\ stack' = Below /\ unwind_stack' = Pop(u)
      /\ UNCHANGED <<unwind_init_ref, sig_stacks>>
  BY DEF ActionReturns, Return, sigVars, exitVars
<1>3. n > 1
  BY <1>2, NotMain
<1>4. /\ n - 1 \in 1 .. n - 1 /\ n - 2 \in Nat /\ g[n - 2] \in Nat /\ g[n - 1] \in Nat
      /\ Level(f, g[n - 2], g[n - 1], FALSE, unwind_init_ref)
      /\ Based(f, Top, g[n - 1]) /\ HasFields(f)
      /\ \A k \in n - 1 .. n : k = n \/ k = n - 1
  BY <1>1, <1>3, SecondIs
<1>5. unwind_init_ref = 0 /\ g[n - 1] <= g[n - 2] /\ g[n - 1] > 0
  BY <1>4 DEF Level, Sinks, Based
<1>6. /\ n \in Nat \ {0} /\ u.fill = g[n - 1] /\ g[n] = u.fill
  <2>1. Level(Top, g[n - 1], u.fill, TRUE, unwind_init_ref) /\ n \in Nat \ {0} /\ g[n] = u.fill
    BY <1>1, TopIs
  <2> QED BY <1>2, <2>1 DEF Level, Sinks, HasEntry
<1>7. /\ UnwindOK(unwind_stack') /\ unwind_stack'.fill = a
      /\ \A x \in 1 .. u.fill : x <= unwind_stack'.fill => unwind_stack'.mem[x] = u.mem[x]
  <2>1. UnwindOK(Pop(u)) /\ Pop(u).fill = a /\ \A x \in 1 .. a : Pop(u).mem[x] = u.mem[x]
    BY <1>5, <1>6, UnwindStackIs
  <2>2. \A x \in 1 .. u.fill : x <= a => x \in 1 .. a
    BY <1>4, <1>6
  <2> QED BY <1>2, <2>1, <2>2
<1>8. sig_stacks # "live"
  <2>1. n - 1 \in 1 .. n
    BY <1>4, <1>6
  <2> QED BY <2>1 DEF ScopesInv
<1>9. /\ IsSequence(stack') /\ Len(stack') = n - 1
      /\ \A k \in 1 .. n - 1 : stack'[k] = stack[k]
  BY <1>2, <1>3, BelowIs
<1> DEFINE m == n - 2
<1>10. m + 1 = n - 1 /\ n - 1 # m + 2 /\ m \in 0 .. n - 1 /\ m \in 0 .. n - 2 /\ \A k \in 1 .. m : k \in 1 .. n - 1
  BY <1>4, <1>6
<1>11. /\ f.k = "main" <=> m = 0
       /\ m > 0 => Above(stack[m], f) /\ Based(stack[m], f, g[m])
  <2>1. m \in 0 .. Len(stack) - 1 /\ f.k = stack[m + 1].k /\ f.k # "action_body"
    BY <1>10
  <2> HIDE DEF m, f, n
  <2> QED BY <1>1, <2>1, SameKind
<1>12. a \in Nat /\ a <= g[n - 2] /\ a <= g[n - 1] /\ a <= g[n]
  BY <1>4, <1>5, <1>6
<1>13. Level(f, g[m], a, TRUE, unwind_init_ref')
  BY <1>2, <1>5, <1>12 DEF Level, Sinks, HasEntry
<1>14. ~HasEntry(f) /\ f.k = "cleanup"
  BY DEF HasEntry
<1> HIDE DEF f, a, m
<1>15. RewritesTo(g, m, a, a, f)
  <2>1. \A j \in m + 1 .. Len(stack) : g[j] >= a
    BY <1>4, <1>10, <1>12, <1>6
  <2>2. IsSequence(stack') /\ Len(stack') = m + 1 /\ (\A k \in 1 .. m : stack'[k] = stack[k])
        /\ stack'[m + 1] = f
    BY <1>4, <1>9, <1>10 DEF f
  <2>3. Len(stack') # m + 2
    BY <1>9, <1>10
  <2>4. unwind_init_ref' \in Nat /\ (unwind_init_ref = 0 => unwind_init_ref' = 0) /\ sig_stacks' # "live"
    BY <1>2, <1>5, <1>8
  <2>5. m \in 0 .. Len(stack) - 1
    BY <1>10
  <2> HIDE DEF n
  <2> QED BY <1>4, <1>7, <1>11, <1>12, <1>13, <1>14, <2>1, <2>2, <2>3, <2>4, <2>5 DEF RewritesTo
<1> QED BY <1>1, <1>15, Rewrites

(* The last unwind_cleanup is done. *)
LEMMA LastCleanupReturns ==
  ASSUME ScopesInv, SigStacksOK', CleanupDone, unwind_init_ref = 0
  PROVE  ScopesInv'
<1>1. PICK g : Match(g)
  BY DEF ScopesInv
<1> DEFINE n == Len(stack)
           u == unwind_stack
           f == stack[n - 1]
<1>2. /\ Top.k = "cleanup" /\ stack' = Below /\ u.fill = 0
      /\ UNCHANGED <<unwind_stack, unwind_init_ref, sig_stacks>>
  BY DEF CleanupDone, Return, sigVars
<1>3. n > 1
  BY <1>2, NotMain
<1>4. /\ n - 1 \in 1 .. n - 1 /\ n - 2 \in Nat /\ g[n - 2] \in Nat /\ g[n - 1] \in Nat
      /\ Level(f, g[n - 2], g[n - 1], FALSE, unwind_init_ref)
      /\ Above(f, Top) /\ HasFields(f)
      /\ \A k \in n - 1 .. n : k = n \/ k = n - 1
  BY <1>1, <1>3, SecondIs
<1>5. f.k = "main" \/ (f.k = "catchall" /\ f.stage = "cleaned")
  BY <1>2, <1>4 DEF Above
<1>6. /\ n \in Nat \ {0} /\ g[n] = u.fill
  BY <1>1, TopIs
<1>7. UnwindOK(u)
  BY DEF ScopesInv
<1>8. sig_stacks # "live"
  <2>1. n \in 1 .. n
    BY <1>4, <1>6
  <2> QED BY <1>2, <2>1 DEF ScopesInv, Top
<1>9. /\ IsSequence(stack') /\ Len(stack') = n - 1
      /\ \A k \in 1 .. n - 1 : stack'[k] = stack[k]
  BY <1>2, <1>3, BelowIs
<1> DEFINE m == n - 2
<1>10. m + 1 = n - 1 /\ n - 1 # m + 2 /\ m \in 0 .. n - 1 /\ m \in 0 .. n - 2 /\ \A k \in 1 .. m : k \in 1 .. n - 1
  BY <1>4, <1>6
<1>11. /\ f.k = "main" <=> m = 0
       /\ m > 0 => Above(stack[m], f) /\ Based(stack[m], f, g[m])
  <2>1. m \in 0 .. Len(stack) - 1 /\ f.k = stack[m + 1].k /\ f.k # "action_body"
    BY <1>5, <1>10
  <2> HIDE DEF m, f, n
  <2> QED BY <1>1, <2>1, SameKind
<1>12. g[0] = 0
  BY <1>1 DEF Match, Heights
<1>13. Level(f, g[m], 0, TRUE, unwind_init_ref')
  <2>1. CASE f.k = "main"
    <3>1. g[m] = 0
      BY <1>11, <1>12, <2>1
    <3> HIDE DEF m, f
    <3> QED BY <2>1, <3>1 DEF Level, Sinks, HasEntry
  <2>2. CASE f.k = "catchall" /\ f.stage = "cleaned"
    <3>1. g[m] \in Nat /\ unwind_init_ref' = 0
      BY <1>2, <1>4
    <3> HIDE DEF m, f
    <3> QED BY <2>2, <3>1 DEF Level, Sinks, HasEntry
  <2> QED BY <1>5, <2>1, <2>2
<1>14. ~HasEntry(f) /\ f.k \notin {"point", "unwind"}
  BY <1>5 DEF HasEntry
<1> HIDE DEF f, m
<1>15. RewritesTo(g, m, 0, 0, f)
  <2>1. \A j \in m + 1 .. Len(stack) : g[j] >= 0
    BY <1>2, <1>4, <1>10, <1>6
  <2>2. IsSequence(stack') /\ Len(stack') = m + 1 /\ (\A k \in 1 .. m : stack'[k] = stack[k])
        /\ stack'[m + 1] = f
    BY <1>4, <1>9, <1>10 DEF f
  <2>3. Len(stack') # m + 2
    BY <1>9, <1>10
  <2>4. unwind_init_ref' \in Nat /\ (unwind_init_ref = 0 => unwind_init_ref' = 0) /\ sig_stacks' # "live"
    BY <1>2, <1>8
  <2>5. m \in 0 .. Len(stack) - 1
    BY <1>10
  <2> HIDE DEF n
  <2> QED BY <1>2, <1>4, <1>7, <1>11, <1>13, <1>14, <2>1, <2>2, <2>3, <2>4, <2>5 DEF RewritesTo
<1> QED BY <1>1, <1>15, Rewrites

(* The restart a handler chose leads to a point below the send. *)
LEMMA ChosenIsReached ==
  ASSUME ScopesInv, NEW g, Match(g), sig_stacks = "live",
         NEW sig, NEW rst, Chosen(sig, rst) # {}, NEW e,
         e = sig_restart_stack.mem[Max(Chosen(sig, rst))]
  PROVE  /\ e.p \in 1 .. Len(stack) /\ stack[e.p].k = "point"
         /\ \A j \in e.p .. Len(stack) : g[j] >= stack[e.p].to
<1> DEFINE n == Len(stack)
           p == e.p
           rs == sig_restart_stack
<1>1. rs.fill \in Nat
  BY DEF ScopesInv, SigStacksOK, StackOK, WithinAlloc
<1>2. Max(Chosen(sig, rst)) \in 1 .. rs.fill
  BY <1>1, MaxOf DEF Chosen
<1>3. p \in 1 .. n /\ Provides(stack[p], e) /\ Stays(stack, g, p)
  BY <1>2 DEF Match, RestartsHold
<1>4. n \in Nat \ {0} /\ g \in [0 .. n -> Nat]
  BY TopIs
<1>5. stack[p].k = "point" /\ HasEntry(stack[p])
  BY <1>3 DEF Provides, HasEntry
<1>6. g[p] = g[p - 1] + 1 /\ stack[p].to = g[p - 1]
  BY <1>3, <1>5 DEF Match, Heights, Level
<1> HIDE DEF n, p
<1>7. \A j \in p .. n : g[j] >= stack[p].to
  <2> SUFFICES ASSUME NEW j \in p .. n PROVE g[j] >= stack[p].to
    OBVIOUS
  <2>1. j \in 0 .. n /\ p - 1 \in 0 .. n
    BY <1>3, <1>4
  <2>2. g[j] >= g[p] /\ g[j] \in Nat /\ g[p - 1] \in Nat
    BY <1>3, <1>4, <2>1 DEF Stays, n
  <2> QED BY <1>6, <2>2
<1> QED BY <1>3, <1>5, <1>7 DEF n, p

LEMMA HandlerReturnsScopes ==
  ASSUME ScopesInv, SigStacksOK', NEW rst, HandlerReturns(rst)
  PROVE  ScopesInv'
<1>1. PICK g : Match(g)
  BY DEF ScopesInv
<1> DEFINE n == Len(stack)
           fill == unwind_stack.fill
           o == stack[n - 1]
           r == sig_restart_stack.mem[Max(Chosen(o.sig, rst))]
           c == UnwindFrame(r.p)
           fs == [Below EXCEPT ![n - 1].data = IF @ = "valid" THEN "cleaned" ELSE @,
                               ![n - 1].called = @ \cup {Top.id}]
           f == [o EXCEPT !.data = IF @ = "valid" THEN "cleaned" ELSE @,
                          !.called = @ \cup {Top.id}]
           m == n - 2
<1>2. /\ Top.k = "handler_body" /\ sig_stacks = "live"
      /\ stack' = fs \/ (Chosen(o.sig, rst) # {} /\ stack' = Append(fs, c))
      /\ UNCHANGED <<unwind_stack, sig_restart_stack, sig_stacks, unwind_init_ref>>
  BY DEF HandlerReturns, sigVars
<1>3. n > 1
  BY <1>2, NotMain
<1>4. /\ n - 1 \in 1 .. n - 1 /\ m \in Nat /\ g[m] \in Nat /\ g[n - 1] \in Nat
      /\ Above(o, Top) /\ HasFields(o)
      /\ Level(o, g[m], g[n - 1], FALSE, unwind_init_ref)
      /\ \A k \in n - 1 .. n : k = n \/ k = n - 1
  BY <1>1, <1>3, SecondIs
<1>5. o.k = "send"
  BY <1>2, <1>4 DEF Above
<1>6. g[n - 1] = g[m]
  BY <1>4, <1>5 DEF Level, Sinks, HasEntry
<1>7. /\ n \in Nat \ {0} /\ g[n] = fill /\ fill = g[m] /\ fill \in Nat
  <2>1. Level(Top, g[n - 1], fill, TRUE, unwind_init_ref) /\ n \in Nat \ {0} /\ g[n] = fill
        /\ fill \in Nat
    BY <1>1, TopIs
  <2>2. fill = g[n - 1]
    BY <1>2, <2>1 DEF Level, Sinks, HasEntry
  <2> QED BY <1>6, <2>1, <2>2
<1>8. f.k = "send" /\ HasFields(f)
  BY <1>4, <1>5 DEF HasFields
<1>9. m + 1 = n - 1 /\ n - 1 # m + 2 /\ n = m + 2 /\ m \in 0 .. n - 1 /\ m \in 0 .. n - 2
      /\ \A k \in 1 .. m : k \in 1 .. n - 1 /\ k # n - 1
  BY <1>4, <1>7
<1>10. /\ IsSequence(fs) /\ Len(fs) = n - 1 /\ fs[m + 1] = f
       /\ \A k \in 1 .. m : fs[k] = stack[k]
  <2>1. IsSequence(Below) /\ Len(Below) = n - 1 /\ \A k \in 1 .. n - 1 : Below[k] = stack[k]
    BY <1>3, BelowIs
  <2>2. DOMAIN Below = 1 .. n - 1 /\ Below[n - 1] = o
    <3>1. DOMAIN Below = 1 .. Len(Below)
      BY <2>1 DEF IsSequence
    <3> QED BY <1>4, <2>1, <3>1
  <2> DEFINE w == n - 1
             q == [Below EXCEPT ![w] = f]
  <2>3. fs = q
    <3>1. n - 1 \in DOMAIN Below
      BY <1>4, <2>2
    <3>2. Below[n - 1] = o
      BY <2>2
    <3> HIDE DEF n, o
    <3> QED BY <3>1, <3>2
  <2> HIDE DEF f, o, fs
  <2>4. /\ IsSequence(q) /\ Len(q) = Len(Below) /\ q[w] = f
        /\ \A k \in 1 .. Len(Below) : k # w => q[k] = Below[k]
    <3>1. w \in 1 .. Len(Below)
      BY <1>4, <2>1
    <3>2. IsSequence(Below)
      BY <2>1
    <3> HIDE DEF n, w, m
    <3> QED BY <3>1, <3>2, ReplaceIs
  <2> HIDE DEF q
  <2>5. \A k \in 1 .. m : q[k] = stack[k]
    BY <1>9, <2>1, <2>4
  <2> QED BY <1>9, <2>1, <2>3, <2>4, <2>5
<1>11. /\ f.k = "main" <=> m = 0
       /\ m > 0 => Above(stack[m], f) /\ Based(stack[m], f, g[m])
  <2>1. m \in 0 .. Len(stack) - 1 /\ f.k = stack[m + 1].k /\ f.k # "action_body"
    BY <1>5, <1>8, <1>9
  <2> HIDE DEF m, f, n, o
  <2> QED BY <1>1, <2>1, SameKind
<1>12. ~HasEntry(f)
  BY <1>8 DEF HasEntry
<1> HIDE DEF f, fs
<1>13. /\ Level(f, g[m], fill, TRUE, unwind_init_ref')
       /\ Level(f, g[m], fill, FALSE, unwind_init_ref')
  BY <1>7, <1>8, <1>12 DEF Level, Sinks
<1>14. Keeps(stack, g, stack', m, fill, fill, sig_restart_stack, sig_restart_stack')
  <2>1. \A k \in m + 1 .. Len(stack) : stack[k].k # "point"
    BY <1>2, <1>4, <1>5, <1>9 DEF Top
  <2>2. m \in 0 .. Len(stack) - 1
    BY <1>9
  <2> HIDE DEF m, n
  <2> QED BY <1>1, <1>2, <2>1, <2>2, KeepsAll
<1>15. ASSUME Chosen(o.sig, rst) # {}
       PROVE  /\ c.k = "unwind" /\ HasFields(c) /\ ~HasEntry(c) /\ c.i = fill
              /\ AimsAt(stack, g, m, c, fill) /\ fill >= stack[c.p].to
              /\ Level(c, fill, fill, TRUE, unwind_init_ref')
  <2>1. c.k = "unwind" /\ HasFields(c) /\ ~HasEntry(c) /\ c.i = fill /\ c.p = r.p
    BY DEF UnwindFrame, HasFields, HasEntry
  <2>2. PICK e : e = r
    OBVIOUS
  <2> HIDE DEF c, r
  <2>3. /\ e.p \in 1 .. n /\ stack[e.p].k = "point"
        /\ \A j \in e.p .. n : g[j] >= stack[e.p].to
    BY <1>1, <1>2, <1>15, <2>2, ChosenIsReached DEF r
  <2>4. e.p # n /\ e.p # n - 1
    BY <1>2, <1>5, <2>3 DEF Top
  <2> DEFINE p == e.p
  <2> HIDE DEF n, p, o
  <2>5. p \in 1 .. m /\ n \in p .. n /\ \A j \in p .. m : j \in p .. n
    BY <1>7, <1>9, <2>3, <2>4 DEF p
  <2>6. AimsAt(stack, g, m, c, fill) /\ fill >= stack[c.p].to
    BY <1>7, <2>1, <2>2, <2>3, <2>5 DEF AimsAt, p
  <2>7. Level(c, fill, fill, TRUE, unwind_init_ref')
    BY <1>7, <2>1, LevelOf
  <2> QED BY <2>1, <2>6, <2>7
<1> HIDE DEF c
<1>16. ASSUME stack' = Append(fs, c), Chosen(o.sig, rst) # {}
       PROVE  /\ IsSequence(stack') /\ Len(stack') = m + 2 /\ stack'[m + 1] = f
              /\ \A k \in 1 .. m : stack'[k] = stack[k]
              /\ stack'[m + 2] = c
  <2>1. /\ IsSequence(stack') /\ Len(stack') = Len(fs) + 1
        /\ \A k \in 1 .. Len(fs) : stack'[k] = fs[k]
        /\ stack'[Len(fs) + 1] = c
    BY <1>10, <1>16, AppendIs
  <2> DEFINE l == Len(fs)
  <2>2. l = m + 1 /\ l + 1 = m + 2 /\ m + 1 \in 1 .. l /\ \A k \in 1 .. m : k \in 1 .. l
    <3>1. l = m + 1 /\ m \in Nat
      BY <1>4, <1>9, <1>10
    <3> HIDE DEF l, m
    <3> QED BY <3>1
  <2> QED BY <1>10, <2>1, <2>2
<1>17. UnwindOK(unwind_stack) /\ unwind_init_ref \in Nat
  BY DEF ScopesInv
<1>18. RewritesTo(g, m, fill, fill, f)
  <2>1. \A j \in m + 1 .. Len(stack) : g[j] >= fill
    <3>1. g[n - 1] >= fill /\ g[n] >= fill
      BY <1>6, <1>7
    <3>2. \A j \in m + 1 .. n : j = n \/ j = n - 1
      BY <1>4, <1>9
    <3> HIDE DEF m, fill
    <3> QED BY <3>1, <3>2
  <2>2. m \in 0 .. Len(stack) - 1
    BY <1>9
  <2>3. Above(f, c) /\ Based(f, c, fill)
    <3>1. CASE Chosen(o.sig, rst) # {}
      BY <1>8, <1>15, <3>1 DEF Above, Based
    <3>2. CASE Chosen(o.sig, rst) = {}
      BY <1>8 DEF Above, Based, c, UnwindFrame
    <3> QED BY <3>1, <3>2
  <2>4. CASE stack' = fs
    <3>1. IsSequence(stack') /\ Len(stack') = m + 1 /\ (\A k \in 1 .. m : stack'[k] = stack[k])
          /\ stack'[m + 1] = f /\ Len(stack') # m + 2
      BY <1>9, <1>10, <2>4
    <3> HIDE DEF m, fill, n
    <3> QED BY <1>2, <1>7, <1>8, <1>11, <1>12, <1>13, <1>14, <1>17, <2>1, <2>2, <3>1
            DEF RewritesTo, fill
  <2>5. CASE Chosen(o.sig, rst) # {} /\ stack' = Append(fs, c)
    <3>1. Len(stack') = m + 2 /\ Len(stack') # m + 1
      BY <1>9, <1>16, <2>5
    <3> HIDE DEF m, n, o
    <3>2. /\ f.k \notin {"point", "unwind", "cleanup"}
          /\ c.k \notin {"point", "main", "cleanup"}
      BY <1>8, <1>15, <2>5
    <3>3. /\ fill \in Nat /\ unwind_stack' = unwind_stack /\ unwind_init_ref' = unwind_init_ref
          /\ sig_stacks = "live"
      BY <1>2, <1>7
    <3>4. /\ AimsAt(stack, g, m, c, fill) /\ fill >= stack[c.p].to
          /\ Level(c, fill, fill, TRUE, unwind_init_ref')
          /\ HasFields(c) /\ ~HasEntry(c)
      BY <1>15, <2>5
    <3>5. /\ IsSequence(stack') /\ stack'[m + 1] = f /\ stack'[m + 2] = c
          /\ \A k \in 1 .. m : stack'[k] = stack[k]
      BY <1>16, <2>5
    <3>6. unwind_stack'.fill = fill
      BY <3>3
    <3> HIDE DEF fill
    <3> QED BY <1>8, <1>11, <1>12, <1>13, <1>14, <1>17, <2>1, <2>2, <2>3, <3>1, <3>2, <3>3,
               <3>4, <3>5, <3>6
            DEF RewritesTo
  <2> QED BY <1>2, <2>4, <2>5
<1> QED BY <1>1, <1>18, Rewrites

(* longjmp to the point. *)
LEMMA UnwindDoneScopes ==
  ASSUME ScopesInv, SigStacksOK', UnwindDone
  PROVE  ScopesInv'
<1>1. PICK g : Match(g)
  BY DEF ScopesInv
<1> DEFINE n == Len(stack)
           fill == unwind_stack.fill
           p == Top.p
           o == stack[p]
           f == [o EXCEPT !.returned = TRUE]
           m == p - 1
           rs == sig_restart_stack
<1>2. /\ Top.k = "unwind" /\ ~(Top.i > o.to)
      /\ stack' = [SubSeq(stack, 1, p) EXCEPT ![p].returned = TRUE]
      /\ UNCHANGED <<unwind_stack, sig_restart_stack, sig_stacks, unwind_init_ref>>
  BY DEF UnwindDone, UnwindMore, sigVars, exitVars
<1>3. /\ p \in 1 .. n - 1 /\ o.k = "point" /\ o.to = g[m] /\ o.to \in Nat
      /\ \A j \in p .. n : g[j] >= o.to
      /\ Top.i = fill /\ fill >= o.to
  BY <1>1, <1>2, TargetIs
<1>4. /\ IsSequence(stack) /\ n \in Nat \ {0} /\ g \in [0 .. n -> Nat] /\ g[n] = fill /\ fill \in Nat
  BY <1>1, TopIs
<1>5. fill = g[m]
  BY <1>2, <1>3, <1>4
<1>6. HasFields(o)
  <2>1. p \in 1 .. n
    BY <1>3, <1>4
  <2> QED BY <2>1 DEF ScopesInv, Shape
<1>7. f.k = "point" /\ HasFields(f) /\ f.to = g[m] /\ f.returned
  BY <1>3, <1>6 DEF HasFields
<1>8. /\ m \in 0 .. n - 1 /\ m + 1 = p /\ p # m + 2 /\ p \in 0 .. n /\ p \in 1 .. p /\ p \in Nat
      /\ \A k \in 1 .. m : k \in 1 .. p /\ k # p
  <2> HIDE DEF n, p
  <2> QED BY <1>3, <1>4
<1>9. /\ IsSequence(stack') /\ Len(stack') = p /\ stack'[m + 1] = f
      /\ \A k \in 1 .. m : stack'[k] = stack[k]
  <2> DEFINE b == SubSeq(stack, 1, p)
             q == [b EXCEPT ![p] = f]
  <2>1. /\ IsSequence(b) /\ Len(b) = p /\ \A k \in 1 .. p : b[k] = stack[k]
    <3>1. p \in 0 .. Len(stack)
      BY <1>8
    <3> HIDE DEF p, n
    <3> QED BY <1>4, <3>1, PrefixIs
  <2>2. DOMAIN b = 1 .. p
    <3>1. DOMAIN b = 1 .. Len(b)
      BY <2>1 DEF IsSequence
    <3> QED BY <2>1, <3>1
  <2>3. stack' = q
    <3>1. p \in DOMAIN b /\ b[p] = o
      BY <1>8, <2>1, <2>2
    <3>2. stack' = [b EXCEPT ![p].returned = TRUE]
      BY <1>2
    <3> HIDE DEF b, o, p
    <3> QED BY <3>1, <3>2
  <2> HIDE DEF b, f
  <2>4. /\ IsSequence(q) /\ Len(q) = Len(b) /\ q[p] = f
        /\ \A k \in 1 .. Len(b) : k # p => q[k] = b[k]
    <3>1. p \in 1 .. Len(b) /\ IsSequence(b)
      BY <1>8, <2>1
    <3> HIDE DEF p, m, n
    <3> QED BY <3>1, ReplaceIs
  <2> HIDE DEF q
  <2> QED BY <1>8, <2>1, <2>3, <2>4
<1>10. ~HasEntry(f) \/ f.mode = "plain"
  BY <1>7 DEF HasEntry
<1>11. ~HasEntry(f)
  BY <1>7 DEF HasEntry
<1> HIDE DEF f
<1>12. Level(f, g[m], fill, TRUE, unwind_init_ref')
  BY <1>5, <1>7, <1>11 DEF Level, Sinks
<1>13. /\ f.k = "main" <=> m = 0
       /\ m > 0 => Above(stack[m], f) /\ Based(stack[m], f, g[m])
  <2>1. m \in 0 .. Len(stack) - 1 /\ f.k = stack[m + 1].k /\ f.k # "action_body"
    BY <1>3, <1>7, <1>8
  <2> HIDE DEF m, n, o, p
  <2> QED BY <1>1, <2>1, SameKind
<1>14. sig_stacks = "live" => Keeps(stack, g, stack', m, fill, fill, rs, rs')
  <2> SUFFICES ASSUME sig_stacks = "live", NEW i \in 1 .. rs.fill
               PROVE  rs.mem[i].p \in 1 .. m
    <3>1. rs' = rs /\ ~(Len(stack') = m + 2)
      BY <1>2, <1>8, <1>9
    <3>2. ASSUME sig_stacks = "live", NEW i \in 1 .. rs.fill
          PROVE  fill >= g[rs.mem[i].p]
      <4> DEFINE r == rs.mem[i].p
      <4>1. r \in 1 .. n /\ Stays(stack, g, r)
        BY <1>1, <3>2 DEF Match, RestartsHold
      <4> HIDE DEF n, r
      <4>2. n \in r .. n
        BY <1>4, <4>1
      <4> QED BY <1>4, <4>1, <4>2 DEF Stays, n, r
    <3> HIDE DEF m, fill, rs
    <3> QED BY <3>1, <3>2 DEF Keeps
  <2> DEFINE r == rs.mem[i].p
  <2>1. r \in 1 .. n /\ Provides(stack[r], rs.mem[i]) /\ Stays(stack, g, r)
    BY <1>1 DEF Match, RestartsHold
  <2>2. HasEntry(stack[r])
    BY <2>1 DEF Provides, HasEntry
  <2>3. g[r] = g[r - 1] + 1
    BY <1>1, <2>1, <2>2 DEF Match, Heights, Level
  <2> DEFINE to == o.to
  <2> HIDE DEF n, r, p, o, to
  <2>4. n \in r .. n /\ r \in 0 .. n /\ r - 1 \in 0 .. n
    BY <1>4, <2>1
  <2>5. g[r - 1] < fill
    <3>1. g[n] >= g[r]
      BY <2>1, <2>4 DEF Stays, n
    <3> QED BY <1>4, <2>3, <2>4, <3>1
  <2>6. ~(r >= p)
    <3> SUFFICES ASSUME r >= p PROVE FALSE
      OBVIOUS
    <3>1. CASE r = p
      BY <1>5, <2>5, <1>4, <2>4, <3>1
    <3>2. CASE r # p
      <4>1. r - 1 \in p .. n
        BY <1>3, <1>4, <2>1, <3>2
      <4>2. g[r - 1] >= fill
        BY <1>3, <1>5, <4>1
      <4>3. g[r - 1] \in Nat
        BY <1>4, <2>4
      <4> QED BY <1>4, <2>5, <4>2, <4>3
    <3> QED BY <3>1, <3>2
  <2>7. r \in 1 .. m
    BY <1>3, <1>4, <2>1, <2>6
  <2> QED BY <2>7 DEF r
<1>15. UnwindOK(unwind_stack) /\ unwind_init_ref \in Nat
  BY DEF ScopesInv
<1>16. RewritesTo(g, m, fill, fill, f)
  <2>1. \A j \in m + 1 .. Len(stack) : g[j] >= g[m]
    BY <1>3, <1>8
  <2>2. m \in 0 .. Len(stack) - 1 /\ Len(stack') = m + 1 /\ Len(stack') # m + 2
    BY <1>8, <1>9
  <2>3. f.k \notin {"unwind", "cleanup"}
    BY <1>7
  <2> HIDE DEF m, fill, n, rs, o, p
  <2> QED BY <1>2, <1>4, <1>7, <1>9, <1>11, <1>12, <1>13, <1>14, <1>15, <2>1, <2>2, <2>3
          DEF RewritesTo, fill, rs
<1> QED BY <1>1, <1>16, Rewrites

-----------------------------------------------------------------------------
(* The invariant is kept by every step                                      *)

LEMMA SameScopes ==
  ASSUME ScopesInv, SigStacksOK',
         UNCHANGED <<stack, unwind_stack, sig_restart_stack, sig_stacks>>,
         unwind_init_ref' \in Nat, unwind_init_ref = 0 <=> unwind_init_ref' = 0
  PROVE  ScopesInv'
<1>1. PICK g : Match(g)
  BY DEF ScopesInv
<1>2. Heights(stack, unwind_init_ref', g)
  <2>1. \A f, lo, hi, top : Level(f, lo, hi, top, unwind_init_ref) => Level(f, lo, hi, top, unwind_init_ref')
    BY DEF Level, Sinks
  <2> QED BY <1>1, <2>1 DEF Match, Heights
<1>3. Match(g)'
  BY <1>1, <1>2 DEF Match
<1> QED BY <1>3 DEF ScopesInv

LEMMA ScopesUser ==
  ASSUME ScopesInv, SigStacksOK', UserStep
  PROVE  ScopesInv'
<1>0. unwind_init_ref \in Nat
  BY DEF ScopesInv
<1>1. ASSUME NEW n \in Acts, NEW always \in BOOLEAN, UnwindAction(n, always) PROVE ScopesInv'
  BY <1>1, UnwindActionScopes
<1>2. ASSUME NEW sig \in HandlerSigs, AutopopHandler(sig) PROVE ScopesInv'
  BY <1>2, AutopopHandlerScopes
<1>3. ASSUME NEW mode \in Modes \ {"plain"}, NEW sig \in RestartSigs, NEW rst \in Restarts,
             ProvideRestart(mode, sig, rst)
      PROVE  ScopesInv'
  BY <1>3, ProvideRestartScopes
<1>4. CASE LeaveScope
  BY <1>4, LeaveScopeAtOnce, LeaveScopeRuns
<1>5. CASE ActionReturns
  BY <1>5, ActionReturnsScopes, ActionReturnsToCleanup
<1>6. ASSUME NEW rst, HandlerReturns(rst) PROVE ScopesInv'
  BY <1>6, HandlerReturnsScopes
<1>7. ASSUME NEW sig, PersistentHandler(sig) PROVE ScopesInv'
  BY <1>0, <1>7, SameScopes DEF PersistentHandler, exitVars
<1>8. ASSUME NEW id, RmPersistentHandler(id) PROVE ScopesInv'
  BY <1>0, <1>8, SameScopes DEF RmPersistentHandler, exitVars
<1>9. CASE UnwindInit
  <2>1. unwind_init_ref # 0 /\ unwind_init_ref' \in Nat /\ unwind_init_ref' # 0
    BY <1>0, <1>9 DEF UnwindInit
  <2> QED BY <1>9, <2>1, SameScopes DEF UnwindInit, sigVars
<1>10. CASE UnwindRelease
  <2>1. unwind_init_ref # 0 /\ unwind_init_ref' \in Nat /\ unwind_init_ref' # 0
    BY <1>0, <1>10 DEF UnwindRelease
  <2> QED BY <1>10, <2>1, SameScopes DEF UnwindRelease, sigVars
<1>11. ASSUME NEW p \in DOMAIN stack, Unwind(p) PROVE ScopesInv'
  BY <1>11, UnwindScopes
<1>12. ASSUME NEW data, Send(SIGNAL_FAIL, data) PROVE ScopesInv'
  <2>1. /\ UserRuns /\ Call(SendFrame(SIGNAL_FAIL, data))
        /\ UNCHANGED <<unwind_stack, sig_restart_stack, sig_stacks, unwind_init_ref>>
    BY <1>12 DEF Send, UserCalls, sigVars, exitVars
  <2> QED BY <2>1, SendScopes
<1>13. ASSUME NEW sig, AssertHandler(sig) PROVE ScopesInv'
  <2>1. /\ UserRuns /\ Call(SendFrame(SIGNAL_NO_SIG_HANDLER, "none"))
        /\ UNCHANGED <<unwind_stack, sig_restart_stack, sig_stacks, unwind_init_ref>>
    BY <1>13 DEF AssertHandler, UserCalls, sigVars, exitVars
  <2> QED BY <2>1, SendScopes
<1>14. CASE ThreadCleansUp
  <2>1. /\ Len(stack) = 1 /\ sig_stacks' = "freed" /\ unwind_stack' = unwind_stack
        /\ stack' = Append(stack, [k |-> "cleanup"])
        /\ unwind_init_ref' = IF unwind_init_ref > 0 THEN unwind_init_ref - 1 ELSE 0
    BY <1>14 DEF ThreadCleansUp, SigCleanup
  <2>2. unwind_init_ref' \in Nat /\ (unwind_init_ref = 0 => unwind_init_ref' = 0)
    BY <1>0, <2>1
  <2> QED BY <2>1, <2>2, ThreadCleanupScopes
<1>15. CASE ThreadUnwindCleanup
  <2>1. /\ Len(stack) = 1 /\ sig_stacks' = "freed" /\ unwind_stack' = unwind_stack
        /\ stack' = Append(stack, [k |-> "cleanup"])
        /\ unwind_init_ref > 0 /\ unwind_init_ref' = unwind_init_ref - 1
    BY <1>15 DEF ThreadUnwindCleanup, sigVars
  <2>2. unwind_init_ref' \in Nat /\ unwind_init_ref # 0
    BY <1>0, <2>1
  <2> QED BY <2>1, <2>2, ThreadCleanupScopes
<1> QED BY <1>1, <1>2, <1>3, <1>4, <1>5, <1>6, <1>7, <1>8, <1>9, <1>10, <1>11, <1>12, <1>13,
           <1>14, <1>15, AutopopNullHandlerScopes, ReturnPointScopes, ReprovideRestartScopes,
           LeaveExplicitScopeScopes, LeavePointScopes
        DEF UserStep

LEMMA ScopesLibrary ==
  ASSUME ScopesInv, SigStacksOK', LibraryStep
  PROVE  ScopesInv'
<1>0. unwind_init_ref \in Nat
  BY DEF ScopesInv
<1>1. CASE SendNext
  BY <1>1, SendReturnsScopes, SendCallsScopes
<1>2. CASE ReportAndRaise
  <2>1. /\ Top.k = "catchall" /\ Top.stage = "report" /\ stack' = GoTo("raised")
        /\ UNCHANGED <<unwind_stack, sig_restart_stack, sig_stacks, unwind_init_ref>>
    BY <1>2 DEF ReportAndRaise, AtStage, sigVars
  <2> QED BY <2>1, StageScopes
<1>3. CASE UnwindAll
  <2>1. /\ Top.k = "catchall" /\ Top.stage = "raised" /\ stack' = GoTo("asked")
        /\ UNCHANGED <<unwind_stack, sig_restart_stack, sig_stacks, unwind_init_ref>>
    BY <1>3 DEF UnwindAll, AtStage, sigVars
  <2> QED BY <2>1, StageScopes
<1>4. CASE ExitThread \/ ReportOverflows
  BY <1>0, <1>4, SameScopes DEF ReportOverflows, ExitThread, sigVars
<1>5. CASE CleanupDone
  BY <1>5, CleanupReturnsScopes, LastCleanupReturns
<1>6. CASE UseAfterFree
  BY <1>0, <1>6, SameScopes DEF UseAfterFree, UndefinedBehaviour, sigVars
<1> QED BY <1>1, <1>2, <1>3, <1>4, <1>5, <1>6, UnwindNextScopes, UnwindDoneScopes,
           ReportFailsScopes, CatchallCleansUpScopes, CleanupNextScopes
        DEF LibraryStep

LEMMA ScopesNext == ScopesInv /\ [Next]_vars => ScopesInv'
<1> SUFFICES ASSUME ScopesInv, [Next]_vars PROVE ScopesInv'
  OBVIOUS
<1>1. SigStacksOK'
  BY SigStacksNext DEF ScopesInv
<1>2. CASE UserStep
  BY <1>1, <1>2, ScopesUser
<1>3. CASE LibraryStep
  BY <1>1, <1>3, ScopesLibrary
<1>4. CASE UNCHANGED vars
  <2>1. unwind_init_ref \in Nat
    BY DEF ScopesInv
  <2> QED BY <1>1, <1>4, <2>1, SameScopes DEF vars
<1> QED BY <1>2, <1>3, <1>4 DEF Next, Ended

LEMMA ScopesInit == Init => ScopesInv
<1> SUFFICES ASSUME Init PROVE ScopesInv
  OBVIOUS
<1>1. /\ stack = <<[k |-> "main"]>> /\ unwind_stack = EmptyStack /\ sig_restart_stack = EmptyStack
      /\ sig_stacks = "live" /\ unwind_init_ref = 1
  BY DEF Init
<1>2. Len(stack) = 1 /\ stack[1] = [k |-> "main"] /\ stack \in Seq({[k |-> "main"]})
  BY <1>1
<1>3. Shape(stack)
  <2>1. IsSequence(stack)
    BY <1>2, SequenceIs, Zenon
  <2>2. HasFields(stack[1]) /\ stack[1].k = "main"
    BY <1>2 DEF HasFields
  <2> QED BY <1>2, <2>1, <2>2 DEF Shape
<1>4. UnwindOK(unwind_stack) /\ unwind_stack.fill = 0
  <2>1. EmptyStack.mem = << >> /\ EmptyStack.fill = 0 /\ EmptyStack.alloc = InitAlloc
        /\ DOMAIN EmptyStack = {"mem", "fill", "alloc"}
    BY DEF EmptyStack
  <2>2. IsSequence(<< >>)
    BY DEF IsSequence
  <2> QED BY <1>1, <2>1, <2>2, InitAllocAssumption DEF UnwindOK
<1>5. SigStacksOK
  BY SigStacksInit
<1>6. \A k \in 1 .. Len(stack) : stack[k].k # "cleanup"
  BY <1>2
<1>7. PICK g : g = [k \in 0 .. 1 |-> 0]
  OBVIOUS
<1>8. g \in [0 .. Len(stack) -> Nat] /\ g[0] = 0 /\ g[1] = 0
  BY <1>2, <1>7
<1>9. \A k \in 1 .. Len(stack) : k = 1
  BY <1>2
<1>10. Heights(stack, unwind_init_ref, g)
  <2>1. stack[1].k = "main" /\ ~HasEntry(stack[1])
    BY <1>2 DEF HasEntry
  <2>2. Level(stack[1], 0, 0, TRUE, unwind_init_ref)
    BY <2>1 DEF Level, Sinks
  <2>3. ASSUME NEW k \in 1 .. Len(stack)
        PROVE Level(stack[k], g[k - 1], g[k], k = Len(stack), unwind_init_ref)
    <3>1. k = 1 /\ k - 1 = 0
      BY <1>9
    <3>2. g[k - 1] = 0 /\ g[k] = 0 /\ stack[k] = stack[1]
      BY <1>8, <3>1
    <3>3. (k = Len(stack)) = TRUE
      BY <1>2, <3>1
    <3> QED BY <2>2, <3>2, <3>3
  <2>4. \A k \in 1 .. Len(stack) : stack[k].k # "point"
    BY <1>9, <2>1
  <2> QED BY <1>8, <2>3, <2>4, Zenon DEF Heights
<1>11. Match(g)
  <2>1. Bases(stack, g)
    BY <1>2 DEF Bases
  <2>2. Entries(stack, g, unwind_stack.mem) /\ Targets(stack, g)
    BY <1>2, <1>9 DEF Entries, Targets, HasEntry
  <2>3. RestartsHold(stack, g, sig_restart_stack)
    BY <1>1 DEF RestartsHold, EmptyStack
  <2> QED BY <1>2, <1>4, <1>8, <1>10, <2>1, <2>2, <2>3 DEF Match
<1> QED BY <1>1, <1>3, <1>4, <1>5, <1>6, <1>11 DEF ScopesInv

-----------------------------------------------------------------------------
(* What follows for the scopes                                              *)

(* At every step of user code and of the library there are heights of the    *)
(* frames (Match) by which the entries on the unwind stack are those of the  *)
(* open scopes, an _unwind in progress stops at its point, and a restart     *)
(* that can be chosen belongs to a point whose entry is still there.         *)
THEOREM ScopesInvariant == Spec => []ScopesInv
BY ScopesInit, ScopesNext, PTL DEF Spec

(* Every restart a handler can choose belongs to a return point that is on   *)
(* the C stack and was not returned to, right below the entry that takes the *)
(* restart off its stack: _run_restart never jumps to a frame that is gone.  *)
THEOREM RestartsAreLive == Spec => []RestartsReachLiveFrames
<1>1. ScopesInv => RestartsReachLiveFrames
  <2> SUFFICES ASSUME ScopesInv, sig_stacks = "live", NEW i \in 1 .. sig_restart_stack.fill
               PROVE  LET e == sig_restart_stack.mem[i]
                      IN  /\ e.p <= Len(stack)
                          /\ stack[e.p].k = "point" /\ stack[e.p].id = e.id
                          /\ ~stack[e.p].returned
                          /\ stack[e.p].to < unwind_stack.fill
                          /\ unwind_stack.mem[stack[e.p].to + 1]
                               = [h |-> "rm_restart", arg |-> e.id]
    BY DEF RestartsReachLiveFrames
  <2>1. PICK e : e = sig_restart_stack.mem[i]
    OBVIOUS
  <2>2. PICK g : Match(g)
    BY DEF ScopesInv
  <2>3. e.p \in 1 .. Len(stack) /\ Provides(stack[e.p], e) /\ Stays(stack, g, e.p)
    BY <2>1, <2>2 DEF Match, RestartsHold
  <2>4. Len(stack) \in Nat
    BY LengthIs DEF ScopesInv, Shape
  <2>5. PICK p : p = e.p
    OBVIOUS
  <2>6. /\ p \in 1 .. Len(stack) /\ p - 1 \in 0 .. Len(stack) /\ p \in 0 .. Len(stack)
        /\ Len(stack) \in p .. Len(stack)
    BY <2>3, <2>4, <2>5
  <2>7. /\ stack[p].k = "point" /\ stack[p].id = e.id /\ ~stack[p].returned
        /\ HasEntry(stack[p])
    BY <2>3, <2>5 DEF Provides, HasEntry
  <2>8. /\ g[p - 1] \in Nat /\ stack[p].to = g[p - 1]
        /\ Level(stack[p], g[p - 1], g[p], p = Len(stack), unwind_init_ref)
    BY <2>2, <2>6, <2>7 DEF Match, Heights
  <2>9. g[p] = g[p - 1] + 1
    BY <2>7, <2>8 DEF Level
  <2>10. unwind_stack.fill >= g[p]
    BY <2>2, <2>3, <2>5, <2>6 DEF Match, Stays
  <2>11. unwind_stack.mem[g[p]] = EntryOf(stack[p])
    BY <2>2, <2>3, <2>5, <2>6, <2>7 DEF Match, Entries
  <2>12. EntryOf(stack[p]) = [h |-> "rm_restart", arg |-> e.id]
    BY <2>7 DEF EntryOf
  <2>13. unwind_stack.fill \in Nat
    BY LengthIs DEF ScopesInv, UnwindOK
  <2>14. stack[p].to < unwind_stack.fill /\ g[p] = stack[p].to + 1 /\ p <= Len(stack)
    BY <2>4, <2>6, <2>8, <2>9, <2>10, <2>13
  <2> QED BY <2>1, <2>5, <2>7, <2>11, <2>12, <2>14
<1> QED BY <1>1, ScopesInvariant, PTL

-----------------------------------------------------------------------------
(* Types                                                                    *)

Counted ==
  /\ sig_stacks \in {"live", "freed"}
  /\ unwind_init_ref \in 0 .. MaxRefs
  /\ held \subseteq Nat
  /\ shutdown_sent \in BOOLEAN /\ confirmed \in BOOLEAN
  /\ runs \in [Acts -> 0 .. 2]
  /\ status \in {"running", "finished", "thread_exited", "process_exited", "killed", "overflow",
                "undefined"}

LEMMA StartedIs ==
  ASSUME runs \in [Acts -> 0 .. 2], NEW n
  PROVE  Started(n) \in [Acts -> 0 .. 2]
<1>1. \A r \in 0 .. 2 : (IF r < 2 THEN r + 1 ELSE r) \in 0 .. 2
  OBVIOUS
<1> QED BY <1>1 DEF Started

LEMMA RefsCounted ==
  ASSUME Counted
  PROVE  /\ MaxRefs \in Nat /\ 1 \in 0 .. MaxRefs
         /\ unwind_init_ref \in Nat
         /\ unwind_init_ref \in 1 .. MaxRefs - 1 => unwind_init_ref + 1 \in 0 .. MaxRefs
         /\ unwind_init_ref > 0 => unwind_init_ref - 1 \in 0 .. MaxRefs
         /\ 0 \in 0 .. MaxRefs
<1>1. MaxRefs \in Nat \ {0} /\ unwind_init_ref \in 0 .. MaxRefs
  BY SigThreadAssumption DEF Counted
<1> QED BY <1>1

LEMMA CallCounts ==
  ASSUME Counted, NEW e, NEW fs, NEW base, CallAction(e, fs, base)
  PROVE  /\ sig_stacks' = sig_stacks /\ held' = held
         /\ runs' \in [Acts -> 0 .. 2]
BY StartedIs DEF Counted, CallAction, sigVars

LEMMA CountedUser ==
  ASSUME Counted, SigStacksOK, UserStep
  PROVE  Counted'
<1> USE DEF Counted, exitVars, sigVars
<1>1. ASSUME NEW n \in Acts, NEW always, UnwindAction(n, always)
      PROVE  Counted'
  BY <1>1 DEF UnwindAction
<1>2. CASE LeaveScope
  <2>1. PICK e, base : CallAction(e, Below, base)
    BY <1>2 DEF LeaveScope
  <2>2. UNCHANGED exitVars
    BY <1>2 DEF LeaveScope
  <2> QED BY <2>1, <2>2, CallCounts
<1>3. ASSUME NEW sig \in HandlerSigs, PersistentHandler(sig)
      PROVE  Counted'
  <2>1. NextId(sig_handler_stack, 1) \in Nat
    BY NextIdAbove DEF SigStacksOK
  <2> QED BY <1>3, <2>1 DEF PersistentHandler
<1>4. ASSUME NEW id \in held, RmPersistentHandler(id)
      PROVE  Counted'
  BY <1>4 DEF RmPersistentHandler
<1>5. CASE UnwindInit \/ UnwindRelease
  <2>1. unwind_init_ref' \in 0 .. MaxRefs
    <3>1. unwind_init_ref > 1 => unwind_init_ref > 0
      BY RefsCounted
    <3> QED BY <1>5, <3>1, RefsCounted DEF UnwindInit, UnwindRelease
  <2> QED BY <1>5, <2>1 DEF UnwindInit, UnwindRelease
<1>6. CASE ThreadCleansUp \/ ThreadUnwindCleanup
  <2>1. unwind_init_ref' \in 0 .. MaxRefs
    BY <1>6, RefsCounted DEF ThreadCleansUp, ThreadUnwindCleanup, SigCleanup
  <2> QED BY <1>6, <2>1 DEF ThreadCleansUp, ThreadUnwindCleanup, SigCleanup
<1>7. ASSUME NEW rst, HandlerReturns(rst)
      PROVE  Counted'
  BY <1>7 DEF HandlerReturns
<1>8. CASE UNCHANGED <<sig_stacks, held, runs, exitVars>>
  BY <1>8
<1>9. \/ \E n \in Acts, always \in BOOLEAN : UnwindAction(n, always)
      \/ LeaveScope
      \/ \E sig \in HandlerSigs : PersistentHandler(sig)
      \/ \E id \in held : RmPersistentHandler(id)
      \/ UnwindInit \/ UnwindRelease
      \/ ThreadCleansUp \/ ThreadUnwindCleanup
      \/ \E rst \in Restarts \cup {SIG_RESTART_NULL} : HandlerReturns(rst)
      \/ UNCHANGED <<sig_stacks, held, runs, exitVars>>
  BY DEF UserStep, AutopopHandler, AutopopNullHandler, ProvideRestart, ReturnPoint,
         ReprovideRestart, LeaveExplicitScope, LeavePoint, ActionReturns, Unwind, Send,
         AssertHandler
<1> QED BY <1>1, <1>2, <1>3, <1>4, <1>5, <1>6, <1>7, <1>8, <1>9

LEMMA CountedLibrary ==
  ASSUME Counted, LibraryStep
  PROVE  Counted'
<1> USE DEF Counted, exitVars, sigVars
<1>1. CASE UnwindNext \/ CleanupNext
  <2>1. PICK e, fs, base : CallAction(e, fs, base)
    BY <1>1 DEF UnwindNext, CleanupNext
  <2>2. UNCHANGED exitVars
    BY <1>1 DEF UnwindNext, CleanupNext
  <2> QED BY <2>1, <2>2, CallCounts
<1>2. CASE UnwindDone \/ SendNext \/ ReportFails
  BY <1>2 DEF UnwindDone, SendNext, ReportFails
<1>3. CASE ReportAndRaise \/ UnwindAll \/ ExitThread \/ ReportOverflows \/ UseAfterFree
  BY <1>3 DEF ReportAndRaise, UnwindAll, ReportOverflows, ExitThread, UseAfterFree, UndefinedBehaviour
<1>4. CASE CatchallCleansUp
  <2>1. unwind_init_ref' \in 0 .. MaxRefs
    BY <1>4, RefsCounted DEF CatchallCleansUp, SigCleanup
  <2> QED BY <1>4, <2>1 DEF CatchallCleansUp, SigCleanup
<1>5. CASE CleanupDone
  BY <1>5 DEF CleanupDone
<1> QED BY <1>1, <1>2, <1>3, <1>4, <1>5 DEF LibraryStep

LEMMA CountedInit == Init => Counted
<1>1. MaxRefs \in Nat \ {0}
  BY SigThreadAssumption
<1>2. 1 \in 0 .. MaxRefs
  BY <1>1
<1>3. ASSUME Init PROVE runs \in [Acts -> 0 .. 2]
  <2>1. 0 \in 0 .. 2
    OBVIOUS
  <2> QED BY <1>3, <2>1 DEF Init
<1> QED BY <1>2, <1>3 DEF Init, Counted

LEMMA CountedNext == Counted /\ SigStacksOK /\ [Next]_vars => Counted'
<1>1. ASSUME Counted, UNCHANGED vars PROVE Counted'
  BY <1>1 DEF vars, Counted
<1> QED BY <1>1, CountedUser, CountedLibrary DEF Next, Ended

(* The thread's state has its type, and the unwind stack stays within its    *)
(* allocation as the signal stacks do: no push of unwind_push_handler writes *)
(* past it, no removal lowers fill below 0.                                  *)
THEOREM Typing == Spec => []TypeOK
<1>1. Init => Counted
  BY CountedInit
<1>2. Counted /\ SigStacksOK /\ [Next]_vars => Counted'
  BY CountedNext
<1>3. ScopesInv /\ Counted => TypeOK
  <2>1. ASSUME ScopesInv PROVE WithinAlloc(unwind_stack)
    BY <2>1, UnwindWithinAlloc DEF ScopesInv
  <2>2. ASSUME ScopesInv PROVE WithinAlloc(sig_handler_stack) /\ WithinAlloc(sig_restart_stack)
    BY <2>2 DEF ScopesInv, SigStacksOK, StackOK
  <2> QED BY <2>1, <2>2 DEF Counted, TypeOK
<1>4. ScopesInv => SigStacksOK
  BY DEF ScopesInv
<1> QED BY <1>1, <1>2, <1>3, <1>4, ScopesInvariant, PTL DEF Spec


-----------------------------------------------------------------------------
(* The entries of the unwind stack                                          *)

StepTo(f, k) == IF k = 0 THEN <<>> ELSE WithEntry(f[k - 1], stack[k])

(* The recursion of EntriesUpTo has a solution.                              *)
LEMMA EntriesUpToIs ==
  ASSUME Len(stack) \in Nat
  PROVE  \A k \in 0 .. Len(stack) : EntriesUpTo[k] = StepTo(EntriesUpTo, k)
<1> DEFINE Solves(f, n) == f = [k \in 0 .. n |-> StepTo(f, k)]
           T == {n \in 0 .. Len(stack) : ~ \E f : Solves(f, n)}
<1>1. ASSUME T # {} PROVE FALSE
  <2>1. T \subseteq Nat
    OBVIOUS
  <2>2. PICK n \in T : \A y \in T : n <= y
    <3> HIDE DEF T
    <3> QED BY <1>1, <2>1, LeastOf
  <2>3. n \in 0 .. Len(stack) /\ ~ \E f : Solves(f, n)
    OBVIOUS
  <2>4. CASE n = 0
    <3>1. PICK f : f = [k \in 0 .. 0 |-> <<>>]
      OBVIOUS
    <3>2. \A k \in 0 .. 0 : StepTo(f, k) = <<>>
      BY DEF StepTo
    <3> QED BY <2>3, <2>4, <3>1, <3>2
  <2>5. CASE n > 0
    <3>1. n - 1 \in 0 .. Len(stack) /\ n - 1 \notin T
      BY <2>2, <2>3, <2>5
    <3>2. PICK f : Solves(f, n - 1)
      BY <3>1
    <3>3. PICK x : x = WithEntry(f[n - 1], stack[n])
      OBVIOUS
    <3>4. PICK g : g = [k \in 0 .. n |-> IF k = n THEN x ELSE f[k]]
      OBVIOUS
    <3>5. ASSUME NEW k \in 0 .. n PROVE g[k] = StepTo(g, k)
      <4>1. CASE k = n
        <5>1. n - 1 \in 0 .. n /\ n - 1 # n /\ n # 0
          BY <2>3, <2>5
        <5>2. g[n - 1] = f[n - 1] /\ g[n] = x
          BY <3>4, <5>1
        <5> QED BY <3>3, <4>1, <5>1, <5>2 DEF StepTo
      <4>2. CASE k # n
        <5>1. k \in 0 .. n - 1 /\ (k # 0 => k - 1 \in 0 .. n /\ k - 1 # n)
          BY <2>3, <4>2
        <5>2. f[k] = StepTo(f, k)
          BY <3>2, <5>1
        <5>3. g[k] = f[k] /\ (k # 0 => g[k - 1] = f[k - 1])
          BY <3>4, <4>2, <5>1
        <5> QED BY <5>2, <5>3 DEF StepTo
      <4> QED BY <4>1, <4>2
    <3>6. g = [k \in 0 .. n |-> StepTo(g, k)]
      BY <3>4, <3>5
    <3> QED BY <2>3, <3>6
  <2> QED BY <2>3, <2>4, <2>5
<1>2. \E f : Solves(f, Len(stack))
  BY <1>1
<1>3. EntriesUpTo = CHOOSE f : Solves(f, Len(stack))
  BY DEF EntriesUpTo, StepTo
<1>4. Solves(EntriesUpTo, Len(stack))
  <2> HIDE DEF Solves
  <2> QED BY <1>2, <1>3
<1> QED BY <1>4

(* es holds the entries of the scopes among the lowest k frames that no      *)
(* frame up to the k-th has given up.                                        *)
HoldsEntries(g, k, es) ==
  /\ IsSequence(es) /\ Len(es) = g[k]
  /\ \A h \in 1 .. g[k] : \E j \in 1 .. k :
       /\ HasEntry(stack[j]) /\ g[j] = h /\ es[h] = EntryOf(stack[j])
       /\ \A i \in j .. k : g[i] >= h

(* One more frame, which keeps the entries up to hi.                         *)
LEMMA EntriesKept ==
  ASSUME NEW g, NEW k \in Nat, k > 0, NEW es, HoldsEntries(g, k - 1, es),
         g[k - 1] \in Nat, g[k] \in Nat, g[k] <= g[k - 1],
         NEW new, IsSequence(new), Len(new) = g[k],
         \A h \in 1 .. g[k] : new[h] = es[h]
  PROVE  HoldsEntries(g, k, new)
<1>1. SUFFICES ASSUME NEW h \in 1 .. g[k]
               PROVE  \E j \in 1 .. k :
                        /\ HasEntry(stack[j]) /\ g[j] = h /\ new[h] = EntryOf(stack[j])
                        /\ \A i \in j .. k : g[i] >= h
  BY DEF HoldsEntries
<1>2. h \in 1 .. g[k - 1]
  OBVIOUS
<1>3. PICK j \in 1 .. k - 1 :
        /\ HasEntry(stack[j]) /\ g[j] = h /\ es[h] = EntryOf(stack[j])
        /\ \A i \in j .. k - 1 : g[i] >= h
  BY <1>2 DEF HoldsEntries
<1>4. \A i \in j .. k : g[i] >= h
  <2>1. ASSUME NEW i \in j .. k PROVE g[i] >= h
    <3>1. i \in j .. k - 1 \/ i = k
      OBVIOUS
    <3> QED BY <1>3, <3>1
  <2> QED BY <2>1
<1>5. j \in 1 .. k
  OBVIOUS
<1> QED BY <1>3, <1>4, <1>5

(* One more frame, with an entry of its own.                                 *)
LEMMA EntryAdded ==
  ASSUME NEW g, NEW k \in Nat, k > 0, NEW es, HoldsEntries(g, k - 1, es),
         g[k - 1] \in Nat, g[k] = g[k - 1] + 1, HasEntry(stack[k]),
         NEW new, new = Append(es, EntryOf(stack[k]))
  PROVE  HoldsEntries(g, k, new)
<1>1. IsSequence(es) /\ Len(es) = g[k - 1]
  BY DEF HoldsEntries
<1>2. /\ IsSequence(new) /\ Len(new) = g[k]
      /\ \A h \in 1 .. g[k - 1] : new[h] = es[h]
      /\ new[g[k]] = EntryOf(stack[k])
  BY <1>1, AppendIs
<1>3. ASSUME NEW h \in 1 .. g[k]
      PROVE  \E j \in 1 .. k :
               /\ HasEntry(stack[j]) /\ g[j] = h /\ new[h] = EntryOf(stack[j])
               /\ \A i \in j .. k : g[i] >= h
  <2>1. CASE h = g[k]
    <3>1. \A i \in k .. k : g[i] >= h
      BY <2>1
    <3>2. k \in 1 .. k
      OBVIOUS
    <3> QED BY <1>2, <2>1, <3>1, <3>2
  <2>2. CASE h \in 1 .. g[k - 1]
    <3>1. PICK j \in 1 .. k - 1 :
            /\ HasEntry(stack[j]) /\ g[j] = h /\ es[h] = EntryOf(stack[j])
            /\ \A i \in j .. k - 1 : g[i] >= h
      BY <2>2 DEF HoldsEntries
    <3>2. ASSUME NEW i \in j .. k PROVE g[i] >= h
      <4>1. i \in j .. k - 1 \/ i = k
        OBVIOUS
      <4>2. g[k] >= h
        OBVIOUS
      <4> QED BY <3>1, <4>1, <4>2
    <3>3. j \in 1 .. k
      OBVIOUS
    <3> QED BY <1>2, <2>2, <3>1, <3>2, <3>3
  <2>3. h = g[k] \/ h \in 1 .. g[k - 1]
    OBVIOUS
  <2> QED BY <2>1, <2>2, <2>3
<1> QED BY <1>2, <1>3 DEF HoldsEntries

(* While somebody holds a reference, EntriesUpTo follows the heights.        *)
LEMMA EntriesFollow ==
  ASSUME NEW g, Match(g), Shape(stack), unwind_init_ref > 0, unwind_init_ref \in Nat
  PROVE  HoldsEntries(g, Len(stack), EntriesUpTo[Len(stack)])
<1>1. Len(stack) \in Nat
  BY LengthIs DEF Shape
<1>2. PICK n \in Nat : n = Len(stack)
  BY <1>1
<1>3. \A k \in 0 .. n : g[k] \in Nat
  BY <1>2 DEF Match, Heights
<1>4. \A k \in 0 .. n : EntriesUpTo[k] = StepTo(EntriesUpTo, k)
  BY <1>1, <1>2, EntriesUpToIs
<1> DEFINE T == {k \in 0 .. n : ~HoldsEntries(g, k, EntriesUpTo[k])}
<1>5. ASSUME T # {} PROVE FALSE
  <2>1. T \subseteq Nat
    OBVIOUS
  <2>2. PICK k \in T : \A y \in T : k <= y
    <3> HIDE DEF T
    <3> QED BY <1>5, <2>1, LeastOf
  <2>3. k \in 0 .. n /\ ~HoldsEntries(g, k, EntriesUpTo[k])
    OBVIOUS
  <2>4. CASE k = 0
    <3>1. EntriesUpTo[0] = << >> /\ g[0] = 0
      BY <1>4, <2>3, <2>4 DEF StepTo, Match, Heights
    <3>2. IsSequence(<< >>) /\ Len(<< >>) = 0
      BY DEF IsSequence
    <3> QED BY <2>3, <2>4, <3>1, <3>2 DEF HoldsEntries
  <2>5. CASE k > 0
    <3>1. k \in 1 .. n /\ k - 1 \in 0 .. n /\ k - 1 \notin T
      BY <2>2, <2>3, <2>5
    <3>2. PICK es : es = EntriesUpTo[k - 1]
      OBVIOUS
    <3>3. HoldsEntries(g, k - 1, es)
      BY <3>1, <3>2
    <3>4. EntriesUpTo[k] = WithEntry(es, stack[k])
      BY <1>4, <2>3, <2>5, <3>2 DEF StepTo
    <3>5. IsSequence(es) /\ Len(es) = g[k - 1]
      BY <3>3 DEF HoldsEntries
    <3>6. Level(stack[k], g[k - 1], g[k], k = Len(stack), unwind_init_ref)
      BY <1>2, <3>1 DEF Match, Heights
    <3>7. g[k] \in Nat /\ g[k - 1] \in Nat /\ k \in Nat
      BY <1>3, <2>3, <3>1
    <3>8. CASE HasEntry(stack[k])
      <4>1. g[k] = g[k - 1] + 1
        BY <3>6, <3>8 DEF Level
      <4>2. stack[k].k # "unwind"
        BY <3>8 DEF HasEntry
      <4>3. EntriesUpTo[k] = Append(es, EntryOf(stack[k]))
        BY <3>4, <3>8, <4>2 DEF WithEntry
      <4> QED BY <2>3, <2>5, <3>3, <3>7, <3>8, <4>1, <4>3, EntryAdded
    <3>9. CASE ~HasEntry(stack[k]) /\ stack[k].k = "unwind"
      <4>1. g[k] = stack[k].i /\ g[k] <= g[k - 1]
        BY <3>6, <3>9 DEF Level
      <4>2. (IF g[k] < g[k - 1] THEN g[k] ELSE g[k - 1]) = g[k]
        BY <3>7, <4>1
      <4>3. EntriesUpTo[k] = SubSeq(es, 1, g[k])
        BY <3>4, <3>5, <3>9, <4>1, <4>2 DEF WithEntry
      <4>4. g[k] \in 0 .. Len(es)
        BY <3>5, <3>7, <4>1
      <4>5. /\ IsSequence(EntriesUpTo[k]) /\ Len(EntriesUpTo[k]) = g[k]
            /\ \A h \in 1 .. g[k] : EntriesUpTo[k][h] = es[h]
        BY <3>5, <4>3, <4>4, PrefixIs
      <4> QED BY <2>3, <2>5, <3>3, <3>7, <4>1, <4>5, EntriesKept
    <3>10. CASE ~HasEntry(stack[k]) /\ stack[k].k # "unwind"
      <4>1. \A top : ~Sinks(stack[k], top, unwind_init_ref)
        BY DEF Sinks
      <4>2. g[k] = g[k - 1]
        BY <3>6, <3>10, <4>1 DEF Level
      <4>3. EntriesUpTo[k] = es
        BY <3>4, <3>10 DEF WithEntry
      <4>4. g[k] <= g[k - 1]
        BY <3>7, <4>2
      <4> QED BY <2>3, <2>5, <3>3, <3>5, <3>7, <4>2, <4>3, <4>4, EntriesKept
    <3> QED BY <3>8, <3>9, <3>10
  <2> QED BY <2>3, <2>4, <2>5
<1>6. n \in 0 .. n
  OBVIOUS
<1> QED BY <1>2, <1>5, <1>6

(* Whatever the thread does - leave a scope, unwind out of functions and     *)
(* unwind actions, provide a restart again - its unwind stack is exactly the *)
(* entries of the scopes that are open, in their order.                      *)
THEOREM UnwindStackIsExact == Spec => []UnwindStackMatchesScopes
<1>1. ScopesInv => UnwindStackMatchesScopes
  <2> SUFFICES ASSUME ScopesInv, unwind_init_ref > 0
               PROVE  Live(unwind_stack) = EntriesOfScopes
    BY DEF UnwindStackMatchesScopes
  <2>1. PICK g : Match(g)
    BY DEF ScopesInv
  <2>2. PICK es : es = EntriesUpTo[Len(stack)]
    OBVIOUS
  <2>3. HoldsEntries(g, Len(stack), es)
    BY <2>1, <2>2, EntriesFollow DEF ScopesInv
  <2>4. PICK n : n = Len(stack)
    OBVIOUS
  <2>5. n \in Nat
    BY <2>4, LengthIs DEF ScopesInv, Shape
  <2>6. /\ g[n] = unwind_stack.fill /\ Entries(stack, g, unwind_stack.mem)
        /\ n \in 0 .. n /\ g[n] \in Nat
    BY <2>1, <2>4, <2>5 DEF Match, Heights
  <2>7. IsSequence(es) /\ Len(es) = g[n]
    BY <2>3, <2>4 DEF HoldsEntries
  <2>8. ASSUME NEW h \in 1 .. g[n] PROVE unwind_stack.mem[h] = es[h]
    <3>1. PICK j \in 1 .. n :
            /\ HasEntry(stack[j]) /\ g[j] = h /\ es[h] = EntryOf(stack[j])
            /\ \A i \in j .. n : g[i] >= h
      BY <2>3, <2>4 DEF HoldsEntries
    <3>2. Stays(stack, g, j)
      BY <2>4, <3>1 DEF Stays
    <3> QED BY <2>4, <2>6, <3>1, <3>2 DEF Entries
  <2>9. PICK m : m = unwind_stack.mem
    OBVIOUS
  <2>10. IsSequence(m) /\ Len(m) = g[n]
    BY <2>6, <2>9 DEF ScopesInv, UnwindOK
  <2>11. g[n] \in 0 .. Len(m)
    BY <2>6, <2>10
  <2>12. Live(unwind_stack) = SubSeq(m, 1, g[n])
    BY <2>6, <2>9 DEF Live
  <2>13. PICK l : l = SubSeq(m, 1, g[n])
    OBVIOUS
  <2>14. /\ IsSequence(l) /\ Len(l) = g[n]
         /\ \A h \in 1 .. g[n] : l[h] = m[h]
    BY <2>10, <2>11, <2>13, PrefixIs
  <2>15. l = es
    <3>1. \A h \in 1 .. g[n] : l[h] = es[h]
      BY <2>8, <2>9, <2>14
    <3>2. DOMAIN l = 1 .. g[n] /\ DOMAIN es = 1 .. g[n]
      BY <2>7, <2>14 DEF IsSequence
    <3>3. l = [h \in 1 .. g[n] |-> l[h]] /\ es = [h \in 1 .. g[n] |-> es[h]]
      <4>1. l \in Seq(Range(l)) /\ es \in Seq(Range(es))
        BY <2>7, <2>14 DEF IsSequence
      <4>2. l = [h \in DOMAIN l |-> l[h]] /\ es = [h \in DOMAIN es |-> es[h]]
        BY <4>1
      <4> QED BY <3>2, <4>2
    <3> QED BY <3>1, <3>3
  <2> QED BY <2>2, <2>12, <2>13, <2>15 DEF EntriesOfScopes
<1> QED BY <1>1, ScopesInvariant, PTL

(* The frames after a step: the lowest m of those before it, and new ones    *)

Frames(m, l) ==
  /\ IsSequence(stack') /\ m \in 0 .. Len(stack) /\ Len(stack') = l
  /\ \A k \in 1 .. m : stack'[k] = stack[k]

Frames1(m, f) == Frames(m, m + 1) /\ stack'[m + 1] = f

Frames2(m, f, c) == Frames(m, m + 2) /\ stack'[m + 1] = f /\ stack'[m + 2] = c

LEMMA StackIs ==
  ASSUME ScopesInv
  PROVE  IsSequence(stack) /\ Len(stack) \in Nat \ {0} /\ Len(stack) \in 1 .. Len(stack)
<1>1. IsSequence(stack) /\ Len(stack) \in Nat /\ Len(stack) >= 1
  BY LengthIs DEF ScopesInv, Shape
<1> QED BY <1>1

LEMMA CallFrames ==
  ASSUME ScopesInv, NEW f, stack' = Append(stack, f)
  PROVE  Frames1(Len(stack), f)
<1>1. IsSequence(stack) /\ Len(stack) \in 0 .. Len(stack)
  BY StackIs
<1> QED BY <1>1, AppendIs DEF Frames1, Frames

LEMMA ReturnFrames ==
  ASSUME ScopesInv, Len(stack) > 1, stack' = Below
  PROVE  Frames(Len(stack) - 1, Len(stack) - 1)
<1>1. Len(stack) - 1 \in 0 .. Len(stack)
  BY StackIs
<1> QED BY <1>1, BelowIs DEF Frames

LEMMA TailCallFrames ==
  ASSUME ScopesInv, Len(stack) > 1, NEW c, stack' = Append(Below, c)
  PROVE  Frames1(Len(stack) - 1, c)
<1>1. Len(stack) - 1 \in 0 .. Len(stack)
  BY StackIs
<1>2. PICK b : b = Below
  OBVIOUS
<1>3. /\ IsSequence(b) /\ Len(b) = Len(stack) - 1
      /\ \A k \in 1 .. Len(stack) - 1 : b[k] = stack[k]
  BY <1>2, BelowIs
<1>4. /\ IsSequence(stack') /\ Len(stack') = Len(b) + 1
      /\ \A k \in 1 .. Len(b) : stack'[k] = b[k]
      /\ stack'[Len(b) + 1] = c
  BY <1>2, <1>3, AppendIs
<1> QED BY <1>1, <1>3, <1>4 DEF Frames1, Frames

WithTop(f) == [stack EXCEPT ![Len(stack)] = f]

LEMMA NewTop ==
  ASSUME ScopesInv, NEW f
  PROVE  /\ IsSequence(WithTop(f)) /\ Len(WithTop(f)) = Len(stack) /\ WithTop(f)[Len(stack)] = f
         /\ \A k \in 1 .. Len(stack) : k # Len(stack) => WithTop(f)[k] = stack[k]
<1>1. PICK n : n = Len(stack)
  OBVIOUS
<1>2. IsSequence(stack) /\ n \in 1 .. Len(stack)
  BY <1>1, StackIs
<1>3. WithTop(f) = [stack EXCEPT ![n] = f]
  BY <1>1 DEF WithTop
<1>4. /\ IsSequence([stack EXCEPT ![n] = f]) /\ Len([stack EXCEPT ![n] = f]) = Len(stack)
      /\ \A k \in 1 .. Len(stack) : k # n => [stack EXCEPT ![n] = f][k] = stack[k]
      /\ [stack EXCEPT ![n] = f][n] = f
  BY <1>2, ReplaceIs, ZenonT(30)
<1> QED BY <1>1, <1>3, <1>4, Zenon

LEMMA RewriteFrames ==
  ASSUME ScopesInv, NEW f, stack' = WithTop(f)
  PROVE  Frames1(Len(stack) - 1, f)
<1>1. PICK n : n = Len(stack)
  OBVIOUS
<1>2. n \in Nat \ {0}
  BY <1>1, StackIs
<1>3. /\ IsSequence(stack') /\ Len(stack') = n /\ stack'[n] = f
      /\ \A k \in 1 .. n : k # n => stack'[k] = stack[k]
  BY <1>1, NewTop
<1>4. n - 1 \in 0 .. n /\ n - 1 + 1 = n /\ \A k \in 1 .. n - 1 : k \in 1 .. n /\ k # n
  BY <1>2
<1> QED BY <1>1, <1>3, <1>4 DEF Frames1, Frames

LEMMA RewriteCallFrames ==
  ASSUME ScopesInv, NEW f, NEW c, stack' = Append(WithTop(f), c)
  PROVE  Frames2(Len(stack) - 1, f, c)
<1>1. PICK n, q : n = Len(stack) /\ q = WithTop(f)
  OBVIOUS
<1>2. n \in Nat \ {0}
  BY <1>1, StackIs
<1>3. /\ IsSequence(q) /\ Len(q) = n /\ q[n] = f
      /\ \A k \in 1 .. n : k # n => q[k] = stack[k]
  BY <1>1, NewTop
<1>4. stack' = Append(q, c)
  BY <1>1
<1>5. /\ IsSequence(stack') /\ Len(stack') = Len(q) + 1
      /\ \A k \in 1 .. Len(q) : stack'[k] = q[k]
      /\ stack'[Len(q) + 1] = c
  BY <1>3, <1>4, AppendIs
<1>6. /\ n - 1 \in 0 .. n /\ n - 1 + 1 = n /\ n - 1 + 2 = n + 1 /\ n \in 1 .. n
      /\ \A k \in 1 .. n - 1 : k \in 1 .. n /\ k # n
  BY <1>2
<1>7. \A k \in 1 .. n - 1 : stack'[k] = stack[k]
  BY <1>3, <1>5, <1>6
<1> QED BY <1>1, <1>3, <1>5, <1>6, <1>7 DEF Frames2, Frames

(* A handler returns: _sig_send goes on, or an _unwind starts on top of it.   *)
LEMMA HandlerReturnsFrames ==
  ASSUME ScopesInv, NEW rst, HandlerReturns(rst)
  PROVE  \E f, c :
           /\ Len(stack) - 2 \in Nat /\ stack[Len(stack) - 1].k = "send"
           /\ f.k = "send" /\ f.i = stack[Len(stack) - 1].i
           /\ f.called = stack[Len(stack) - 1].called \cup {Top.id}
           /\ c.k = "unwind"
           /\ Frames1(Len(stack) - 2, f) \/ Frames2(Len(stack) - 2, f, c)
<1>1. PICK g : Match(g)
  BY DEF ScopesInv
<1> DEFINE n == Len(stack)
           o == stack[n - 1]
           r == sig_restart_stack.mem[Max(Chosen(o.sig, rst))]
           c == UnwindFrame(r.p)
           fs == [Below EXCEPT ![n - 1].data = IF @ = "valid" THEN "cleaned" ELSE @,
                               ![n - 1].called = @ \cup {Top.id}]
           f == [o EXCEPT !.data = IF @ = "valid" THEN "cleaned" ELSE @,
                          !.called = @ \cup {Top.id}]
           m == n - 2
<1>2. Top.k = "handler_body" /\ (stack' = fs \/ stack' = Append(fs, c))
  BY DEF HandlerReturns
<1>3. n > 1
  BY <1>2, NotMain
<1>4. n - 1 \in 1 .. n - 1 /\ m \in Nat /\ Above(o, Top) /\ HasFields(o)
  BY <1>1, <1>3, SecondIs
<1>5. o.k = "send"
  BY <1>2, <1>4 DEF Above
<1>6. f.k = "send" /\ f.i = o.i /\ f.called = o.called \cup {Top.id}
  BY <1>4, <1>5 DEF HasFields
<1>7. c.k = "unwind"
  BY DEF UnwindFrame
<1>8. n \in Nat \ {0}
  BY StackIs
<1>9. /\ m + 1 = n - 1 /\ m \in 0 .. n
      /\ \A k \in 1 .. m : k \in 1 .. n - 1 /\ k # n - 1
  BY <1>4, <1>8
<1>10. /\ IsSequence(fs) /\ Len(fs) = m + 1 /\ fs[m + 1] = f
       /\ \A k \in 1 .. m : fs[k] = stack[k]
  <2>1. IsSequence(Below) /\ Len(Below) = n - 1 /\ \A k \in 1 .. n - 1 : Below[k] = stack[k]
    BY <1>3, BelowIs
  <2>2. DOMAIN Below = 1 .. n - 1 /\ Below[n - 1] = o
    <3>1. DOMAIN Below = 1 .. Len(Below)
      BY <2>1 DEF IsSequence
    <3> QED BY <1>4, <2>1, <3>1
  <2> DEFINE w == n - 1
             q == [Below EXCEPT ![w] = f]
  <2>3. fs = q
    <3>1. n - 1 \in DOMAIN Below
      BY <1>4, <2>2
    <3>2. Below[n - 1] = o
      BY <2>2
    <3> HIDE DEF n, o
    <3> QED BY <3>1, <3>2
  <2> HIDE DEF f, o, fs
  <2>4. /\ IsSequence(q) /\ Len(q) = Len(Below) /\ q[w] = f
        /\ \A k \in 1 .. Len(Below) : k # w => q[k] = Below[k]
    <3>1. w \in 1 .. Len(Below)
      BY <1>4, <2>1
    <3>2. IsSequence(Below)
      BY <2>1
    <3> HIDE DEF n, w, m
    <3> QED BY <3>1, <3>2, ReplaceIs
  <2> HIDE DEF q
  <2>5. \A k \in 1 .. m : q[k] = stack[k]
    BY <1>9, <2>1, <2>4
  <2> QED BY <1>9, <2>1, <2>3, <2>4, <2>5
<1> HIDE DEF f, fs, c
<1>11. CASE stack' = fs
  <2>1. Frames1(m, f)
    BY <1>9, <1>10, <1>11 DEF Frames1, Frames
  <2> QED BY <1>4, <1>5, <1>6, <1>7, <2>1
<1>12. CASE stack' = Append(fs, c)
  <2>1. /\ IsSequence(stack') /\ Len(stack') = Len(fs) + 1
        /\ \A k \in 1 .. Len(fs) : stack'[k] = fs[k]
        /\ stack'[Len(fs) + 1] = c
    BY <1>10, <1>12, AppendIs
  <2> DEFINE l == Len(fs)
  <2>2. l = m + 1 /\ l + 1 = m + 2 /\ m + 1 \in 1 .. l /\ \A k \in 1 .. m : k \in 1 .. l
    <3>1. l = m + 1 /\ m \in Nat
      BY <1>4, <1>10
    <3> HIDE DEF l, m
    <3> QED BY <3>1
  <2>3. Frames2(m, f, c)
    BY <1>9, <1>10, <2>1, <2>2 DEF Frames2, Frames
  <2> QED BY <1>4, <1>5, <1>6, <1>7, <2>3
<1> QED BY <1>2, <1>11, <1>12

LEMMA UnwindDoneFrames ==
  ASSUME ScopesInv, UnwindDone
  PROVE  \E f : /\ Top.p \in 1 .. Len(stack) - 1 /\ stack[Top.p].k = "point" /\ f.k = "point"
                /\ f = [stack[Top.p] EXCEPT !.returned = TRUE]
                /\ Frames1(Top.p - 1, f)
<1>1. PICK g : Match(g)
  BY DEF ScopesInv
<1> DEFINE n == Len(stack)
           p == Top.p
           o == stack[p]
           f == [o EXCEPT !.returned = TRUE]
           m == p - 1
<1>2. Top.k = "unwind" /\ stack' = [SubSeq(stack, 1, p) EXCEPT ![p].returned = TRUE]
  BY DEF UnwindDone
<1>3. p \in 1 .. n - 1 /\ o.k = "point"
  BY <1>1, <1>2, TargetIs
<1>4. IsSequence(stack) /\ n \in Nat \ {0}
  BY StackIs
<1>5. HasFields(o)
  <2>1. p \in 1 .. n
    BY <1>3, <1>4
  <2> QED BY <2>1 DEF ScopesInv, Shape
<1>6. f.k = "point"
  BY <1>3, <1>5 DEF HasFields
<1>7. /\ m \in 0 .. n /\ m + 1 = p /\ p \in 0 .. n /\ p \in 1 .. p
      /\ \A k \in 1 .. m : k \in 1 .. p /\ k # p
  <2> HIDE DEF n, p
  <2> QED BY <1>3, <1>4
<1>8. /\ IsSequence(stack') /\ Len(stack') = p /\ stack'[m + 1] = f
      /\ \A k \in 1 .. m : stack'[k] = stack[k]
  <2> DEFINE b == SubSeq(stack, 1, p)
             q == [b EXCEPT ![p] = f]
  <2>1. /\ IsSequence(b) /\ Len(b) = p /\ \A k \in 1 .. p : b[k] = stack[k]
    <3>1. p \in 0 .. Len(stack)
      BY <1>7
    <3> HIDE DEF p, n
    <3> QED BY <1>4, <3>1, PrefixIs
  <2>2. DOMAIN b = 1 .. p
    <3>1. DOMAIN b = 1 .. Len(b)
      BY <2>1 DEF IsSequence
    <3> QED BY <2>1, <3>1
  <2>3. stack' = q
    <3>1. p \in DOMAIN b /\ b[p] = o
      BY <1>7, <2>1, <2>2
    <3>2. stack' = [b EXCEPT ![p].returned = TRUE]
      BY <1>2
    <3> HIDE DEF b, o, p
    <3> QED BY <3>1, <3>2
  <2> HIDE DEF b, f
  <2>4. /\ IsSequence(q) /\ Len(q) = Len(b) /\ q[p] = f
        /\ \A k \in 1 .. Len(b) : k # p => q[k] = b[k]
    <3>1. p \in 1 .. Len(b) /\ IsSequence(b)
      BY <1>7, <2>1
    <3> HIDE DEF p, m, n
    <3> QED BY <3>1, ReplaceIs
  <2> HIDE DEF q
  <2> QED BY <1>7, <2>1, <2>3, <2>4
<1>9. Frames1(m, f)
  BY <1>7, <1>8 DEF Frames1, Frames
<1> QED BY <1>3, <1>6, <1>9

(* One field of the top frame changes.                                        *)
LEMMA FieldOfTop ==
  ASSUME ScopesInv
  PROVE  /\ \A x : [stack EXCEPT ![Len(stack)].i = x] = WithTop([Top EXCEPT !.i = x])
         /\ \A x : [stack EXCEPT ![Len(stack)].stage = x] = WithTop([Top EXCEPT !.stage = x])
         /\ [stack EXCEPT ![Len(stack)].i = @ - 1] = WithTop([Top EXCEPT !.i = @ - 1])
<1>1. Len(stack) \in DOMAIN stack
  BY StackIs DEF IsSequence
<1> QED BY <1>1 DEF WithTop, Top

LEMMA UnwindNextFrames ==
  ASSUME ScopesInv, UnwindNext
  PROVE  \E f, c : /\ f = [Top EXCEPT !.i = @ - 1] /\ f.k = "unwind" /\ c.k = "action_body"
                   /\ \/ Frames1(Len(stack) - 1, f)
                      \/ Frames2(Len(stack) - 1, f, c)
<1>1. PICK f : f = [Top EXCEPT !.i = @ - 1]
  OBVIOUS
<1>2. PICK e : Top.k = "unwind" /\ CallAction(e, [stack EXCEPT ![Len(stack)].i = @ - 1], Top.i - 1)
  BY DEF UnwindNext
<1>3. [stack EXCEPT ![Len(stack)].i = @ - 1] = WithTop(f)
  BY <1>1, FieldOfTop
<1>4. f.k = "unwind"
  BY <1>1, <1>2, TopFields DEF HasFields
<1>5. PICK c : c = [k |-> "action_body", n |-> e.arg, base |-> Top.i - 1]
  OBVIOUS
<1>6. stack' = WithTop(f) \/ stack' = Append(WithTop(f), c)
  BY <1>2, <1>3, <1>5 DEF CallAction
<1>7. c.k = "action_body"
  BY <1>5
<1> QED BY <1>1, <1>4, <1>6, <1>7, RewriteFrames, RewriteCallFrames

-----------------------------------------------------------------------------
(* The heights of the frames a step keeps do not change                     *)

HeightOver(f, lo) == IF HasEntry(f) THEN lo + 1 ELSE IF f.k = "unwind" THEN f.i ELSE lo

LEMMA LevelIs ==
  ASSUME NEW f, NEW lo, NEW hi, NEW top, NEW ref, Level(f, lo, hi, top, ref), ~Sinks(f, top, ref)
  PROVE  hi = HeightOver(f, lo)
BY DEF Level, HeightOver, HasEntry

(* The k-th frame of st has its height from the frame above it, or from the   *)
(* one below.                                                                 *)
LEMMA HeightInside ==
  ASSUME NEW st, NEW ref, NEW g, Heights(st, ref, g), Bases(st, g), Len(st) \in Nat,
         NEW k \in 1 .. Len(st) - 1
  PROVE  /\ st[k].k = "cleanup" => g[k] = st[k + 1].base + 1
         /\ st[k].k # "cleanup" => g[k] = HeightOver(st[k], g[k - 1])
<1>1. k \in 1 .. Len(st) /\ (k = Len(st)) = FALSE
  OBVIOUS
<1>2. Level(st[k], g[k - 1], g[k], FALSE, ref)
  BY <1>1 DEF Heights
<1>3. st[k].k # "cleanup" => ~Sinks(st[k], FALSE, ref)
  BY DEF Sinks
<1>4. st[k].k = "cleanup" => st[k + 1].base \in Nat /\ st[k + 1].base + 1 = g[k]
  BY DEF Bases
<1> QED BY <1>2, <1>3, <1>4, LevelIs

LEMMA SameHeights ==
  ASSUME NEW st, NEW ref, NEW g, Heights(st, ref, g), Bases(st, g), Len(st) \in Nat,
         NEW new, NEW ref2, NEW h, Heights(new, ref2, h), Bases(new, h), Len(new) \in Nat,
         NEW m, m \in 0 .. Len(st), m <= Len(new), \A k \in 1 .. m : new[k] = st[k]
  PROVE  \A k \in 0 .. m : k < m \/ k = 0 => h[k] = g[k]
<1> DEFINE T == {k \in 0 .. m : (k < m \/ k = 0) /\ h[k] # g[k]}
<1> SUFFICES ASSUME T # {} PROVE FALSE
  OBVIOUS
<1>1. T \subseteq Nat
  OBVIOUS
<1>2. PICK k \in T : \A y \in T : k <= y
  BY <1>1, LeastOf
<1>3. k # 0
  BY <1>2 DEF Heights
<1>4. k \in 1 .. m - 1 /\ k - 1 \in 0 .. m /\ k - 1 < m /\ ~(k <= k - 1)
  BY <1>2, <1>3
<1>5. h[k - 1] = g[k - 1]
  BY <1>2, <1>4
<1>6. k \in 1 .. Len(st) - 1 /\ k \in 1 .. Len(new) - 1 /\ k \in 1 .. m /\ k + 1 \in 1 .. m
  BY <1>4
<1>7. /\ st[k].k = "cleanup" => g[k] = st[k + 1].base + 1
      /\ st[k].k # "cleanup" => g[k] = HeightOver(st[k], g[k - 1])
  BY <1>6, HeightInside
<1>8. /\ new[k].k = "cleanup" => h[k] = new[k + 1].base + 1
      /\ new[k].k # "cleanup" => h[k] = HeightOver(new[k], h[k - 1])
  BY <1>6, HeightInside
<1>9. h[k] = g[k]
  BY <1>5, <1>6, <1>7, <1>8
<1> QED BY <1>2, <1>9

LEMMA SameHeight ==
  ASSUME NEW st, NEW ref, NEW g, Heights(st, ref, g), Len(st) \in Nat,
         NEW new, NEW ref2, NEW h, Heights(new, ref2, h), Len(new) \in Nat,
         NEW m, m \in 1 .. Len(st), m <= Len(new), new[m] = st[m], h[m - 1] = g[m - 1],
         st[m].k # "cleanup",
         st[m].k = "catchall" /\ st[m].stage = "cleaned" => ref # 0 /\ ref2 # 0
  PROVE  h[m] = g[m]
<1>0. \A top : ~Sinks(st[m], top, ref) /\ ~Sinks(st[m], top, ref2)
  BY DEF Sinks
<1>1. \E top : Level(st[m], g[m - 1], g[m], top, ref)
  BY DEF Heights
<1>2. m \in 1 .. Len(new)
  OBVIOUS
<1>3. \E top : Level(st[m], h[m - 1], h[m], top, ref2)
  BY <1>2 DEF Heights
<1>4. g[m] = HeightOver(st[m], g[m - 1]) /\ h[m] = HeightOver(st[m], h[m - 1])
  BY <1>0, <1>1, <1>3, LevelIs
<1> QED BY <1>4

-----------------------------------------------------------------------------
(* How often the actions of the scopes were started                         *)

(* unwind_cleanup is running the k-th frame's action: its entry is still      *)
(* there.                                                                     *)
Running(st, g, k) == \E c \in k + 1 .. Len(st) - 1 : st[c].k = "cleanup" /\ g[c] = g[k]

(* An action was not started while its entry is there, unless that is being   *)
(* run, and was started once when it is gone; only actions that               *)
(* unwind_cleanup has started can be started again, by an _unwind out of it.  *)
Accounts(st, g, ref, rn, k) ==
  /\ Stays(st, g, k) /\ Running(st, g, k) => rn[st[k].n] = 1
  /\ Stays(st, g, k) /\ ~Running(st, g, k) => rn[st[k].n] = 0
  /\ ~Stays(st, g, k) => rn[st[k].n] = 1 \/ (ref = 0 /\ rn[st[k].n] = 2)

(* An _unwind out of unwind_cleanup goes on below the entry being run.        *)
Escapes(st, g, u) ==
  \A c \in st[u].p + 1 .. u - 1 : st[c].k = "cleanup" => st[st[u].p].to < g[c]

OneOf(st, k) ==
  /\ st[k].k = "action" => \A j \in 1 .. Len(st) : st[j].k = "action" /\ st[j].n = st[k].n => j = k
  /\ st[k].k = "cleanup" => \A j \in 1 .. Len(st) : st[j].k = "cleanup" => j = k

RunsMatch(st, g, ref, rn) ==
  \A k \in 1 .. Len(st) :
    /\ st[k].k = "action" => st[k].n \in Acts /\ Accounts(st, g, ref, rn, k)
    /\ st[k].k = "unwind" => Escapes(st, g, k)
    /\ OneOf(st, k)

RunsInv == \E g : Match(g) /\ RunsMatch(stack, g, unwind_init_ref, runs)

LEMMA RunsCarry ==
  ASSUME NEW st, NEW g, NEW ref, NEW rn, RunsMatch(st, g, ref, rn), Len(st) \in Nat,
         Targets(st, g),
         NEW new, NEW h, NEW ref2, NEW rn2, Len(new) \in Nat,
         NEW m, m \in 0 .. Len(st), m <= Len(new), \A k \in 1 .. m : new[k] = st[k],
         \A k \in 0 .. m : k < m => h[k] = g[k],
         \A k \in 1 .. m : st[k].k = "action" => Accounts(new, h, ref2, rn2, k),
         \A k \in m + 1 .. Len(new) :
           /\ new[k].k = "action" => new[k].n \in Acts /\ Accounts(new, h, ref2, rn2, k)
           /\ new[k].k = "unwind" => Escapes(new, h, k)
           /\ OneOf(new, k)
  PROVE  RunsMatch(new, h, ref2, rn2)
<1> SUFFICES ASSUME NEW k \in 1 .. Len(new)
             PROVE  /\ new[k].k = "action" => new[k].n \in Acts /\ Accounts(new, h, ref2, rn2, k)
                    /\ new[k].k = "unwind" => Escapes(new, h, k)
                    /\ OneOf(new, k)
  BY DEF RunsMatch
<1>1. CASE k > m
  <2>1. k \in m + 1 .. Len(new)
    BY <1>1
  <2> QED BY <2>1
<1>2. CASE k <= m
  <2>1. k \in 1 .. m /\ k \in 1 .. Len(st) /\ new[k] = st[k]
    BY <1>2
  <2>2. new[k].k = "action" => new[k].n \in Acts /\ Accounts(new, h, ref2, rn2, k)
    BY <2>1 DEF RunsMatch
  <2>3. ASSUME new[k].k = "unwind" PROVE Escapes(new, h, k)
    <3>1. Escapes(st, g, k) /\ st[k].p \in 1 .. k - 1
      BY <2>1, <2>3 DEF RunsMatch, Targets
    <3>2. st[k].p \in 1 .. m /\ new[st[k].p] = st[st[k].p]
      BY <2>1, <3>1
    <3>3. \A c \in st[k].p + 1 .. k - 1 : new[c] = st[c] /\ h[c] = g[c]
      BY <2>1, <3>1
    <3> QED BY <2>1, <3>1, <3>2, <3>3 DEF Escapes
  <2>4. OneOf(new, k)
    <3>1. OneOf(st, k)
      BY <2>1 DEF RunsMatch
    <3>2. ASSUME NEW j \in 1 .. Len(new), new[j].k = new[k].k, new[k].k \in {"action", "cleanup"},
                 new[k].k = "action" => new[j].n = new[k].n
          PROVE  j = k
      <4>1. CASE j <= m
        <5>1. j \in 1 .. m /\ j \in 1 .. Len(st) /\ new[j] = st[j]
          BY <4>1
        <5> QED BY <2>1, <3>1, <3>2, <5>1 DEF OneOf
      <4>2. CASE j > m
        <5>1. OneOf(new, j)
          BY <4>2
        <5> QED BY <3>2, <5>1 DEF OneOf
      <4> QED BY <4>1, <4>2
    <3> QED BY <3>2 DEF OneOf
  <2> QED BY <2>2, <2>3, <2>4
<1> QED BY <1>1, <1>2

LEMMA AccountsSame ==
  ASSUME NEW st, NEW g, NEW ref, NEW rn, NEW new, NEW h, NEW ref2, NEW rn2, NEW k,
         Accounts(st, g, ref, rn, k), new[k] = st[k], rn2[st[k].n] = rn[st[k].n],
         ref = 0 => ref2 = 0,
         Stays(new, h, k) <=> Stays(st, g, k),
         Stays(st, g, k) => (Running(new, h, k) <=> Running(st, g, k))
  PROVE  Accounts(new, h, ref2, rn2, k)
BY DEF Accounts

(* Whether a frame stays depends on the frames that are kept, if no other one *)
(* sinks below them.                                                          *)
LEMMA StaysSame ==
  ASSUME NEW st, NEW g, NEW new, NEW h, Len(st) \in Nat, Len(new) \in Nat,
         NEW m, m \in 1 .. Len(st), m <= Len(new), \A k \in 0 .. m : h[k] = g[k] /\ g[k] \in Nat,
         \A j \in m + 1 .. Len(st) : g[j] \in Nat /\ g[j] >= g[m],
         \A j \in m + 1 .. Len(new) : h[j] \in Nat /\ h[j] >= g[m],
         NEW k \in 1 .. m
  PROVE  Stays(new, h, k) <=> Stays(st, g, k)
<1>1. m \in k .. m /\ k \in 0 .. m /\ m \in 0 .. m
  OBVIOUS
<1>2. ASSUME \A j \in k .. m : g[j] >= g[k] PROVE Stays(st, g, k) /\ Stays(new, h, k)
  <2>1. g[m] >= g[k] /\ g[m] \in Nat /\ g[k] \in Nat /\ h[k] = g[k]
    BY <1>1, <1>2
  <2>2. \A j \in k .. Len(st) : g[j] >= g[k]
    <3> SUFFICES ASSUME NEW j \in k .. Len(st) PROVE g[j] >= g[k]
      OBVIOUS
    <3>1. CASE j \in k .. m
      BY <1>2, <3>1
    <3>2. CASE j \in m + 1 .. Len(st)
      BY <2>1, <3>2
    <3> QED BY <3>1, <3>2
  <2>3. \A j \in k .. Len(new) : h[j] >= g[k]
    <3> SUFFICES ASSUME NEW j \in k .. Len(new) PROVE h[j] >= g[k]
      OBVIOUS
    <3>1. CASE j \in k .. m
      <4>1. j \in 0 .. m
        BY <3>1
      <4> QED BY <1>2, <3>1, <4>1
    <3>2. CASE j \in m + 1 .. Len(new)
      BY <2>1, <3>2
    <3> QED BY <3>1, <3>2
  <2> QED BY <2>1, <2>2, <2>3 DEF Stays
<1>3. ASSUME Stays(st, g, k) PROVE \A j \in k .. m : g[j] >= g[k]
  <2>1. \A j \in k .. m : j \in k .. Len(st)
    OBVIOUS
  <2> QED BY <1>3, <2>1 DEF Stays
<1>4. ASSUME Stays(new, h, k) PROVE \A j \in k .. m : g[j] >= g[k]
  <2>1. \A j \in k .. m : j \in k .. Len(new) /\ j \in 0 .. m
    OBVIOUS
  <2> QED BY <1>1, <1>4, <2>1 DEF Stays
<1> QED BY <1>2, <1>3, <1>4

(* ... and whether its action is being run, if no cleanup comes or goes.      *)
LEMMA RunningSame ==
  ASSUME NEW st, NEW g, NEW new, NEW h, Len(st) \in Nat, Len(new) \in Nat,
         NEW m, m \in 1 .. Len(st), m <= Len(new), \A k \in 0 .. m : h[k] = g[k],
         \A k \in 1 .. m : new[k] = st[k],
         st[m].k = "cleanup" => m < Len(st) /\ m < Len(new),
         \A j \in m + 1 .. Len(st) - 1 : st[j].k # "cleanup",
         \A j \in m + 1 .. Len(new) - 1 : new[j].k # "cleanup",
         NEW k \in 1 .. m
  PROVE  Running(new, h, k) <=> Running(st, g, k)
<1>0. k \in 0 .. m
  OBVIOUS
<1>1. ASSUME NEW c \in k + 1 .. Len(st) - 1, st[c].k = "cleanup", g[c] = g[k]
      PROVE  c \in k + 1 .. Len(new) - 1 /\ new[c].k = "cleanup" /\ h[c] = h[k]
  <2>1. c \notin m + 1 .. Len(st) - 1
    BY <1>1
  <2>2. c \in 1 .. m /\ c \in 0 .. m
    BY <1>1, <2>1
  <2>3. new[c] = st[c] /\ h[c] = g[c] /\ h[k] = g[k]
    BY <1>0, <2>2
  <2>4. c < m \/ m < Len(new)
    BY <1>1, <2>2
  <2>5. c \in k + 1 .. Len(new) - 1
    BY <1>1, <2>2, <2>4
  <2> QED BY <1>1, <2>3, <2>5
<1>2. ASSUME NEW c \in k + 1 .. Len(new) - 1, new[c].k = "cleanup", h[c] = h[k]
      PROVE  c \in k + 1 .. Len(st) - 1 /\ st[c].k = "cleanup" /\ g[c] = g[k]
  <2>1. c \notin m + 1 .. Len(new) - 1
    BY <1>2
  <2>2. c \in 1 .. m /\ c \in 0 .. m
    BY <1>2, <2>1
  <2>3. new[c] = st[c] /\ h[c] = g[c] /\ h[k] = g[k]
    BY <1>0, <2>2
  <2>4. c < m \/ m < Len(st)
    BY <1>2, <2>2, <2>3
  <2>5. c \in k + 1 .. Len(st) - 1
    BY <1>2, <2>2, <2>4
  <2> QED BY <1>2, <2>3, <2>5
<1> QED BY <1>1, <1>2 DEF Running

-----------------------------------------------------------------------------
(* Steps that leave alone what the lowest m frames count                    *)

(* The m-th frame keeps its height, whatever is above it.                     *)
Settled(m) ==
  m > 0 => /\ stack[m].k # "cleanup"
           /\ stack[m].k = "catchall" /\ stack[m].stage = "cleaned" =>
                unwind_init_ref # 0 /\ unwind_init_ref' # 0

(* What Match says of the stack after a step.                                 *)
LEMMA NewHeightsAre ==
  ASSUME ScopesInv', NEW h, Match(h)'
  PROVE  /\ Heights(stack', unwind_init_ref', h) /\ Bases(stack', h) /\ Targets(stack', h)
         /\ Len(stack') \in Nat \ {0} /\ h \in [0 .. Len(stack') -> Nat]
         /\ h[Len(stack')] = unwind_stack'.fill /\ unwind_stack'.fill \in Nat
<1>1. Heights(stack', unwind_init_ref', h) /\ Bases(stack', h) /\ Targets(stack', h)
      /\ h[Len(stack')] = unwind_stack'.fill
  BY DEF Match
<1>2. IsSequence(stack') /\ Len(stack') >= 1
  BY DEF ScopesInv, Shape
<1>3. Len(stack') \in Nat
  BY <1>2, LengthIs
<1>4. h \in [0 .. Len(stack') -> Nat] /\ Len(stack') \in 0 .. Len(stack')
  BY <1>1, <1>3 DEF Heights
<1> QED BY <1>1, <1>2, <1>3, <1>4

LEMMA OldHeightsAre ==
  ASSUME ScopesInv, NEW g, Match(g)
  PROVE  /\ Heights(stack, unwind_init_ref, g) /\ Bases(stack, g) /\ Targets(stack, g)
         /\ Len(stack) \in Nat \ {0} /\ g \in [0 .. Len(stack) -> Nat]
         /\ g[Len(stack)] = unwind_stack.fill /\ unwind_stack.fill \in Nat
         /\ g[0] = 0
BY TopIs DEF Match, Heights

LEMMA LowHeights ==
  ASSUME ScopesInv, ScopesInv', NEW g, NEW h, Match(g), Match(h)', NEW m, NEW l, Frames(m, l), m <= l
  PROVE  \A k \in 0 .. m : k < m \/ k = 0 => h[k] = g[k]
<1>1. Heights(stack, unwind_init_ref, g) /\ Bases(stack, g) /\ Len(stack) \in Nat
  BY OldHeightsAre
<1>2. Heights(stack', unwind_init_ref', h) /\ Bases(stack', h) /\ Len(stack') \in Nat
  BY NewHeightsAre
<1>3. m \in 0 .. Len(stack) /\ m <= Len(stack') /\ \A k \in 1 .. m : stack'[k] = stack[k]
  BY DEF Frames
<1> QED BY <1>1, <1>2, <1>3, SameHeights

LEMMA KeptHeights ==
  ASSUME ScopesInv, ScopesInv', NEW g, NEW h, Match(g), Match(h)', NEW m, NEW l, Frames(m, l), m <= l,
         Settled(m)
  PROVE  \A k \in 0 .. m : h[k] = g[k] /\ g[k] \in Nat
<1>1. Heights(stack, unwind_init_ref, g) /\ Len(stack) \in Nat /\ g \in [0 .. Len(stack) -> Nat]
  BY OldHeightsAre
<1>2. Heights(stack', unwind_init_ref', h) /\ Len(stack') \in Nat
  BY NewHeightsAre
<1>3. m \in 0 .. Len(stack) /\ m <= Len(stack') /\ \A k \in 1 .. m : stack'[k] = stack[k]
  BY DEF Frames
<1>4. \A k \in 0 .. m : k < m \/ k = 0 => h[k] = g[k]
  BY LowHeights
<1>5. \A k \in 0 .. m : g[k] \in Nat
  BY <1>1, <1>3
<1>6. ASSUME m > 0 PROVE h[m] = g[m]
  <2>1. m \in 1 .. Len(stack) /\ m \in 1 .. m /\ m - 1 \in 0 .. m /\ m - 1 < m
    BY <1>1, <1>3, <1>6
  <2>2. stack'[m] = stack[m] /\ h[m - 1] = g[m - 1]
    BY <1>3, <1>4, <2>1
  <2>3. /\ stack[m].k # "cleanup"
        /\ stack[m].k = "catchall" /\ stack[m].stage = "cleaned" =>
             unwind_init_ref # 0 /\ unwind_init_ref' # 0
    BY <1>6 DEF Settled
  <2> QED BY <1>1, <1>2, <1>3, <2>1, <2>2, <2>3, SameHeight
<1> QED BY <1>1, <1>3, <1>4, <1>5, <1>6

(* A new frame counts right.                                                  *)
NewRuns(h, k) ==
  /\ stack'[k].k = "action" =>
       stack'[k].n \in Acts /\ Accounts(stack', h, unwind_init_ref', runs', k)
  /\ stack'[k].k = "unwind" => Escapes(stack', h, k)
  /\ OneOf(stack', k)

(* A step that comes and goes with frames that are not running an entry, at   *)
(* heights not below the m-th, and runs no action of the lowest m.            *)
Quiet(g, h, m, l) ==
  /\ Settled(m)
  /\ unwind_init_ref = 0 => unwind_init_ref' = 0
  /\ \A k \in 1 .. m : stack[k].k = "action" => runs'[stack[k].n] = runs[stack[k].n]
  /\ \A j \in m + 1 .. Len(stack) : g[j] >= g[m]
  /\ \A j \in m + 1 .. l : h[j] >= h[m]
  /\ \A k \in m + 1 .. l : NewRuns(h, k)

LEMMA QuietRuns ==
  ASSUME ScopesInv, ScopesInv', NEW g, NEW h, Match(g), Match(h)',
         RunsMatch(stack, g, unwind_init_ref, runs),
         NEW m, NEW l, Frames(m, l), m <= l, Quiet(g, h, m, l),
         \A k \in 1 .. m : Stays(stack, g, k) => (Running(stack', h, k) <=> Running(stack, g, k))
  PROVE  RunsMatch(stack', h, unwind_init_ref', runs')
<1>1. Len(stack) \in Nat /\ g \in [0 .. Len(stack) -> Nat] /\ Targets(stack, g)
  BY OldHeightsAre
<1>2. Len(stack') \in Nat /\ Len(stack') = l /\ h \in [0 .. l -> Nat]
  BY NewHeightsAre DEF Frames
<1>3. m \in 0 .. Len(stack) /\ m <= Len(stack') /\ \A k \in 1 .. m : stack'[k] = stack[k]
  BY DEF Frames
<1>4. \A k \in 0 .. m : h[k] = g[k] /\ g[k] \in Nat
  BY KeptHeights DEF Quiet
<1>5. ASSUME NEW k \in 1 .. m, stack[k].k = "action"
      PROVE  Accounts(stack', h, unwind_init_ref', runs', k)
  <2>1. m \in 1 .. Len(stack) /\ k \in 1 .. Len(stack) /\ m \in 0 .. m
    BY <1>1, <1>3
  <2>2. /\ \A j \in m + 1 .. Len(stack) : g[j] \in Nat /\ g[j] >= g[m]
        /\ \A j \in m + 1 .. Len(stack') : h[j] \in Nat /\ h[j] >= g[m]
    <3>1. \A j \in m + 1 .. Len(stack) : j \in 0 .. Len(stack)
      BY <1>1, <1>3
    <3>2. \A j \in m + 1 .. Len(stack') : j \in 0 .. l /\ j \in m + 1 .. l
      BY <1>1, <1>2, <1>3
    <3> QED BY <1>1, <1>2, <1>4, <2>1, <3>1, <3>2 DEF Quiet
  <2>3. Stays(stack', h, k) <=> Stays(stack, g, k)
    BY <1>1, <1>2, <1>3, <1>4, <2>1, <2>2, StaysSame
  <2>4. Accounts(stack, g, unwind_init_ref, runs, k)
    BY <1>5, <2>1 DEF RunsMatch
  <2>5. /\ stack'[k] = stack[k] /\ runs'[stack[k].n] = runs[stack[k].n]
        /\ unwind_init_ref = 0 => unwind_init_ref' = 0
        /\ Stays(stack, g, k) => (Running(stack', h, k) <=> Running(stack, g, k))
    BY <1>3, <1>5 DEF Quiet
  <2> QED BY <2>3, <2>4, <2>5, AccountsSame
<1>6. \A k \in m + 1 .. Len(stack') :
        /\ stack'[k].k = "action" =>
             stack'[k].n \in Acts /\ Accounts(stack', h, unwind_init_ref', runs', k)
        /\ stack'[k].k = "unwind" => Escapes(stack', h, k)
        /\ OneOf(stack', k)
  BY <1>2 DEF Quiet, NewRuns
<1>7. \A k \in 0 .. m : k < m => h[k] = g[k]
  BY <1>4
<1> QED BY <1>1, <1>2, <1>3, <1>5, <1>6, <1>7, RunsCarry

(* No unwind_cleanup comes or goes.                                           *)
LEMMA QuietFrames ==
  ASSUME ScopesInv, ScopesInv', NEW g, NEW h, Match(g), Match(h)',
         RunsMatch(stack, g, unwind_init_ref, runs),
         NEW m, NEW l, Frames(m, l), m <= l, Quiet(g, h, m, l),
         \A j \in m + 1 .. Len(stack) - 1 : stack[j].k # "cleanup",
         \A j \in m + 1 .. l - 1 : stack'[j].k # "cleanup"
  PROVE  RunsMatch(stack', h, unwind_init_ref', runs')
<1>1. Len(stack) \in Nat
  BY OldHeightsAre
<1>2. Len(stack') \in Nat /\ Len(stack') = l
  BY NewHeightsAre DEF Frames
<1>3. m \in 0 .. Len(stack) /\ m <= Len(stack') /\ \A k \in 1 .. m : stack'[k] = stack[k]
  BY DEF Frames
<1>4. \A k \in 0 .. m : h[k] = g[k] /\ g[k] \in Nat
  BY KeptHeights DEF Quiet
<1>5. ASSUME NEW k \in 1 .. m PROVE Running(stack', h, k) <=> Running(stack, g, k)
  <2>1. m \in 1 .. Len(stack) /\ m > 0
    BY <1>1, <1>3
  <2>2. stack[m].k # "cleanup"
    BY <2>1 DEF Quiet, Settled
  <2>3. \A j \in m + 1 .. Len(stack') - 1 : stack'[j].k # "cleanup"
    BY <1>2
  <2> QED BY <1>1, <1>2, <1>3, <1>4, <2>1, <2>2, <2>3, RunningSame
<1> QED BY <1>5, QuietRuns

(* Frames that leave the entries below them where they are.                   *)
Rises(f, ref) ==
  /\ f.k # "unwind"
  /\ f.k = "cleanup" \/ (f.k = "catchall" /\ f.stage = "cleaned") => ref # 0

LEMMA LevelRises ==
  ASSUME NEW f, NEW lo \in Nat, NEW hi \in Nat, NEW ref, \E top : Level(f, lo, hi, top, ref),
         Rises(f, ref)
  PROVE  hi >= lo
<1>1. PICK top : Level(f, lo, hi, top, ref)
  OBVIOUS
<1>2. ~Sinks(f, top, ref) /\ f.k # "unwind"
  BY DEF Sinks, Rises
<1>3. hi = IF HasEntry(f) THEN lo + 1 ELSE lo
  BY <1>1, <1>2, LevelIs DEF HeightOver
<1> QED BY <1>3

LEMMA HeightsRise ==
  ASSUME NEW st, NEW ref, NEW g, Heights(st, ref, g), Len(st) \in Nat,
         NEW k \in 1 .. Len(st), Rises(st[k], ref)
  PROVE  g[k] >= g[k - 1] /\ g[k] \in Nat /\ g[k - 1] \in Nat
<1>1. \E top : Level(st[k], g[k - 1], g[k], top, ref)
  BY DEF Heights
<1>2. k \in 0 .. Len(st) /\ k - 1 \in 0 .. Len(st)
  OBVIOUS
<1>3. g[k] \in Nat /\ g[k - 1] \in Nat
  BY <1>2 DEF Heights
<1> QED BY <1>1, <1>3, LevelRises

(* A frame that is neither an action's, an unwind's nor a cleanup's counts    *)
(* nothing.                                                                   *)
Plain(f) == f.k \notin {"action", "unwind", "cleanup"} /\ (f.k = "catchall" => f.stage # "cleaned")

LEMMA PlainCounts ==
  ASSUME ScopesInv', NEW h, Match(h)', NEW k \in 1 .. Len(stack'), Plain(stack'[k])
  PROVE  h[k] >= h[k - 1] /\ h[k] \in Nat /\ h[k - 1] \in Nat /\ NewRuns(h, k)
<1>1. Heights(stack', unwind_init_ref', h) /\ Len(stack') \in Nat
  BY NewHeightsAre
<1>2. Rises(stack'[k], unwind_init_ref')
  BY DEF Plain, Rises
<1>3. NewRuns(h, k)
  BY DEF Plain, NewRuns, OneOf
<1> QED BY <1>1, <1>2, <1>3, HeightsRise

(* The frames that go, at most two, left the entries below them alone.        *)
Goes(m) ==
  /\ Settled(m)
  /\ Len(stack) <= m + 2
  /\ \A j \in m + 1 .. Len(stack) : Rises(stack[j], unwind_init_ref)
  /\ \A j \in m + 1 .. Len(stack) - 1 : stack[j].k # "cleanup"
  /\ unwind_init_ref = 0 => unwind_init_ref' = 0
  /\ \A k \in 1 .. m : stack[k].k = "action" => runs'[stack[k].n] = runs[stack[k].n]

LEMMA GoesRise ==
  ASSUME ScopesInv, NEW g, Match(g), NEW m \in 0 .. Len(stack), Goes(m)
  PROVE  \A j \in m + 1 .. Len(stack) : g[j] >= g[m]
<1>1. Heights(stack, unwind_init_ref, g) /\ Len(stack) \in Nat
  BY OldHeightsAre
<1>2. ASSUME NEW j \in m + 1 .. Len(stack)
      PROVE  g[j] >= g[j - 1] /\ g[j] \in Nat /\ g[j - 1] \in Nat
  <2>1. j \in 1 .. Len(stack)
    BY <1>1
  <2> QED BY <1>1, <2>1, HeightsRise DEF Goes
<1> SUFFICES ASSUME NEW j \in m + 1 .. Len(stack) PROVE g[j] >= g[m]
  OBVIOUS
<1>3. CASE j = m + 1
  <2>1. j - 1 = m
    BY <1>1, <1>3
  <2> QED BY <1>2, <2>1
<1>4. CASE j = m + 2
  <2>1. m + 1 \in m + 1 .. Len(stack) /\ m + 1 - 1 = m /\ j - 1 = m + 1
    BY <1>1, <1>4
  <2>2. g[j] >= g[m + 1] /\ g[j] \in Nat /\ g[m + 1] \in Nat
    BY <1>2, <2>1
  <2>3. g[m + 1] >= g[m] /\ g[m] \in Nat
    BY <1>2, <2>1
  <2> QED BY <2>2, <2>3
<1> QED BY <1>1, <1>3, <1>4 DEF Goes

LEMMA GoesRuns ==
  ASSUME ScopesInv, ScopesInv', NEW g, NEW h, Match(g), Match(h)',
         RunsMatch(stack, g, unwind_init_ref, runs),
         NEW m, NEW l, Frames(m, l), m <= l, Goes(m),
         \A j \in m + 1 .. l - 1 : stack'[j].k # "cleanup",
         \A k \in m + 1 .. l : h[k] >= h[m] /\ NewRuns(h, k)
  PROVE  RunsInv'
<1>1. m \in 0 .. Len(stack)
  BY DEF Frames
<1>2. \A j \in m + 1 .. Len(stack) : g[j] >= g[m]
  BY <1>1, GoesRise
<1>3. Quiet(g, h, m, l)
  BY <1>2 DEF Quiet, Goes
<1>4. \A j \in m + 1 .. Len(stack) - 1 : stack[j].k # "cleanup"
  BY DEF Goes
<1>5. RunsMatch(stack', h, unwind_init_ref', runs')
  BY <1>3, <1>4, QuietFrames
<1> QED BY <1>5 DEF RunsInv

(* Nothing comes that counts.                                                 *)
LEMMA PlainRuns ==
  ASSUME ScopesInv, ScopesInv', RunsInv, NEW m, NEW l, Frames(m, l), m <= l, l <= m + 2, Goes(m),
         \A k \in m + 1 .. l : Plain(stack'[k])
  PROVE  RunsInv'
<1>1. PICK g : Match(g) /\ RunsMatch(stack, g, unwind_init_ref, runs)
  BY DEF RunsInv
<1>2. PICK h : Match(h)'
  BY DEF ScopesInv
<1>3. l = Len(stack') /\ l \in Nat /\ m \in Nat
  <2>1. Len(stack) \in Nat /\ Len(stack') \in Nat
    BY <1>1, <1>2, OldHeightsAre, NewHeightsAre
  <2> QED BY <2>1 DEF Frames
<1>4. ASSUME NEW k \in m + 1 .. l
      PROVE  h[k] >= h[k - 1] /\ h[k] \in Nat /\ h[k - 1] \in Nat /\ NewRuns(h, k)
  <2>1. k \in 1 .. Len(stack')
    BY <1>3
  <2> QED BY <1>2, <2>1, PlainCounts
<1>5. ASSUME NEW k \in m + 1 .. l PROVE h[k] >= h[m]
  <2>1. CASE k = m + 1
    <3>1. k - 1 = m
      BY <1>3, <2>1
    <3> QED BY <1>4, <3>1
  <2>2. CASE k = m + 2
    <3>1. PICK j : j = m + 1
      OBVIOUS
    <3>2. j \in m + 1 .. l /\ j - 1 = m /\ k - 1 = j
      BY <1>3, <2>2, <3>1
    <3>3. h[k] >= h[j] /\ h[k] \in Nat /\ h[j] \in Nat
      BY <1>4, <3>2
    <3>4. h[j] >= h[m] /\ h[m] \in Nat
      BY <1>4, <3>2
    <3> QED BY <3>3, <3>4
  <2> QED BY <1>3, <2>1, <2>2
<1>6. \A j \in m + 1 .. l - 1 : stack'[j].k # "cleanup"
  <2>1. \A j \in m + 1 .. l - 1 : j \in m + 1 .. l
    BY <1>3
  <2> QED BY <2>1 DEF Plain
<1> QED BY <1>1, <1>2, <1>4, <1>5, <1>6, GoesRuns

LEMMA PlainCall ==
  ASSUME ScopesInv, ScopesInv', RunsInv, NEW f, Frames1(Len(stack), f), Plain(f),
         Top.k # "cleanup", Top.k = "catchall" => Top.stage # "cleaned",
         UNCHANGED <<unwind_init_ref, runs>>
  PROVE  RunsInv'
<1>1. PICK m : m = Len(stack) /\ m \in Nat
  BY StackIs
<1>2. Goes(m)
  <2>1. /\ m <= m + 2 /\ \A j : j \notin m + 1 .. m /\ j \notin m + 1 .. m - 1
    BY <1>1
  <2>2. stack[m] = Top
    BY <1>1 DEF Top
  <2> QED BY <1>1, <2>1, <2>2 DEF Goes, Settled
<1>3. /\ Frames(m, m + 1) /\ m <= m + 1 /\ m + 1 <= m + 2
      /\ \A k \in m + 1 .. m + 1 : k = m + 1
      /\ stack'[m + 1] = f
  BY <1>1 DEF Frames1
<1> QED BY <1>2, <1>3, PlainRuns

(* The top frame is left or changed.                                          *)
LEMMA TopGoes ==
  ASSUME ScopesInv, NEW m, m = Len(stack) - 1, Settled(m), Rises(Top, unwind_init_ref),
         unwind_init_ref' = unwind_init_ref,
         \A k \in 1 .. m : stack[k].k = "action" => runs'[stack[k].n] = runs[stack[k].n]
  PROVE  Goes(m) /\ m \in Nat
<1>1. PICK n : n = Len(stack) /\ n \in Nat \ {0}
  BY StackIs
<1>2. n <= m + 2 /\ m \in Nat /\ (\A j \in m + 1 .. n : j = n) /\ \A j : j \notin m + 1 .. n - 1
  BY <1>1
<1> QED BY <1>1, <1>2 DEF Goes, Top

LEMMA PlainReturn ==
  ASSUME ScopesInv, ScopesInv', RunsInv, Len(stack) > 1, stack' = Below,
         Settled(Len(stack) - 1), Rises(Top, unwind_init_ref),
         UNCHANGED <<unwind_init_ref, runs>>
  PROVE  RunsInv'
<1>1. PICK m : m = Len(stack) - 1
  OBVIOUS
<1>2. Goes(m) /\ m \in Nat
  BY <1>1, TopGoes
<1>3. Frames(m, m) /\ m <= m /\ m <= m + 2 /\ \A k : k \notin m + 1 .. m
  BY <1>1, <1>2, ReturnFrames
<1> QED BY <1>2, <1>3, PlainRuns

LEMMA PlainPut ==
  ASSUME ScopesInv, ScopesInv', RunsInv, NEW f, Frames1(Len(stack) - 1, f), Plain(f),
         Settled(Len(stack) - 1), Rises(Top, unwind_init_ref), unwind_init_ref' = unwind_init_ref,
         \A k \in 1 .. Len(stack) - 1 : stack[k].k = "action" => runs'[stack[k].n] = runs[stack[k].n]
  PROVE  RunsInv'
<1>1. PICK m : m = Len(stack) - 1
  OBVIOUS
<1>2. Goes(m) /\ m \in Nat
  BY <1>1, TopGoes
<1>3. /\ Frames(m, m + 1) /\ m <= m + 1 /\ m + 1 <= m + 2
      /\ \A k \in m + 1 .. m + 1 : k = m + 1
      /\ stack'[m + 1] = f
  BY <1>1, <1>2 DEF Frames1
<1> QED BY <1>2, <1>3, PlainRuns

LEMMA PlainPutTwo ==
  ASSUME ScopesInv, ScopesInv', RunsInv, NEW f, NEW c, Frames2(Len(stack) - 1, f, c),
         Plain(f), Plain(c),
         Settled(Len(stack) - 1), Rises(Top, unwind_init_ref), UNCHANGED <<unwind_init_ref, runs>>
  PROVE  RunsInv'
<1>1. PICK m : m = Len(stack) - 1
  OBVIOUS
<1>2. Goes(m) /\ m \in Nat
  BY <1>1, TopGoes
<1>3. /\ Frames(m, m + 2) /\ m <= m + 2 /\ m + 2 <= m + 2
      /\ \A k \in m + 1 .. m + 2 : k = m + 1 \/ k = m + 2
      /\ stack'[m + 1] = f /\ stack'[m + 2] = c
  BY <1>1, <1>2 DEF Frames2
<1> QED BY <1>2, <1>3, PlainRuns

(* What is below a frame that was not called by unwind_cleanup.               *)
LEMMA SettledBelow ==
  ASSUME ScopesInv, NEW k \in 1 .. Len(stack), stack[k].k # "cleanup",
         stack[k].k = "action_body" => stack[k - 1].k # "cleanup"
  PROVE  Settled(k - 1)
<1> SUFFICES ASSUME k - 1 > 0 PROVE Settled(k - 1)
  BY DEF Settled
<1>1. k - 1 \in 1 .. Len(stack) - 1 /\ k - 1 + 1 = k
  BY StackIs
<1>2. Above(stack[k - 1], stack[k])
  BY <1>1 DEF ScopesInv, Shape
<1> QED BY <1>2 DEF Above, Settled

(* A function is called whose frame counts, or that a scope's action opens.   *)
LEMMA CountingCall ==
  ASSUME ScopesInv, ScopesInv', NEW g, NEW h, Match(g), Match(h)',
         RunsMatch(stack, g, unwind_init_ref, runs),
         NEW m, m = Len(stack), NEW f, Frames1(m, f), Settled(m),
         unwind_stack'.fill >= unwind_stack.fill,
         unwind_init_ref = 0 => unwind_init_ref' = 0,
         \A k \in 1 .. m : stack[k].k = "action" => runs'[stack[k].n] = runs[stack[k].n],
         NewRuns(h, m + 1)
  PROVE  RunsInv'
<1>1. m \in Nat /\ g[m] = unwind_stack.fill
  BY OldHeightsAre
<1>2. Goes(m)
  <2>1. /\ m <= m + 2 /\ \A j : j \notin m + 1 .. m /\ j \notin m + 1 .. m - 1
    BY <1>1
  <2> QED BY <1>1, <2>1 DEF Goes
<1>3. /\ Frames(m, m + 1) /\ m <= m + 1
      /\ \A k \in m + 1 .. m + 1 : k = m + 1
      /\ \A k : k \notin m + 1 .. m + 1 - 1
      /\ m \in 0 .. m
  BY <1>1 DEF Frames1
<1>4. h[m + 1] >= h[m]
  <2>1. h[m] = g[m]
    BY <1>2, <1>3, KeptHeights DEF Goes
  <2>2. h[m + 1] = unwind_stack'.fill
    BY <1>3, NewHeightsAre DEF Frames
  <2> QED BY <1>1, <2>1, <2>2
<1> QED BY <1>2, <1>3, <1>4, GoesRuns

LEMMA UserSettled ==
  ASSUME ScopesInv, NEW m, m = Len(stack), Top.k # "cleanup",
         Top.k = "catchall" => Top.stage # "cleaned"
  PROVE  Settled(m)
BY DEF Settled, Top

LEMMA UnwindActionRuns ==
  ASSUME ScopesInv, ScopesInv', RunsInv, runs \in [Acts -> 0 .. 2],
         NEW n \in Acts, NEW always, UnwindAction(n, always)
  PROVE  RunsInv'
<1>1. PICK g : Match(g) /\ RunsMatch(stack, g, unwind_init_ref, runs)
  BY DEF RunsInv
<1>2. PICK h : Match(h)'
  BY DEF ScopesInv
<1>3. PICK m, f : m = Len(stack) /\ f = [k |-> "action", n |-> n, always |-> always]
  OBVIOUS
<1>4. Frames1(m, f)
  BY <1>3, CallFrames DEF UnwindAction, Call
<1>5. /\ unwind_init_ref' = unwind_init_ref /\ runs' = [runs EXCEPT ![n] = 0]
      /\ unwind_stack'.fill = unwind_stack.fill + 1 /\ unwind_stack.fill \in Nat
      /\ Top.k \notin {"cleanup", "catchall"}
  BY <1>1, OldHeightsAre DEF UnwindAction, exitVars, Push, UserCalls, UserRuns
<1>6. unwind_stack'.fill >= unwind_stack.fill /\ Settled(m)
  BY <1>3, <1>5, UserSettled
<1>7. ASSUME NEW k \in 1 .. m, stack[k].k = "action" PROVE stack[k].n # n
  <2>1. k \in DOMAIN stack
    BY <1>3, <1>7, StackIs DEF IsSequence
  <2>2. n \notin NamesInUse
    BY DEF UnwindAction
  <2> QED BY <1>7, <2>1, <2>2 DEF NamesInUse
<1>8. \A k \in 1 .. m : stack[k].k = "action" => runs'[stack[k].n] = runs[stack[k].n]
  <2>1. \A x : x # n => [runs EXCEPT ![n] = 0][x] = runs[x]
    OBVIOUS
  <2> QED BY <1>5, <1>7, <2>1
<1>9. NewRuns(h, m + 1)
  <2>1. /\ stack'[m + 1].k = "action" /\ stack'[m + 1].n = n /\ Len(stack') = m + 1
        /\ \A k \in 1 .. m : stack'[k] = stack[k]
    BY <1>3, <1>4 DEF Frames1, Frames
  <2>2. runs'[n] = 0
    BY <1>5
  <2>3. m \in Nat /\ h[m + 1] \in Nat
    BY <1>1, <1>2, <1>3, <2>1, OldHeightsAre, NewHeightsAre
  <2>4. Stays(stack', h, m + 1)
    <3>1. \A j \in m + 1 .. m + 1 : j = m + 1
      BY <2>3
    <3> QED BY <2>1, <2>3, <3>1 DEF Stays
  <2>5. ~Running(stack', h, m + 1)
    <3>1. \A c : c \notin m + 1 + 1 .. m + 1 - 1
      BY <2>3
    <3> QED BY <2>1, <3>1 DEF Running
  <2>6. Accounts(stack', h, unwind_init_ref', runs', m + 1)
    BY <2>1, <2>2, <2>4, <2>5 DEF Accounts
  <2>7. OneOf(stack', m + 1)
    <3>1. \A j \in 1 .. m + 1 : j = m + 1 \/ j \in 1 .. m
      BY <2>3
    <3> QED BY <1>7, <2>1, <3>1 DEF OneOf
  <2> QED BY <2>1, <2>6, <2>7 DEF NewRuns
<1> QED BY <1>1, <1>2, <1>3, <1>4, <1>5, <1>6, <1>8, <1>9, CountingCall

(* An action that unwind_cleanup runs unwinds to a point above that entry.    *)
LEMMA UnwindRuns ==
  ASSUME ScopesInv, ScopesInv', RunsInv, NEW p, Unwind(p)
  PROVE  RunsInv'
<1>1. PICK g : Match(g) /\ RunsMatch(stack, g, unwind_init_ref, runs)
  BY DEF RunsInv
<1>2. PICK h : Match(h)'
  BY DEF ScopesInv
<1>3. PICK m, f : m = Len(stack) /\ f = UnwindFrame(p)
  OBVIOUS
<1>4. Frames1(m, f)
  BY <1>3, CallFrames DEF Unwind, Call
<1>5. /\ unwind_init_ref' = unwind_init_ref /\ runs' = runs
      /\ unwind_stack'.fill >= unwind_stack.fill
      /\ Top.k \notin {"cleanup", "catchall"} /\ MayUnwindTo(p)
  BY <1>1, OldHeightsAre DEF Unwind, exitVars, UserCalls, UserRuns
<1>6. Settled(m)
  BY <1>3, <1>5, UserSettled
<1>7. /\ stack'[m + 1].k = "unwind" /\ stack'[m + 1].p = p /\ Len(stack') = m + 1
      /\ \A k \in 1 .. m : stack'[k] = stack[k]
  BY <1>3, <1>4 DEF Frames1, Frames, UnwindFrame
<1>8. m \in Nat \ {0} /\ stack[m] = Top
  BY <1>1, <1>3, OldHeightsAre DEF Top
<1>9. p \in 1 .. m /\ stack'[p].k = "point"
  <2>1. PICK u : u = m + 1
    OBVIOUS
  <2>2. u \in 1 .. Len(stack') /\ u - 1 = m /\ stack'[u].k = "unwind" /\ stack'[u].p = p
    BY <1>7, <1>8, <2>1
  <2>3. Targets(stack', h)
    BY <1>2, NewHeightsAre
  <2>4. p \in 1 .. u - 1 /\ stack'[p].k = "point"
    BY <2>2, <2>3 DEF Targets
  <2> QED BY <2>2, <2>4
<1>10. Escapes(stack', h, m + 1)
  <2> SUFFICES ASSUME NEW c \in p + 1 .. m, stack'[c].k = "cleanup"
               PROVE  stack'[p].to < h[c]
    BY <1>7, <1>8 DEF Escapes
  <2>1. c \in 1 .. m /\ c # m
    BY <1>5, <1>7, <1>8, <1>9
  <2>2. c \in 1 .. Len(stack) - 1 /\ c + 1 \in 1 .. m /\ c + 1 \in p + 1 .. Len(stack)
        /\ c \in 1 .. Len(stack') - 1
    BY <1>3, <1>7, <1>8, <1>9, <2>1
  <2>3. stack[c].k = "cleanup" /\ stack'[c + 1] = stack[c + 1] /\ stack'[p] = stack[p]
    BY <1>7, <1>9, <2>1, <2>2
  <2>4. stack[c + 1].base \in Nat /\ h[c] = stack[c + 1].base + 1
    <3>1. Bases(stack', h)
      BY <1>2, NewHeightsAre
    <3> QED BY <2>2, <2>3, <3>1 DEF Bases
  <2>5. stack[c + 1].k = "action_body"
    BY <2>2, <2>3 DEF ScopesInv, Shape, Above
  <2>6. stack[p].to <= stack[c + 1].base
    BY <1>5, <2>2, <2>5 DEF MayUnwindTo
  <2>7. stack[p].to \in Nat
    <3>1. p \in 1 .. Len(stack) /\ p - 1 \in 0 .. Len(stack) /\ stack[p].k = "point"
      BY <1>3, <1>7, <1>8, <1>9
    <3>2. Heights(stack, unwind_init_ref, g)
      BY <1>1, OldHeightsAre
    <3> QED BY <3>1, <3>2 DEF Heights
  <2> QED BY <2>3, <2>4, <2>6, <2>7
<1>11. NewRuns(h, m + 1)
  BY <1>7, <1>10 DEF NewRuns, OneOf
<1> QED BY <1>1, <1>2, <1>3, <1>4, <1>5, <1>6, <1>11, CountingCall

(* There is at most one unwind_cleanup on the C stack.                        *)
LEMMA CleanupIsOne ==
  ASSUME NEW m, Len(stack') = m, m \in Nat, NEW h, stack'[m].k = "cleanup",
         \A k \in 1 .. m - 1 : stack'[k].k # "cleanup"
  PROVE  NewRuns(h, m)
<1>1. \A k \in 1 .. m : k = m \/ k \in 1 .. m - 1
  OBVIOUS
<1>2. OneOf(stack', m)
  BY <1>1 DEF OneOf
<1> QED BY <1>2 DEF NewRuns

(* The thread's own sig_cleanup or unwind_cleanup starts.                     *)
LEMMA ThreadCleanupRuns ==
  ASSUME ScopesInv, ScopesInv', RunsInv, ThreadCleansUp \/ ThreadUnwindCleanup
  PROVE  RunsInv'
<1>1. PICK g : Match(g) /\ RunsMatch(stack, g, unwind_init_ref, runs)
  BY DEF RunsInv
<1>2. PICK h : Match(h)'
  BY DEF ScopesInv
<1>3. PICK m, f : m = Len(stack) /\ f = [k |-> "cleanup"]
  OBVIOUS
<1>4. Frames1(m, f) /\ m = 1
  BY <1>3, CallFrames DEF ThreadCleansUp, ThreadUnwindCleanup, SigCleanup
<1>5. /\ unwind_init_ref = 0 => unwind_init_ref' = 0
      /\ runs' = runs
      /\ unwind_stack'.fill >= unwind_stack.fill
  BY <1>1, OldHeightsAre DEF ThreadCleansUp, ThreadUnwindCleanup, SigCleanup
<1>6. stack[1].k = "main"
  BY <1>3, <1>4 DEF ScopesInv, Shape
<1>7. Settled(m)
  BY <1>4, <1>6 DEF Settled
<1>8. /\ stack'[m + 1].k = "cleanup" /\ Len(stack') = m + 1
      /\ stack'[1] = stack[1]
  BY <1>3, <1>4 DEF Frames1, Frames
<1>9. NewRuns(h, m + 1)
  <2>1. PICK l : l = m + 1
    OBVIOUS
  <2>2. \A k \in 1 .. l - 1 : stack'[k].k # "cleanup"
    BY <1>4, <1>6, <1>8, <2>1
  <2>3. l \in Nat /\ Len(stack') = l /\ stack'[l].k = "cleanup"
    BY <1>4, <1>8, <2>1
  <2>4. NewRuns(h, l)
    BY <2>2, <2>3, CleanupIsOne
  <2> QED BY <2>1, <2>4
<1> QED BY <1>1, <1>2, <1>3, <1>4, <1>5, <1>7, <1>9, CountingCall

LEMMA SameRuns ==
  ASSUME ScopesInv, ScopesInv', RunsInv, UNCHANGED <<stack, unwind_stack, runs>>,
         unwind_init_ref = 0 => unwind_init_ref' = 0
  PROVE  RunsInv'
<1>1. PICK g : Match(g) /\ RunsMatch(stack, g, unwind_init_ref, runs)
  BY DEF RunsInv
<1>2. PICK h : Match(h)'
  BY DEF ScopesInv
<1>3. PICK n : n = Len(stack) /\ n \in Nat \ {0} /\ n \in 0 .. n
  BY StackIs
<1>4. Frames(n, n) /\ n <= n
  BY <1>3, StackIs DEF Frames
<1>5. \A k \in 0 .. n : k < n \/ k = 0 => h[k] = g[k]
  BY <1>1, <1>2, <1>4, LowHeights
<1>6. g \in [0 .. n -> Nat] /\ g[n] = unwind_stack.fill
  BY <1>1, <1>3, OldHeightsAre
<1>7. h \in [0 .. n -> Nat] /\ h[n] = unwind_stack'.fill
  BY <1>2, <1>3, NewHeightsAre
<1>8. \A k \in 0 .. n : h[k] = g[k]
  BY <1>3, <1>5, <1>6, <1>7
<1>9. h = g
  <2>1. PICK S, T : S = 0 .. n /\ T = Nat
    OBVIOUS
  <2>2. g \in [S -> T] /\ h \in [S -> T] /\ \A k \in S : h[k] = g[k]
    BY <1>6, <1>7, <1>8, <2>1
  <2> QED BY <2>2
<1>10. RunsMatch(stack, g, unwind_init_ref', runs)
  <2>1. \A k : Accounts(stack, g, unwind_init_ref, runs, k) => Accounts(stack, g, unwind_init_ref', runs, k)
    BY DEF Accounts
  <2> QED BY <1>1, <2>1 DEF RunsMatch
<1>11. RunsMatch(stack', h, unwind_init_ref', runs')
  BY <1>9, <1>10
<1> QED BY <1>2, <1>11 DEF RunsInv

(* A scope is left: what is below its frame was not called by unwind_cleanup. *)
LEMMA TopSettles ==
  ASSUME ScopesInv, Top.k \notin {"main", "cleanup", "unwind", "catchall"},
         Top.k = "action_body" => stack[Len(stack) - 1].k # "cleanup"
  PROVE  Settled(Len(stack) - 1) /\ Rises(Top, unwind_init_ref) /\ Len(stack) > 1
<1>1. Len(stack) \in 1 .. Len(stack) /\ Len(stack) > 1
  BY StackIs, NotMain
<1>2. Settled(Len(stack) - 1)
  BY <1>1, SettledBelow DEF Top
<1> QED BY <1>1, <1>2 DEF Rises

LEMMA LeaveScopeRunsIt ==
  ASSUME ScopesInv, ScopesInv', RunsInv, LeaveScope
  PROVE  RunsInv'
<1>1. PICK g : Match(g) /\ RunsMatch(stack, g, unwind_init_ref, runs)
  BY DEF RunsInv
<1>2. /\ HasEntry(Top) /\ unwind_init_ref' = unwind_init_ref
      /\ CallAction(EntryOf(Top), Below, unwind_stack.fill - 1)
  BY DEF LeaveScope, exitVars
<1>3. Settled(Len(stack) - 1) /\ Rises(Top, unwind_init_ref) /\ Len(stack) > 1
  BY <1>2, TopSettles DEF HasEntry
<1>4. CASE stack' = Below /\ runs' = runs
  BY <1>2, <1>3, <1>4, PlainReturn
<1>5. ASSUME NEW c, stack' = Append(Below, c), c.k = "action_body",
             EntryOf(Top).h = "user", runs' = Started(EntryOf(Top).arg)
      PROVE  RunsInv'
  <2>1. Frames1(Len(stack) - 1, c) /\ Plain(c)
    BY <1>3, <1>5, TailCallFrames DEF Plain
  <2>2. Top.k = "action" /\ EntryOf(Top).arg = Top.n
    BY <1>2, <1>5 DEF EntryOf, HasEntry
  <2>3. ASSUME NEW k \in 1 .. Len(stack) - 1, stack[k].k = "action"
        PROVE  stack[k].n # Top.n
    <3>1. k \in 1 .. Len(stack) /\ Len(stack) \in 1 .. Len(stack) /\ k # Len(stack)
      BY StackIs
    <3>2. OneOf(stack, Len(stack))
      BY <1>1, <3>1 DEF RunsMatch
    <3> QED BY <2>2, <2>3, <3>1, <3>2 DEF OneOf, Top
  <2>4. \A x : x # Top.n => Started(Top.n)[x] = runs[x]
    BY DEF Started
  <2>5. \A k \in 1 .. Len(stack) - 1 : stack[k].k = "action" => runs'[stack[k].n] = runs[stack[k].n]
    BY <1>5, <2>2, <2>3, <2>4
  <2> QED BY <1>2, <1>3, <2>1, <2>5, PlainPut
<1>6. \/ stack' = Below /\ runs' = runs
      \/ /\ EntryOf(Top).h = "user" /\ runs' = Started(EntryOf(Top).arg)
         /\ \E c : stack' = Append(Below, c) /\ c.k = "action_body"
  BY <1>2 DEF CallAction
<1> QED BY <1>4, <1>5, <1>6

LEMMA HandlerReturnsRuns ==
  ASSUME ScopesInv, ScopesInv', RunsInv, NEW rst, HandlerReturns(rst)
  PROVE  RunsInv'
<1>1. PICK g : Match(g) /\ RunsMatch(stack, g, unwind_init_ref, runs)
  BY DEF RunsInv
<1>2. PICK h : Match(h)'
  BY DEF ScopesInv
<1>3. PICK n, m : n = Len(stack) /\ m = n - 2
  OBVIOUS
<1>4. PICK f, c :
        /\ m \in Nat /\ stack[n - 1].k = "send"
        /\ f.k = "send" /\ c.k = "unwind"
        /\ Frames1(m, f) \/ Frames2(m, f, c)
  BY <1>3, HandlerReturnsFrames
<1>5. /\ n \in Nat /\ n <= m + 2 /\ n - 1 \in 1 .. n /\ n - 1 - 1 = m /\ m \in 0 .. n
      /\ n - 1 = m + 1 /\ n = m + 2
      /\ \A j \in m + 1 .. n : j = n \/ j = n - 1
      /\ \A j \in m + 1 .. n - 1 : j = n - 1
  BY <1>3, <1>4, StackIs
<1>6. /\ unwind_init_ref' = unwind_init_ref /\ runs' = runs /\ unwind_stack' = unwind_stack
      /\ sig_stacks = "live" /\ stack[n].k = "handler_body"
  BY <1>3 DEF HandlerReturns, Top
<1>7. Settled(m)
  <2>1. Settled(n - 1 - 1)
    BY <1>3, <1>4, <1>5, SettledBelow
  <2> QED BY <1>5, <2>1
<1>8. Goes(m)
  <2>1. \A j \in m + 1 .. n : Rises(stack[j], unwind_init_ref)
    BY <1>4, <1>5, <1>6 DEF Rises
  <2>2. \A j \in m + 1 .. n - 1 : stack[j].k # "cleanup"
    BY <1>4, <1>5
  <2> QED BY <1>3, <1>5, <1>6, <1>7, <2>1, <2>2 DEF Goes
<1>9. Plain(f)
  BY <1>4 DEF Plain
<1>10. CASE Frames1(m, f)
  <2>1. /\ Frames(m, m + 1) /\ m <= m + 1 /\ m + 1 <= m + 2
        /\ \A k \in m + 1 .. m + 1 : k = m + 1
        /\ stack'[m + 1] = f
    BY <1>4, <1>10 DEF Frames1
  <2> QED BY <1>8, <1>9, <2>1, PlainRuns
<1>11. CASE Frames2(m, f, c)
  <2>1. /\ Frames(m, n) /\ m <= n /\ stack'[n - 1] = f /\ stack'[n] = c
    BY <1>5, <1>11 DEF Frames2
  <2>2. n = Len(stack') /\ (\A k \in 1 .. m : stack'[k] = stack[k]) /\ n - 1 \in 1 .. Len(stack')
    BY <1>5, <2>1 DEF Frames
  <2>3. h[n - 1] >= h[m] /\ NewRuns(h, n - 1)
    BY <1>2, <1>5, <1>9, <2>1, <2>2, PlainCounts
  <2>4. \A k \in 1 .. n - 1 : stack'[k].k # "cleanup"
    <3>1. \A k \in 1 .. n - 1 : k \in 1 .. n /\ (k \in 1 .. m \/ k = n - 1)
      BY <1>5
    <3>2. \A k \in 1 .. n : stack[k].k # "cleanup"
      BY <1>3, <1>6 DEF ScopesInv
    <3> QED BY <1>4, <2>1, <2>2, <3>1, <3>2
  <2>5. NewRuns(h, n)
    <3>1. n \in 1 .. Len(stack') /\ Targets(stack', h)
      BY <1>2, <1>5, <2>2, NewHeightsAre
    <3>2. stack'[n].p \in 1 .. n - 1
      BY <1>4, <2>1, <3>1 DEF Targets
    <3>3. \A x \in stack'[n].p + 1 .. n - 1 : x \in 1 .. n - 1
      BY <1>5, <3>2
    <3>4. Escapes(stack', h, n)
      BY <2>4, <3>3 DEF Escapes
    <3> QED BY <1>4, <2>1, <3>4 DEF NewRuns, OneOf
  <2>6. h[n] >= h[m]
    <3>1. h[n] = unwind_stack.fill /\ g[n] = unwind_stack.fill
      BY <1>1, <1>2, <1>3, <1>6, <2>2, NewHeightsAre, OldHeightsAre
    <3>2. h[m] = g[m]
      BY <1>1, <1>2, <1>5, <1>7, <2>1, KeptHeights
    <3>3. g[n] >= g[m]
      BY <1>1, <1>3, <1>5, <1>8, GoesRise
    <3> QED BY <3>1, <3>2, <3>3
  <2>7. \A j \in m + 1 .. n - 1 : stack'[j].k # "cleanup"
    BY <1>4, <1>5, <2>1
  <2>8. \A k \in m + 1 .. n : h[k] >= h[m] /\ NewRuns(h, k)
    BY <1>5, <2>3, <2>5, <2>6
  <2> QED BY <1>1, <1>2, <1>8, <2>1, <2>7, <2>8, GoesRuns
<1> QED BY <1>4, <1>10, <1>11

LEMMA RunsUser ==
  ASSUME ScopesInv, ScopesInv', RunsInv, runs \in [Acts -> 0 .. 2], UserStep,
         ActionReturns => stack[Len(stack) - 1].k # "cleanup"
  PROVE  RunsInv'
<1>1. ASSUME NEW f, Call(f), Plain(f), UserCalls, UNCHANGED <<unwind_init_ref, runs>> PROVE RunsInv'
  <2>1. Frames1(Len(stack), f)
    BY <1>1, CallFrames DEF Call
  <2>2. Top.k \notin {"cleanup", "catchall"}
    BY <1>1 DEF UserCalls, UserRuns
  <2> QED BY <1>1, <2>1, <2>2, PlainCall
<1>2. ASSUME NEW id, Call([k |-> "handler", id |-> id]), UserCalls, UNCHANGED <<unwind_init_ref, runs>>
      PROVE  RunsInv'
  <2>1. PICK f : f = [k |-> "handler", id |-> id]
    OBVIOUS
  <2>2. Call(f) /\ Plain(f)
    BY <1>2, <2>1 DEF Plain
  <2> QED BY <1>1, <1>2, <2>2
<1>3. ASSUME NEW sig, AutopopHandler(sig) PROVE RunsInv'
  BY <1>2, <1>3 DEF AutopopHandler, exitVars
<1>4. CASE AutopopNullHandler
  BY <1>2, <1>4 DEF AutopopNullHandler, exitVars
<1>5. ASSUME NEW mode, NEW sig, NEW rst, ProvideRestart(mode, sig, rst) PROVE RunsInv'
  <2>1. PICK f : f = [k |-> "point", mode |-> mode, sig |-> sig, rst |-> rst, returned |-> FALSE,
                      to |-> unwind_stack.fill, id |-> NextId(sig_restart_stack, 0)]
    OBVIOUS
  <2>2. Call(f) /\ Plain(f) /\ UserCalls /\ UNCHANGED <<unwind_init_ref, runs>>
    BY <1>5, <2>1 DEF ProvideRestart, Plain, exitVars
  <2> QED BY <1>1, <2>2
<1>6. CASE ReturnPoint
  <2>1. PICK f : f = [k |-> "point", mode |-> "plain", returned |-> FALSE,
                      to |-> unwind_stack.fill, id |-> NoId]
    OBVIOUS
  <2>2. Call(f) /\ Plain(f) /\ UserCalls /\ UNCHANGED <<unwind_init_ref, runs>>
    BY <1>6, <2>1 DEF ReturnPoint, Plain, exitVars
  <2> QED BY <1>1, <2>2
<1>7. ASSUME NEW sig, NEW data, Call(SendFrame(sig, data)), UserCalls, UNCHANGED <<unwind_init_ref, runs>>
      PROVE  RunsInv'
  <2>1. PICK f : f = SendFrame(sig, data)
    OBVIOUS
  <2>2. Call(f) /\ Plain(f)
    BY <1>7, <2>1 DEF SendFrame, Plain
  <2> QED BY <1>1, <1>7, <2>2
<1>8. ASSUME NEW data, Send(SIGNAL_FAIL, data) PROVE RunsInv'
  BY <1>7, <1>8 DEF Send, exitVars
<1>9. ASSUME NEW sig, AssertHandler(sig) PROVE RunsInv'
  BY <1>7, <1>9 DEF AssertHandler, exitVars
<1>10. CASE ReprovideRestart
  <2>1. PICK f : f = [Top EXCEPT !.returned = FALSE, !.id = NextId(sig_restart_stack, 0)]
    OBVIOUS
  <2>2. /\ Top.k = "point" /\ UNCHANGED <<unwind_init_ref, runs>>
        /\ stack' = [stack EXCEPT ![Len(stack)].returned = FALSE,
                                  ![Len(stack)].id = NextId(sig_restart_stack, 0)]
    BY <1>10 DEF ReprovideRestart, exitVars
  <2>3. Len(stack) \in DOMAIN stack
    BY StackIs DEF IsSequence
  <2>4. stack' = WithTop(f)
    BY <2>1, <2>2, <2>3 DEF WithTop, Top
  <2>5. Plain(f)
    BY <2>1, <2>2, TopFields DEF HasFields, Plain
  <2>6. Frames1(Len(stack) - 1, f)
    BY <2>4, RewriteFrames
  <2>7. Settled(Len(stack) - 1) /\ Rises(Top, unwind_init_ref)
    BY <2>2, TopSettles
  <2> QED BY <2>2, <2>5, <2>6, <2>7, PlainPut
<1>11. CASE LeaveExplicitScope \/ LeavePoint \/ ActionReturns
  <2>1. /\ stack' = Below /\ Top.k \in {"action", "point", "action_body"}
        /\ UNCHANGED <<unwind_init_ref, runs>>
        /\ Top.k = "action_body" => ActionReturns
    BY <1>11 DEF LeaveExplicitScope, Explicit, LeavePoint, ActionReturns, Return, exitVars
  <2>2. Settled(Len(stack) - 1) /\ Rises(Top, unwind_init_ref) /\ Len(stack) > 1
    BY <2>1, TopSettles
  <2> QED BY <2>1, <2>2, PlainReturn
<1>12. ASSUME NEW sig, PersistentHandler(sig) PROVE RunsInv'
  BY <1>12, SameRuns DEF PersistentHandler, exitVars
<1>13. ASSUME NEW id, RmPersistentHandler(id) PROVE RunsInv'
  BY <1>13, SameRuns DEF RmPersistentHandler, exitVars
<1>14. CASE UnwindInit \/ UnwindRelease
  <2>1. UNCHANGED <<stack, unwind_stack, runs>> /\ unwind_init_ref # 0
    BY <1>14 DEF UnwindInit, UnwindRelease
  <2> QED BY <2>1, SameRuns
<1>15. ASSUME NEW n \in Acts, NEW always, UnwindAction(n, always) PROVE RunsInv'
  BY <1>15, UnwindActionRuns
<1>16. CASE LeaveScope
  BY <1>16, LeaveScopeRunsIt
<1>17. ASSUME NEW rst, HandlerReturns(rst) PROVE RunsInv'
  BY <1>17, HandlerReturnsRuns
<1>18. ASSUME NEW p, Unwind(p) PROVE RunsInv'
  BY <1>18, UnwindRuns
<1>19. CASE ThreadCleansUp \/ ThreadUnwindCleanup
  BY <1>19, ThreadCleanupRuns
<1> QED BY <1>3, <1>4, <1>5, <1>6, <1>8, <1>9, <1>10, <1>11, <1>12, <1>13, <1>14, <1>15, <1>16, <1>17,
           <1>18, <1>19 DEF UserStep

-----------------------------------------------------------------------------
(* The library's steps that run no entry of the unwind stack                *)

LEMMA SendNextRuns ==
  ASSUME ScopesInv, ScopesInv', RunsInv, SendNext
  PROVE  RunsInv'
<1>1. Top.k = "send" /\ UNCHANGED <<unwind_init_ref, runs>>
  BY DEF SendNext, exitVars
<1>2. Settled(Len(stack) - 1) /\ Rises(Top, unwind_init_ref) /\ Len(stack) > 1
  BY <1>1, TopSettles
<1>3. PICK j, f, c : /\ f = [Top EXCEPT !.i = j - 1] /\ c = CalledFrame(sig_handler_stack.mem[j])
                     /\ \/ stack' = Below
                        \/ stack' = Append([stack EXCEPT ![Len(stack)].i = j - 1], c)
  BY DEF SendNext
<1>4. CASE stack' = Below
  BY <1>1, <1>2, <1>4, PlainReturn
<1>5. CASE stack' = Append([stack EXCEPT ![Len(stack)].i = j - 1], c)
  <2>1. [stack EXCEPT ![Len(stack)].i = j - 1] = WithTop(f)
    BY <1>3, FieldOfTop
  <2>2. Frames2(Len(stack) - 1, f, c)
    BY <1>5, <2>1, RewriteCallFrames
  <2>3. f.k = "send"
    BY <1>1, <1>3, TopFields DEF HasFields
  <2>4. Plain(f) /\ Plain(c)
    BY <1>3, <2>3 DEF Plain, CalledFrame
  <2> QED BY <1>1, <1>2, <2>2, <2>4, PlainPutTwo
<1> QED BY <1>3, <1>4, <1>5

LEMMA ReportFailsRuns ==
  ASSUME ScopesInv, ScopesInv', RunsInv, ReportFails
  PROVE  RunsInv'
<1>1. PICK f : f = SendFrame(SIGNAL_FAIL, "none")
  OBVIOUS
<1>2. Frames1(Len(stack), f)
  BY <1>1, CallFrames DEF ReportFails, Call
<1>3. /\ Plain(f) /\ UNCHANGED <<unwind_init_ref, runs>>
      /\ Top.k = "catchall" /\ Top.stage = "report"
  BY <1>1 DEF ReportFails, Plain, SendFrame, AtStage, exitVars
<1> QED BY <1>2, <1>3, PlainCall

(* Below the catch-all handler is the send that called it.                    *)
LEMMA CatchallSettles ==
  ASSUME ScopesInv, Top.k = "catchall", Top.stage # "cleaned"
  PROVE  Settled(Len(stack) - 1) /\ Rises(Top, unwind_init_ref) /\ Len(stack) > 1
<1>1. Len(stack) \in 1 .. Len(stack) /\ Len(stack) > 1
  BY StackIs, NotMain
<1>2. Settled(Len(stack) - 1)
  BY <1>1, SettledBelow DEF Top
<1> QED BY <1>1, <1>2 DEF Rises

LEMMA StageRuns ==
  ASSUME ScopesInv, ScopesInv', RunsInv, ReportAndRaise \/ UnwindAll
  PROVE  RunsInv'
<1>1. PICK s \in {"raised", "asked"} : stack' = GoTo(s)
  BY DEF ReportAndRaise, UnwindAll
<1>2. Top.k = "catchall" /\ Top.stage # "cleaned" /\ UNCHANGED <<unwind_init_ref, runs>>
  BY DEF ReportAndRaise, UnwindAll, AtStage
<1>3. PICK f : f = [Top EXCEPT !.stage = s]
  OBVIOUS
<1>4. stack' = WithTop(f)
  BY <1>1, <1>3, FieldOfTop DEF GoTo
<1>5. Plain(f)
  BY <1>1, <1>2, <1>3, TopFields DEF HasFields, Plain
<1>6. Frames1(Len(stack) - 1, f)
  BY <1>4, RewriteFrames
<1>7. Settled(Len(stack) - 1) /\ Rises(Top, unwind_init_ref)
  BY <1>2, CatchallSettles
<1> QED BY <1>2, <1>5, <1>6, <1>7, PlainPut

LEMMA CatchallCleansUpRuns ==
  ASSUME ScopesInv, ScopesInv', RunsInv, CatchallCleansUp
  PROVE  RunsInv'
<1>1. PICK g : Match(g) /\ RunsMatch(stack, g, unwind_init_ref, runs)
  BY DEF RunsInv
<1>2. PICK h : Match(h)'
  BY DEF ScopesInv
<1>3. PICK f, c : f = [Top EXCEPT !.stage = "cleaned"] /\ c = [k |-> "cleanup"]
  OBVIOUS
<1>4. /\ Top.k = "catchall" /\ Top.stage = "asked" /\ sig_stacks = "live"
      /\ UNCHANGED <<runs, unwind_stack>>
      /\ unwind_init_ref = 0 => unwind_init_ref' = 0
      /\ stack' = Append([stack EXCEPT ![Len(stack)].stage = "cleaned"], c)
  BY <1>3 DEF CatchallCleansUp, AtStage, SigCleanup, GoTo
<1>5. [stack EXCEPT ![Len(stack)].stage = "cleaned"] = WithTop(f)
  BY <1>3, FieldOfTop
<1>6. Frames2(Len(stack) - 1, f, c)
  BY <1>4, <1>5, RewriteCallFrames
<1>7. f.k = "catchall" /\ c.k = "cleanup"
  BY <1>3, <1>4, TopFields DEF HasFields
<1>8. Settled(Len(stack) - 1) /\ Rises(Top, unwind_init_ref) /\ Len(stack) > 1
  BY <1>4, CatchallSettles
<1>9. PICK n, m, l : n = Len(stack) /\ m = n - 1 /\ l = n + 1
  OBVIOUS
<1>10. /\ n \in Nat \ {0} /\ m \in Nat /\ m \in 0 .. n /\ n <= m + 2 /\ m <= l
       /\ m + 1 = n /\ m + 2 = l /\ l - 1 = n /\ l \in Nat
       /\ (\A j \in m + 1 .. n : j = n) /\ (\A j : j \notin m + 1 .. n - 1)
       /\ (\A j \in m + 1 .. l : j = n \/ j = l)
       /\ \A j \in m + 1 .. l - 1 : j = n
  BY <1>8, <1>9, StackIs
<1>11. Goes(m)
  <2>1. \A j \in m + 1 .. n : Rises(stack[j], unwind_init_ref)
    BY <1>8, <1>9, <1>10 DEF Top
  <2>2. Settled(m)
    BY <1>8, <1>9
  <2>3. Len(stack) <= m + 2
    BY <1>9, <1>10
  <2> QED BY <1>4, <1>9, <1>10, <2>1, <2>2, <2>3 DEF Goes
<1>12. /\ Frames(m, l) /\ stack'[n] = f /\ stack'[l] = c
  BY <1>6, <1>9, <1>10 DEF Frames2
<1>13. l = Len(stack') /\ (\A k \in 1 .. m : stack'[k] = stack[k]) /\ n \in 1 .. Len(stack') - 1
  BY <1>10, <1>12 DEF Frames
<1>14. /\ Heights(stack', unwind_init_ref', h) /\ Bases(stack', h)
       /\ Len(stack') \in Nat /\ h \in [0 .. l -> Nat] /\ h[l] = unwind_stack.fill
  BY <1>2, <1>4, <1>13, NewHeightsAre
<1>15. h[n] = h[m]
  <2>1. h[n] = HeightOver(f, h[n - 1])
    BY <1>7, <1>12, <1>13, <1>14, HeightInside
  <2> QED BY <1>7, <1>9, <2>1 DEF HeightOver, HasEntry
<1>16. h[m] = g[m]
  BY <1>1, <1>2, <1>8, <1>9, <1>10, <1>12, KeptHeights
<1>17. h[m] \in Nat /\ h[n] >= h[m] /\ h[l] >= h[m]
  <2>1. g[n] >= g[m] /\ g[n] = unwind_stack.fill
    BY <1>1, <1>9, <1>10, <1>11, GoesRise, OldHeightsAre
  <2>2. m \in 0 .. l
    BY <1>10
  <2> QED BY <1>14, <1>15, <1>16, <2>1, <2>2
<1>18. NewRuns(h, n)
  BY <1>7, <1>12 DEF NewRuns, OneOf
<1>19. NewRuns(h, l)
  <2>1. ASSUME NEW k \in 1 .. l - 1 PROVE stack'[k].k # "cleanup"
    <3>1. CASE k = n
      BY <1>7, <1>12, <3>1
    <3>2. CASE k # n
      <4>1. k \in 1 .. m /\ k \in 1 .. Len(stack)
        BY <1>9, <1>10, <3>2
      <4> QED BY <1>4, <1>13, <4>1 DEF ScopesInv
    <3> QED BY <3>1, <3>2
  <2> QED BY <1>7, <1>10, <1>12, <1>13, <2>1, CleanupIsOne
<1>20. \A k \in m + 1 .. l : h[k] >= h[m] /\ NewRuns(h, k)
  BY <1>10, <1>17, <1>18, <1>19
<1>21. \A j \in m + 1 .. l - 1 : stack'[j].k # "cleanup"
  BY <1>7, <1>10, <1>12
<1> QED BY <1>1, <1>2, <1>10, <1>11, <1>12, <1>20, <1>21, GoesRuns

(* unwind_cleanup was not called for the last reference.                      *)
LEMMA CleanupReturnsRuns ==
  ASSUME ScopesInv, ScopesInv', RunsInv, CleanupDone, unwind_init_ref # 0
  PROVE  RunsInv'
<1>1. Top.k = "cleanup" /\ stack' = Below /\ UNCHANGED <<unwind_init_ref, runs>>
  BY DEF CleanupDone, Return
<1>2. Len(stack) > 1 /\ Rises(Top, unwind_init_ref)
  BY <1>1, NotMain DEF Rises
<1>3. Settled(Len(stack) - 1)
  <2>1. Len(stack) - 1 \in 1 .. Len(stack) - 1 /\ Len(stack) - 1 + 1 = Len(stack)
    BY <1>2, StackIs
  <2>2. Above(stack[Len(stack) - 1], Top)
    BY <2>1 DEF ScopesInv, Shape, Top
  <2> QED BY <1>1, <2>2 DEF Above, Settled
<1> QED BY <1>1, <1>2, <1>3, PlainReturn

-----------------------------------------------------------------------------
(* The entries that _unwind and unwind_cleanup run                          *)

(* Every entry of the unwind stack is that of one frame that stays.           *)
LEMMA OwnerOf ==
  ASSUME ScopesInv, NEW g, Match(g), NEW x \in 1 .. unwind_stack.fill
  PROVE  \E k \in 1 .. Len(stack) :
           /\ HasEntry(stack[k]) /\ g[k] = x /\ Stays(stack, g, k)
           /\ unwind_stack.mem[x] = EntryOf(stack[k])
<1>1. /\ Heights(stack, unwind_init_ref, g) /\ g \in [0 .. Len(stack) -> Nat] /\ g[0] = 0
      /\ g[Len(stack)] = unwind_stack.fill
  BY OldHeightsAre
<1>2. PICK n : n = Len(stack) /\ n \in Nat \ {0} /\ unwind_stack.fill \in Nat
  BY OldHeightsAre
<1> DEFINE T == {k \in 0 .. n : \A j \in k .. n : g[j] >= x}
<1>3. n \in T
  <2>1. n \in 0 .. n /\ \A j \in n .. n : j = n
    BY <1>2
  <2>2. g[n] >= x
    BY <1>1, <1>2
  <2> QED BY <2>1, <2>2
<1>4. T \subseteq Nat /\ T # {}
  BY <1>2, <1>3
<1>5. PICK k \in T : \A y \in T : k <= y
  BY <1>4, LeastOf
<1>6. k \in 0 .. n /\ \A j \in k .. n : g[j] >= x
  BY <1>5
<1>7. k # 0
  <2> SUFFICES ASSUME k = 0 PROVE FALSE
    OBVIOUS
  <2>1. 0 \in 0 .. n
    BY <1>2
  <2>2. 0 >= x
    BY <1>1, <1>6, <2>1
  <2> QED BY <1>2, <2>2
<1>8. /\ k \in 1 .. n /\ k - 1 \in 0 .. n /\ k \in k .. n /\ ~(k <= k - 1)
      /\ \A j \in k - 1 .. n : j = k - 1 \/ j \in k .. n
  BY <1>2, <1>6, <1>7
<1>9. g[k - 1] < x /\ g[k - 1] \in Nat /\ g[k] \in Nat /\ g[k] >= x
  <2>1. k - 1 \notin T
    BY <1>5, <1>8
  <2>2. ~(g[k - 1] >= x)
    BY <1>6, <1>8, <2>1
  <2>3. g[k - 1] \in Nat /\ g[k] \in Nat
    BY <1>1, <1>2, <1>6, <1>8
  <2> QED BY <1>2, <1>6, <1>8, <2>2, <2>3
<1>10. HasEntry(stack[k]) /\ g[k] = g[k - 1] + 1
  <2>1. \E top : Level(stack[k], g[k - 1], g[k], top, unwind_init_ref)
    BY <1>1, <1>2, <1>8 DEF Heights
  <2>2. ~(g[k] <= g[k - 1]) /\ g[k] # g[k - 1]
    BY <1>2, <1>9
  <2> QED BY <2>1, <2>2 DEF Level
<1>11. g[k] = x
  BY <1>2, <1>9, <1>10
<1>12. Stays(stack, g, k)
  BY <1>2, <1>6, <1>11 DEF Stays
<1> QED BY <1>2, <1>8, <1>10, <1>11, <1>12 DEF Match, Entries

LEMMA EntryRuns ==
  ASSUME NEW e, NEW fs, NEW base, CallAction(e, fs, base)
  PROVE  \/ e.h = "user" /\ runs' = Started(e.arg)
         \/ e.h # "user" /\ runs' = runs
BY DEF CallAction

(* Only the action whose entry is called is started.                          *)
LEMMA OthersKeep ==
  ASSUME ScopesInv, NEW g, Match(g), RunsMatch(stack, g, unwind_init_ref, runs),
         NEW x \in 1 .. unwind_stack.fill, NEW fs, NEW base,
         CallAction(unwind_stack.mem[x], fs, base),
         NEW k \in 1 .. Len(stack), stack[k].k = "action", ~(Stays(stack, g, k) /\ g[k] = x)
  PROVE  runs'[stack[k].n] = runs[stack[k].n]
<1>1. PICK e : e = unwind_stack.mem[x]
  OBVIOUS
<1>2. PICK o \in 1 .. Len(stack) :
        HasEntry(stack[o]) /\ g[o] = x /\ Stays(stack, g, o) /\ e = EntryOf(stack[o])
  BY <1>1, OwnerOf
<1>3. CASE e.h = "user" /\ runs' = Started(e.arg)
  <2>1. stack[o].k = "action" /\ e.arg = stack[o].n
    BY <1>2, <1>3 DEF EntryOf, HasEntry
  <2>2. o # k
    BY <1>2
  <2>3. OneOf(stack, k)
    BY DEF RunsMatch
  <2>4. stack[k].n # e.arg
    BY <2>1, <2>2, <2>3 DEF OneOf
  <2> QED BY <1>3, <2>4 DEF Started
<1>4. CASE e.h # "user" /\ runs' = runs
  BY <1>4
<1>5. CallAction(e, fs, base)
  BY <1>1
<1> QED BY <1>3, <1>4, <1>5, EntryRuns

LEMMA OwnerStarts ==
  ASSUME ScopesInv, NEW g, Match(g), RunsMatch(stack, g, unwind_init_ref, runs),
         runs \in [Acts -> 0 .. 2],
         NEW x \in 1 .. unwind_stack.fill, NEW fs, NEW base,
         CallAction(unwind_stack.mem[x], fs, base),
         NEW k \in 1 .. Len(stack), stack[k].k = "action", Stays(stack, g, k), g[k] = x
  PROVE  /\ unwind_stack.mem[x].h = "user"
         /\ runs[stack[k].n] = 0 => runs'[stack[k].n] = 1
         /\ runs[stack[k].n] = 1 => runs'[stack[k].n] = 2
<1>1. PICK e : e = unwind_stack.mem[x]
  OBVIOUS
<1>2. e = EntryOf(stack[k]) /\ stack[k].n \in Acts
  BY <1>1 DEF Match, Entries, HasEntry, RunsMatch
<1>3. e.h = "user" /\ e.arg = stack[k].n
  BY <1>2 DEF EntryOf
<1>4. CallAction(e, fs, base)
  BY <1>1
<1>5. runs' = Started(stack[k].n)
  BY <1>3, <1>4, EntryRuns
<1>6. PICK a \in Acts : a = stack[k].n
  BY <1>2
<1>7. Started(a)[a] = IF runs[a] < 2 THEN runs[a] + 1 ELSE runs[a]
  BY DEF Started
<1>8. (runs[a] = 0 => Started(a)[a] = 1) /\ (runs[a] = 1 => Started(a)[a] = 2)
  BY <1>7
<1> QED BY <1>1, <1>3, <1>5, <1>6, <1>8

(* The frames above the m-th come down by one entry.                          *)
Sunk(st, g, new, h, m, x, y) ==
  /\ Len(st) \in Nat /\ Len(new) \in Nat /\ m \in Nat /\ m < Len(st) /\ m < Len(new)
  /\ \A k \in 0 .. m : h[k] = g[k] /\ g[k] \in Nat
  /\ y \in Nat /\ x = y + 1
  /\ \A j \in m + 1 .. Len(st) : g[j] = x
  /\ \A j \in m + 1 .. Len(new) : h[j] = y

LEMMA StaysSunk ==
  ASSUME NEW st, NEW g, NEW new, NEW h, NEW m, NEW x, NEW y, Sunk(st, g, new, h, m, x, y),
         NEW k \in 1 .. m
  PROVE  Stays(new, h, k) <=> Stays(st, g, k) /\ g[k] # x
<1> USE DEF Sunk
<1>1. k \in 0 .. m /\ g[k] \in Nat /\ h[k] = g[k]
  OBVIOUS
<1>2. ASSUME Stays(st, g, k), g[k] # x PROVE Stays(new, h, k)
  <2>1. Len(st) \in k .. Len(st) /\ Len(st) \in m + 1 .. Len(st)
    OBVIOUS
  <2>2. x >= g[k]
    BY <1>2, <2>1 DEF Stays
  <2>3. y >= g[k]
    BY <1>1, <1>2, <2>2
  <2> SUFFICES ASSUME NEW j \in k .. Len(new) PROVE h[j] >= h[k]
    BY DEF Stays
  <2>4. CASE j <= m
    <3>1. j \in 0 .. m /\ j \in k .. Len(st)
      BY <2>4
    <3> QED BY <1>1, <1>2, <3>1 DEF Stays
  <2>5. CASE j > m
    BY <1>1, <2>3, <2>5
  <2> QED BY <2>4, <2>5
<1>3. ASSUME Stays(new, h, k) PROVE Stays(st, g, k) /\ g[k] # x
  <2>1. Len(new) \in k .. Len(new) /\ Len(new) \in m + 1 .. Len(new)
    OBVIOUS
  <2>2. y >= g[k]
    BY <1>1, <1>3, <2>1 DEF Stays
  <2>3. x >= g[k] /\ g[k] # x
    BY <1>1, <2>2
  <2>4. ASSUME NEW j \in k .. Len(st) PROVE g[j] >= g[k]
    <3>1. CASE j <= m
      <4>1. j \in 0 .. m /\ j \in k .. Len(new)
        BY <3>1
      <4> QED BY <1>1, <1>3, <4>1 DEF Stays
    <3>2. CASE j > m
      BY <2>3, <3>2
    <3> QED BY <3>1, <3>2
  <2> QED BY <2>3, <2>4 DEF Stays
<1> QED BY <1>2, <1>3

(* Only the last unwind_cleanup calls entries.                                *)
LEMMA RunningIsLast ==
  ASSUME ScopesInv, NEW g, Match(g), NEW k \in 1 .. Len(stack), Running(stack, g, k)
  PROVE  unwind_init_ref = 0
<1>1. PICK c \in k + 1 .. Len(stack) - 1 : stack[c].k = "cleanup"
  BY DEF Running
<1>2. c \in 1 .. Len(stack) /\ (c = Len(stack)) = FALSE
  BY <1>1, StackIs
<1>3. Level(stack[c], g[c - 1], g[c], FALSE, unwind_init_ref)
  BY <1>2 DEF Match, Heights
<1> QED BY <1>1, <1>3 DEF Level

(* How the accounts of the frames below change when the top entry is run.     *)
LEMMA AccountsSunk ==
  ASSUME ScopesInv, NEW g, Match(g), RunsMatch(stack, g, unwind_init_ref, runs),
         runs \in [Acts -> 0 .. 2], NEW x \in 1 .. unwind_stack.fill, NEW fs, NEW base,
         CallAction(unwind_stack.mem[x], fs, base), unwind_init_ref' = unwind_init_ref,
         NEW h, NEW k \in 1 .. Len(stack), stack[k].k = "action", stack'[k] = stack[k],
         Stays(stack', h, k) <=> Stays(stack, g, k) /\ g[k] # x,
         Stays(stack, g, k) => (Running(stack', h, k) <=> Running(stack, g, k))
  PROVE  Accounts(stack', h, unwind_init_ref', runs', k)
<1>1. Accounts(stack, g, unwind_init_ref, runs, k)
  BY DEF RunsMatch
<1>2. CASE Stays(stack, g, k) /\ g[k] = x
  <2>1. /\ runs[stack[k].n] = 0 => runs'[stack[k].n] = 1
        /\ runs[stack[k].n] = 1 => runs'[stack[k].n] = 2
    BY <1>2, OwnerStarts
  <2>2. CASE Running(stack, g, k)
    <3>1. unwind_init_ref = 0
      BY <2>2, RunningIsLast
    <3>2. runs[stack[k].n] = 1
      BY <1>1, <1>2, <2>2 DEF Accounts
    <3> QED BY <1>2, <2>1, <3>1, <3>2 DEF Accounts
  <2>3. CASE ~Running(stack, g, k)
    <3>1. runs[stack[k].n] = 0
      BY <1>1, <1>2, <2>3 DEF Accounts
    <3> QED BY <1>2, <2>1, <3>1 DEF Accounts
  <2> QED BY <2>2, <2>3
<1>3. CASE ~(Stays(stack, g, k) /\ g[k] = x)
  <2>1. runs'[stack[k].n] = runs[stack[k].n]
    BY <1>3, OthersKeep
  <2>2. Stays(stack', h, k) <=> Stays(stack, g, k)
    BY <1>3
  <2> QED BY <1>1, <2>1, <2>2, AccountsSame
<1> QED BY <1>2, <1>3

(* One iteration of _unwind's loop.                                           *)
LEMMA UnwindNextRuns ==
  ASSUME ScopesInv, ScopesInv', RunsInv, runs \in [Acts -> 0 .. 2], UnwindNext
  PROVE  RunsInv'
<1>1. PICK g : Match(g) /\ RunsMatch(stack, g, unwind_init_ref, runs)
  BY DEF RunsInv
<1>2. PICK h : Match(h)'
  BY DEF ScopesInv
<1>3. PICK n, m, x, l : n = Len(stack) /\ m = n - 1 /\ x = unwind_stack.fill /\ l = Len(stack')
  OBVIOUS
<1>4. /\ Heights(stack, unwind_init_ref, g) /\ Bases(stack, g) /\ Targets(stack, g)
      /\ n \in Nat \ {0} /\ g \in [0 .. n -> Nat] /\ g[n] = x /\ x \in Nat
  BY <1>1, <1>3, OldHeightsAre
<1>5. /\ Heights(stack', unwind_init_ref', h) /\ Bases(stack', h) /\ Targets(stack', h)
      /\ l \in Nat \ {0} /\ h \in [0 .. l -> Nat] /\ h[l] = unwind_stack'.fill
  BY <1>2, <1>3, NewHeightsAre
<1>6. Top.k = "unwind" /\ Top.i > stack[Top.p].to /\ unwind_init_ref' = unwind_init_ref
      /\ unwind_stack' = Pop(unwind_stack)
  BY DEF UnwindNext, UnwindMore, exitVars
<1>7. /\ stack[Top.p].to \in Nat /\ Top.i = x /\ Top.p \in 1 .. n - 1
  BY <1>1, <1>3, <1>6, TargetIs
<1>8. x \in 1 .. unwind_stack.fill /\ x > 0 /\ x - 1 \in Nat
  BY <1>3, <1>4, <1>6, <1>7
<1>9. unwind_stack'.fill = x - 1
  <2>1. UnwindOK(unwind_stack)
    BY DEF ScopesInv
  <2> QED BY <1>3, <1>6, <1>8, <2>1, UnwindStackIs
<1>10. CallAction(unwind_stack.mem[x], [stack EXCEPT ![Len(stack)].i = @ - 1], x - 1)
  BY <1>7 DEF UnwindNext
<1>11. PICK f, c : /\ f = [Top EXCEPT !.i = @ - 1] /\ f.k = "unwind" /\ c.k = "action_body"
                   /\ Frames1(m, f) \/ Frames2(m, f, c)
  BY <1>3, UnwindNextFrames
<1>12. f.i = x - 1 /\ f.p = Top.p
  BY <1>6, <1>7, <1>11, TopFields DEF HasFields
<1>13. /\ Frames(m, l) /\ stack'[n] = f /\ (l = n \/ (l = n + 1 /\ stack'[l] = c))
  <2>1. m + 1 = n /\ m + 2 = n + 1
    BY <1>3, <1>4
  <2> QED BY <1>3, <1>11, <2>1 DEF Frames1, Frames2, Frames
<1>14. /\ m \in Nat /\ m \in 0 .. n /\ m <= l /\ m < n /\ m < l /\ n \in 1 .. n /\ n \in 1 .. l /\ n - 1 = m
       /\ (\A j \in m + 1 .. n : j = n) /\ (\A j \in m + 1 .. l : j = n \/ j = l)
       /\ \A j : j \notin m + 1 .. n - 1
  BY <1>3, <1>4, <1>13
<1>15. \A k \in 1 .. m : stack'[k] = stack[k] /\ k \in 1 .. n
  BY <1>3, <1>4, <1>13 DEF Frames
<1>16. Settled(m)
  <2>1. stack[n].k = "unwind"
    BY <1>3, <1>6 DEF Top
  <2> QED BY <1>3, <1>14, <2>1, SettledBelow
<1>17. \A k \in 0 .. m : h[k] = g[k] /\ g[k] \in Nat
  BY <1>1, <1>2, <1>13, <1>14, <1>16, KeptHeights
<1>18. h[n] = x - 1 /\ h[l] = x - 1
  <2>1. CASE l = n
    BY <1>5, <1>9, <2>1
  <2>2. CASE l # n
    <3>1. n \in 1 .. Len(stack') - 1
      BY <1>3, <1>4, <1>13, <2>2
    <3>2. stack'[n].k # "cleanup" /\ stack'[n] = f /\ Len(stack') \in Nat
      BY <1>3, <1>5, <1>11, <1>13
    <3>3. /\ Heights(stack', unwind_init_ref', h) /\ Bases(stack', h) /\ Len(stack') \in Nat
      BY <1>5, <3>2
    <3>4. stack'[n].k # "cleanup" => h[n] = HeightOver(stack'[n], h[n - 1])
      BY <3>1, <3>3, HeightInside
    <3>5. h[n] = HeightOver(f, h[n - 1])
      BY <3>2, <3>4
    <3> QED BY <1>5, <1>9, <1>11, <1>12, <3>5 DEF HeightOver, HasEntry
  <2> QED BY <2>1, <2>2
<1>19. ASSUME NEW k \in 1 .. m, stack[k].k = "action"
       PROVE  Accounts(stack', h, unwind_init_ref', runs', k)
  <2>1. Stays(stack', h, k) <=> Stays(stack, g, k) /\ g[k] # x
    <3>1. \A j \in m + 1 .. Len(stack) : g[j] = x
      BY <1>3, <1>4, <1>14
    <3>2. PICK y : y = x - 1
      OBVIOUS
    <3>3. \A j \in m + 1 .. Len(stack') : h[j] = y
      BY <1>3, <1>14, <1>18, <3>2
    <3>4. /\ Len(stack) \in Nat /\ Len(stack') \in Nat /\ m \in Nat /\ m < Len(stack) /\ m < Len(stack')
          /\ y \in Nat /\ x = y + 1
      BY <1>3, <1>4, <1>5, <1>8, <1>14, <3>2
    <3>5. Sunk(stack, g, stack', h, m, x, y)
      BY <1>17, <3>1, <3>3, <3>4 DEF Sunk
    <3>6. k \in 1 .. m
      OBVIOUS
    <3>7. \A q \in 1 .. m : Stays(stack', h, q) <=> Stays(stack, g, q) /\ g[q] # x
      BY <3>5, StaysSunk
    <3> QED BY <3>6, <3>7
  <2>2. Running(stack', h, k) <=> Running(stack, g, k)
    <3>1. m \in 1 .. Len(stack) /\ stack[m].k # "cleanup"
      BY <1>3, <1>14, <1>16 DEF Settled
    <3>2. \A j \in m + 1 .. Len(stack) - 1 : stack[j].k # "cleanup"
      BY <1>3, <1>14
    <3>3. \A j \in m + 1 .. Len(stack') - 1 : stack'[j].k # "cleanup"
      <4>1. \A j \in m + 1 .. l - 1 : j = n
        BY <1>3, <1>4, <1>13
      <4> QED BY <1>3, <1>11, <1>13, <4>1
    <3> QED BY <1>3, <1>4, <1>5, <1>14, <1>15, <1>17, <3>1, <3>2, <3>3, RunningSame
  <2> QED BY <1>1, <1>3, <1>6, <1>8, <1>10, <1>15, <1>19, <2>1, <2>2, AccountsSunk
<1>20. Escapes(stack', h, n)
  <2>1. Escapes(stack, g, n) /\ stack[n] = Top
    BY <1>1, <1>3, <1>6, <1>14 DEF RunsMatch, Top
  <2>2. stack'[n].p = Top.p /\ Top.p \in 1 .. m
    BY <1>7, <1>12, <1>13, <1>14
  <2>3. \A j \in Top.p + 1 .. n - 1 : j \in 1 .. m /\ j \in 0 .. m
    BY <1>14, <2>2
  <2> QED BY <1>15, <1>17, <2>1, <2>2, <2>3 DEF Escapes
<1>21. \A k \in m + 1 .. Len(stack') :
         /\ stack'[k].k = "action" =>
              stack'[k].n \in Acts /\ Accounts(stack', h, unwind_init_ref', runs', k)
         /\ stack'[k].k = "unwind" => Escapes(stack', h, k)
         /\ OneOf(stack', k)
  <2> SUFFICES ASSUME NEW k \in m + 1 .. l
               PROVE  /\ stack'[k].k \notin {"action", "cleanup"}
                      /\ stack'[k].k = "unwind" => Escapes(stack', h, k)
    BY <1>3 DEF OneOf
  <2> QED BY <1>11, <1>13, <1>14, <1>20
<1>22. RunsMatch(stack', h, unwind_init_ref', runs')
  <2>1. \A k \in 0 .. m : k < m => h[k] = g[k]
    BY <1>17
  <2>2. /\ Len(stack) \in Nat /\ Len(stack') \in Nat /\ m \in 0 .. Len(stack) /\ m <= Len(stack')
    BY <1>3, <1>4, <1>5, <1>14
  <2>3. /\ \A k \in 1 .. m : stack'[k] = stack[k]
        /\ \A k \in 1 .. m : stack[k].k = "action" => Accounts(stack', h, unwind_init_ref', runs', k)
    BY <1>15, <1>19
  <2>4. RunsMatch(stack, g, unwind_init_ref, runs) /\ Targets(stack, g)
    BY <1>1, <1>4
  <2> QED BY <1>21, <2>1, <2>2, <2>3, <2>4, RunsCarry
<1> QED BY <1>2, <1>22 DEF RunsInv

(* longjmp: the cleanups that are skipped ran entries above the point.        *)
LEMMA UnwindDoneRuns ==
  ASSUME ScopesInv, ScopesInv', RunsInv, UnwindDone
  PROVE  RunsInv'
<1>1. PICK g : Match(g) /\ RunsMatch(stack, g, unwind_init_ref, runs)
  BY DEF RunsInv
<1>2. PICK h : Match(h)'
  BY DEF ScopesInv
<1>3. PICK n, p, m : n = Len(stack) /\ p = Top.p /\ m = p - 1
  OBVIOUS
<1>4. /\ Heights(stack, unwind_init_ref, g) /\ n \in Nat \ {0} /\ g \in [0 .. n -> Nat]
  BY <1>1, <1>3, OldHeightsAre
<1>5. Top.k = "unwind" /\ unwind_init_ref' = unwind_init_ref /\ runs' = runs
  BY DEF UnwindDone, exitVars
<1>6. /\ p \in 1 .. n - 1 /\ stack[p].k = "point" /\ stack[p].to = g[m] /\ stack[p].to \in Nat
      /\ \A j \in p .. n : g[j] >= g[m]
  BY <1>1, <1>3, <1>5, TargetIs
<1>7. PICK f : f = [stack[p] EXCEPT !.returned = TRUE] /\ f.k = "point" /\ Frames1(m, f)
  BY <1>3, UnwindDoneFrames
<1>8. /\ m \in Nat /\ m + 1 = p /\ p \in 1 .. n /\ m \in 0 .. n /\ m <= p
      /\ \A j : j \notin m + 1 .. p - 1
  BY <1>3, <1>4, <1>6
<1>9. Frames(m, p) /\ stack'[p] = f /\ Len(stack') = p /\ \A k \in 1 .. m : stack'[k] = stack[k]
  BY <1>7, <1>8 DEF Frames1, Frames
<1>10. Settled(m)
  BY <1>3, <1>6, <1>8, SettledBelow
<1>11. \A k \in 0 .. m : h[k] = g[k] /\ g[k] \in Nat
  BY <1>1, <1>2, <1>8, <1>9, <1>10, KeptHeights
<1>12. h[p] >= h[p - 1] /\ NewRuns(h, p)
  <2>1. Plain(f) /\ p \in 1 .. Len(stack')
    BY <1>7, <1>8, <1>9 DEF Plain
  <2> QED BY <1>2, <1>9, <2>1, PlainCounts
<1>13. Quiet(g, h, m, p)
  <2>1. \A j \in m + 1 .. Len(stack) : g[j] >= g[m]
    BY <1>3, <1>6, <1>8
  <2>2. \A j \in m + 1 .. p : h[j] >= h[m] /\ NewRuns(h, j)
    BY <1>3, <1>8, <1>12
  <2> QED BY <1>5, <1>10, <2>1, <2>2 DEF Quiet
<1>14. ASSUME NEW k \in 1 .. m, Stays(stack, g, k)
       PROVE  Running(stack', h, k) <=> Running(stack, g, k)
  <2>1. ASSUME NEW c \in k + 1 .. n - 1, stack[c].k = "cleanup", g[c] = g[k]
        PROVE  c \in 1 .. m
    <3> SUFFICES ASSUME c > m PROVE FALSE
      BY <1>8
    <3>1. c # p
      BY <1>6, <2>1
    <3>2. c \in p + 1 .. n - 1 /\ n \in 1 .. n /\ m \in k .. n /\ k \in 0 .. m /\ c \in 0 .. n
      BY <1>4, <1>8, <3>1
    <3>3. stack[n] = Top /\ Escapes(stack, g, n)
      BY <1>1, <1>3, <1>5, <3>2 DEF RunsMatch, Top
    <3>4. g[m] < g[c]
      BY <1>3, <1>6, <2>1, <3>2, <3>3 DEF Escapes
    <3>5. g[m] >= g[k]
      BY <1>3, <1>14, <3>2 DEF Stays
    <3>6. g[k] \in Nat /\ g[m] \in Nat
      BY <1>8, <1>11, <3>2
    <3> QED BY <2>1, <3>4, <3>5, <3>6
  <2>2. ASSUME Running(stack, g, k) PROVE Running(stack', h, k)
    <3>1. PICK c \in k + 1 .. n - 1 : stack[c].k = "cleanup" /\ g[c] = g[k]
      BY <1>3, <2>2 DEF Running
    <3>2. c \in 1 .. m /\ c \in 0 .. m /\ k \in 0 .. m /\ c \in k + 1 .. p - 1
      BY <1>8, <2>1, <3>1
    <3>3. stack'[c].k = "cleanup" /\ h[c] = h[k]
      BY <1>9, <1>11, <3>1, <3>2
    <3> QED BY <1>9, <3>2, <3>3 DEF Running
  <2>3. ASSUME Running(stack', h, k) PROVE Running(stack, g, k)
    <3>1. PICK c \in k + 1 .. p - 1 : stack'[c].k = "cleanup" /\ h[c] = h[k]
      BY <1>9, <2>3 DEF Running
    <3>2. c \in 1 .. m /\ c \in 0 .. m /\ k \in 0 .. m /\ c \in k + 1 .. n - 1
      BY <1>4, <1>6, <1>8, <3>1
    <3>3. stack[c].k = "cleanup" /\ g[c] = g[k]
      BY <1>9, <1>11, <3>1, <3>2
    <3> QED BY <1>3, <3>2, <3>3 DEF Running
  <2> QED BY <2>2, <2>3
<1>15. RunsMatch(stack', h, unwind_init_ref', runs')
  BY <1>1, <1>2, <1>8, <1>9, <1>13, <1>14, QuietRuns
<1> QED BY <1>2, <1>15 DEF RunsInv

(* A running unwind_cleanup is the only one.                                  *)
LEMMA NoOtherCleanup ==
  ASSUME NEW st, NEW g, NEW ref, NEW rn, RunsMatch(st, g, ref, rn), Len(st) \in Nat,
         NEW n \in 1 .. Len(st), st[n].k = "cleanup", NEW c \in 1 .. Len(st), c # n
  PROVE  st[c].k # "cleanup"
<1>1. OneOf(st, n)
  BY DEF RunsMatch
<1> QED BY <1>1 DEF OneOf

(* unwind_cleanup calls an action of the user's.                              *)
LEMMA CleanupRunsAction ==
  ASSUME ScopesInv, ScopesInv', RunsInv, runs \in [Acts -> 0 .. 2], CleanupNext,
         unwind_stack.mem[unwind_stack.fill].h = "user"
  PROVE  RunsInv'
<1>1. PICK g : Match(g) /\ RunsMatch(stack, g, unwind_init_ref, runs)
  BY DEF RunsInv
<1>2. PICK h : Match(h)'
  BY DEF ScopesInv
<1>3. PICK n, x, l : n = Len(stack) /\ x = unwind_stack.fill /\ l = n + 1
  OBVIOUS
<1>4. /\ Targets(stack, g) /\ n \in Nat \ {0} /\ g \in [0 .. n -> Nat] /\ g[n] = x /\ x \in Nat
  BY <1>1, <1>3, OldHeightsAre
<1>5. PICK c : c = [k |-> "action_body", n |-> unwind_stack.mem[x].arg, base |-> x - 1]
  OBVIOUS
<1>6. /\ Top.k = "cleanup" /\ x > 0 /\ unwind_init_ref' = unwind_init_ref
      /\ unwind_stack' = unwind_stack /\ stack' = Append(stack, c)
      /\ CallAction(unwind_stack.mem[x], stack, x - 1)
  BY <1>3, <1>5 DEF CleanupNext, CallAction, exitVars
<1>7. x \in 1 .. unwind_stack.fill /\ c.k = "action_body" /\ c.base = x - 1
  BY <1>3, <1>4, <1>5, <1>6
<1>8. Frames(n, l) /\ stack'[l] = c /\ Len(stack') = l /\ \A k \in 1 .. n : stack'[k] = stack[k]
  BY <1>3, <1>6, CallFrames DEF Frames1, Frames
<1>9. /\ n \in 1 .. n /\ n \in 0 .. n /\ n <= l /\ l \in Nat /\ n \in 1 .. l - 1 /\ n + 1 = l
      /\ (\A j : j \notin n + 1 .. n) /\ (\A j \in n + 1 .. l : j = l) /\ l \in 0 .. l
      /\ \A k \in 1 .. n : k - 1 \in 0 .. n
  BY <1>3, <1>4
<1>10. /\ Heights(stack', unwind_init_ref', h) /\ Bases(stack', h)
       /\ h \in [0 .. l -> Nat] /\ h[l] = x
  BY <1>2, <1>3, <1>6, <1>8, NewHeightsAre
<1>11. stack[n].k = "cleanup" /\ stack'[n].k = "cleanup"
  BY <1>3, <1>6, <1>8, <1>9 DEF Top
<1>12. h[n] = x
  <2>1. stack'[n + 1].base + 1 = h[n]
    BY <1>8, <1>9, <1>10, <1>11 DEF Bases
  <2> QED BY <1>4, <1>7, <1>8, <1>9, <2>1
<1>13. \A k \in 0 .. n : h[k] = g[k] /\ g[k] \in Nat
  <2>1. \A k \in 0 .. n : k < n \/ k = 0 => h[k] = g[k]
    BY <1>1, <1>2, <1>8, <1>9, LowHeights
  <2>2. \A k \in 0 .. n : k < n \/ k = n
    BY <1>4
  <2> QED BY <1>4, <1>12, <2>1, <2>2
<1>14. ASSUME NEW k \in 1 .. n, stack[k].k = "action"
       PROVE  Accounts(stack', h, unwind_init_ref', runs', k)
  <2>1. Stays(stack', h, k) <=> Stays(stack, g, k)
    <3>1. \A j \in n + 1 .. Len(stack) : g[j] \in Nat /\ g[j] >= g[n]
      BY <1>3, <1>9
    <3>2. \A j \in n + 1 .. Len(stack') : h[j] \in Nat /\ h[j] >= g[n]
      BY <1>4, <1>8, <1>9, <1>10
    <3>3. Len(stack) \in Nat /\ Len(stack') \in Nat /\ n \in 1 .. Len(stack) /\ n <= Len(stack')
      BY <1>3, <1>4, <1>8, <1>9
    <3> QED BY <1>13, <3>1, <3>2, <3>3, StaysSame
  <2>2. ~Running(stack, g, k)
    <3>1. \A j \in k + 1 .. n - 1 : j \in 1 .. n /\ j # n
      BY <1>4
    <3>2. \A j \in k + 1 .. n - 1 : stack[j].k # "cleanup"
      BY <1>1, <1>3, <1>4, <1>9, <1>11, <3>1, NoOtherCleanup
    <3> QED BY <1>3, <3>2 DEF Running
  <2>3. Running(stack', h, k) <=> g[k] = x
    <3>1. n \in k + 1 .. l - 1 /\ k \in 0 .. n
      <4>1. k # n
        BY <1>11, <1>14
      <4> QED BY <1>9, <4>1
    <3>2. h[k] = g[k]
      BY <1>13, <3>1
    <3>3. ASSUME NEW j \in k + 1 .. l - 1, stack'[j].k = "cleanup" PROVE j = n
      <4>1. j \in 1 .. n /\ n \in 1 .. n
        BY <1>9
      <4>2. stack[j].k = "cleanup"
        BY <1>8, <3>3, <4>1
      <4> QED BY <1>1, <1>3, <1>4, <1>11, <4>1, <4>2, NoOtherCleanup
    <3> QED BY <1>8, <1>11, <1>12, <3>1, <3>2, <3>3 DEF Running
  <2>4. Accounts(stack, g, unwind_init_ref, runs, k) /\ k \in 1 .. Len(stack) /\ stack'[k] = stack[k]
    BY <1>1, <1>3, <1>8, <1>14 DEF RunsMatch
  <2>5. CASE Stays(stack, g, k) /\ g[k] = x
    <3>1. runs[stack[k].n] = 0 => runs'[stack[k].n] = 1
      BY <1>1, <1>6, <1>7, <1>14, <2>4, <2>5, OwnerStarts
    <3> QED BY <2>1, <2>2, <2>3, <2>4, <2>5, <3>1 DEF Accounts
  <2>6. CASE ~(Stays(stack, g, k) /\ g[k] = x)
    <3>1. runs'[stack[k].n] = runs[stack[k].n]
      BY <1>1, <1>6, <1>7, <1>14, <2>4, <2>6, OthersKeep
    <3> QED BY <1>6, <2>1, <2>2, <2>3, <2>4, <2>6, <3>1 DEF Accounts
  <2> QED BY <2>5, <2>6
<1>15. RunsMatch(stack', h, unwind_init_ref', runs')
  <2>1. \A k \in n + 1 .. Len(stack') : stack'[k].k = "action_body"
    BY <1>7, <1>8, <1>9
  <2>2. \A k \in n + 1 .. Len(stack') :
          /\ stack'[k].k = "action" =>
               stack'[k].n \in Acts /\ Accounts(stack', h, unwind_init_ref', runs', k)
          /\ stack'[k].k = "unwind" => Escapes(stack', h, k)
          /\ OneOf(stack', k)
    BY <2>1 DEF OneOf
  <2>3. \A k \in 0 .. n : k < n => h[k] = g[k]
    BY <1>13
  <2>4. Len(stack) \in Nat /\ Len(stack') \in Nat /\ n \in 0 .. Len(stack) /\ n <= Len(stack')
    BY <1>3, <1>4, <1>8, <1>9
  <2> QED BY <1>1, <1>4, <1>8, <1>14, <2>2, <2>3, <2>4, RunsCarry
<1> QED BY <1>2, <1>15 DEF RunsInv

(* unwind_cleanup calls an action that removes a handler or a restart.        *)
LEMMA CleanupRemoves ==
  ASSUME ScopesInv, ScopesInv', RunsInv, runs \in [Acts -> 0 .. 2], CleanupNext,
         unwind_stack.mem[unwind_stack.fill].h # "user"
  PROVE  RunsInv'
<1>1. PICK g : Match(g) /\ RunsMatch(stack, g, unwind_init_ref, runs)
  BY DEF RunsInv
<1>2. PICK h : Match(h)'
  BY DEF ScopesInv
<1>3. PICK n, m, x : n = Len(stack) /\ m = n - 1 /\ x = unwind_stack.fill
  OBVIOUS
<1>4. /\ Targets(stack, g) /\ n \in Nat \ {0} /\ g \in [0 .. n -> Nat] /\ g[n] = x /\ x \in Nat
  BY <1>1, <1>3, OldHeightsAre
<1>5. /\ Top.k = "cleanup" /\ x > 0 /\ unwind_init_ref' = unwind_init_ref
      /\ unwind_stack' = Pop(unwind_stack) /\ stack' = stack
      /\ CallAction(unwind_stack.mem[x], stack, x - 1)
  BY <1>3 DEF CleanupNext, CallAction, exitVars
<1>6. PICK y : y = x - 1
  OBVIOUS
<1>7. x \in 1 .. unwind_stack.fill /\ y \in Nat /\ x = y + 1
  BY <1>3, <1>4, <1>5, <1>6
<1>8. unwind_stack'.fill = y
  <2>1. UnwindOK(unwind_stack)
    BY DEF ScopesInv
  <2> QED BY <1>3, <1>5, <1>6, <1>7, <2>1, UnwindStackIs
<1>9. /\ m \in Nat /\ m < n /\ n <= n /\ n \in 0 .. n /\ n \in 1 .. n /\ (\A j \in m + 1 .. n : j = n)
      /\ \A k \in 0 .. m : k \in 0 .. n /\ k < n
  BY <1>3, <1>4
<1>10. Frames(n, n)
  BY <1>3, <1>5, <1>9, StackIs DEF Frames
<1>11. h[n] = y
  BY <1>2, <1>3, <1>5, <1>8, NewHeightsAre
<1>12. \A k \in 0 .. n : k < n => h[k] = g[k]
  BY <1>1, <1>2, <1>9, <1>10, LowHeights
<1>13. Sunk(stack, g, stack', h, m, x, y)
  <2>1. \A k \in 0 .. m : h[k] = g[k] /\ g[k] \in Nat
    BY <1>4, <1>9, <1>12
  <2> QED BY <1>3, <1>4, <1>5, <1>7, <1>9, <1>11, <2>1 DEF Sunk
<1>14. \A k \in 1 .. m : Stays(stack', h, k) <=> Stays(stack, g, k) /\ g[k] # x
  BY <1>13, StaysSunk
<1>15. stack[n].k = "cleanup"
  BY <1>3, <1>5 DEF Top
<1>16. \A j \in 1 .. n : j # n => stack[j].k # "cleanup"
  BY <1>1, <1>3, <1>4, <1>9, <1>15, NoOtherCleanup
<1>17. ASSUME NEW k \in 1 .. n, stack[k].k = "action"
       PROVE  Accounts(stack', h, unwind_init_ref', runs', k)
  <2>1. k # n
    BY <1>15, <1>17
  <2>2. k \in 1 .. m /\ k \in 1 .. Len(stack) /\ stack'[k] = stack[k]
    BY <1>3, <1>4, <1>5, <2>1
  <2>3. Stays(stack', h, k) <=> Stays(stack, g, k) /\ g[k] # x
    BY <1>14, <2>2
  <2>4. ~Running(stack, g, k) /\ ~Running(stack', h, k)
    <3>1. \A j \in k + 1 .. n - 1 : j \in 1 .. n /\ j # n
      BY <1>4
    <3> QED BY <1>3, <1>5, <1>16, <3>1 DEF Running
  <2> QED BY <1>1, <1>5, <1>7, <1>17, <2>2, <2>3, <2>4, AccountsSunk
<1>18. RunsMatch(stack', h, unwind_init_ref', runs')
  <2>1. \A k : k \notin n + 1 .. Len(stack')
    BY <1>3, <1>4, <1>5
  <2>2. \A k \in n + 1 .. Len(stack') :
          /\ stack'[k].k = "action" =>
               stack'[k].n \in Acts /\ Accounts(stack', h, unwind_init_ref', runs', k)
          /\ stack'[k].k = "unwind" => Escapes(stack', h, k)
          /\ OneOf(stack', k)
    BY <2>1
  <2>3. /\ Len(stack) \in Nat /\ Len(stack') \in Nat /\ n \in 0 .. Len(stack) /\ n <= Len(stack')
        /\ \A k \in 1 .. n : stack'[k] = stack[k]
    BY <1>3, <1>4, <1>5, <1>9
  <2> QED BY <1>1, <1>4, <1>12, <1>17, <2>2, <2>3, RunsCarry
<1> QED BY <1>2, <1>18 DEF RunsInv

(* An action called by unwind_cleanup has returned: its entry is gone.        *)
LEMMA ActionReturnsRuns ==
  ASSUME ScopesInv, ScopesInv', RunsInv, ActionReturns, stack[Len(stack) - 1].k = "cleanup"
  PROVE  RunsInv'
<1>1. PICK g : Match(g) /\ RunsMatch(stack, g, unwind_init_ref, runs)
  BY DEF RunsInv
<1>2. PICK h : Match(h)'
  BY DEF ScopesInv
<1>3. PICK n, m, l, x, y : n = Len(stack) /\ m = n - 2 /\ l = n - 1 /\ x = unwind_stack.fill /\ y = x - 1
  OBVIOUS
<1>4. /\ Targets(stack, g) /\ n \in Nat \ {0} /\ g \in [0 .. n -> Nat] /\ g[n] = x /\ x \in Nat
  BY <1>1, <1>3, OldHeightsAre
<1>5. /\ Top.k = "action_body" /\ stack' = Below /\ unwind_stack' = Pop(unwind_stack)
      /\ UNCHANGED <<unwind_init_ref, runs>>
  BY DEF ActionReturns, Return, exitVars
<1>6. n > 1
  BY <1>3, <1>5, NotMain
<1>7. g[l] = x /\ x > 0
  <2>1. Based(stack[l], Top, g[l]) /\ g[l] \in Nat
    BY <1>1, <1>3, <1>6, SecondIs
  <2>2. Level(Top, g[l], x, TRUE, unwind_init_ref)
    BY <1>1, <1>3, TopIs
  <2> QED BY <1>3, <1>5, <2>1, <2>2 DEF Based, Level, Sinks, HasEntry
<1>8. unwind_stack'.fill = y /\ y \in Nat /\ x = y + 1
  BY <1>3, <1>4, <1>5, <1>7, UnwindStackIs
<1>9. /\ m \in Nat /\ l \in Nat /\ m < n /\ m < l /\ l <= l /\ l \in 1 .. n /\ l \in 0 .. l
      /\ (\A j \in m + 1 .. n : j = n \/ j = l) /\ (\A j \in m + 1 .. l : j = l)
      /\ (\A k \in 0 .. m : k \in 0 .. n /\ k \in 0 .. l /\ k < l)
      /\ (\A j : j \notin l + 1 .. l)
  BY <1>3, <1>4, <1>6
<1>10. Frames(l, l) /\ Len(stack') = l /\ \A k \in 1 .. l : stack'[k] = stack[k]
  BY <1>3, <1>5, <1>6, ReturnFrames DEF Frames
<1>11. h[l] = y
  BY <1>2, <1>8, <1>10, NewHeightsAre
<1>12. \A k \in 0 .. l : k < l => h[k] = g[k]
  BY <1>1, <1>2, <1>9, <1>10, LowHeights
<1>13. Sunk(stack, g, stack', h, m, x, y)
  <2>1. \A k \in 0 .. m : h[k] = g[k] /\ g[k] \in Nat
    BY <1>4, <1>9, <1>12
  <2>2. /\ \A j \in m + 1 .. n : g[j] = x
        /\ \A j \in m + 1 .. l : h[j] = y
    BY <1>4, <1>7, <1>9, <1>11
  <2> QED BY <1>3, <1>4, <1>8, <1>9, <1>10, <2>1, <2>2 DEF Sunk
<1>14. \A k \in 1 .. m : Stays(stack', h, k) <=> Stays(stack, g, k) /\ g[k] # x
  BY <1>13, StaysSunk
<1>15. stack[l].k = "cleanup"
  BY <1>3
<1>16. \A j \in 1 .. n : j # l => stack[j].k # "cleanup"
  BY <1>1, <1>3, <1>4, <1>9, <1>15, NoOtherCleanup
<1>17. ASSUME NEW k \in 1 .. l, stack[k].k = "action"
       PROVE  Accounts(stack', h, unwind_init_ref', runs', k)
  <2>1. k # l
    BY <1>15, <1>17
  <2>2. k \in 1 .. m /\ k \in 1 .. n /\ l \in k + 1 .. n - 1 /\ stack'[k] = stack[k]
    BY <1>3, <1>4, <1>10, <2>1
  <2>3. Stays(stack', h, k) <=> Stays(stack, g, k) /\ g[k] # x
    BY <1>14, <2>2
  <2>4. Accounts(stack, g, unwind_init_ref, runs, k)
    BY <1>1, <1>3, <1>17, <2>2 DEF RunsMatch
  <2>5. Running(stack, g, k) <=> g[k] = x
    <3>1. ASSUME NEW c \in k + 1 .. n - 1, stack[c].k = "cleanup" PROVE c = l
      <4>1. c \in 1 .. n
        BY <1>4, <2>2
      <4> QED BY <1>16, <3>1, <4>1
    <3> QED BY <1>3, <1>7, <1>15, <2>2, <3>1 DEF Running
  <2>6. ~Running(stack', h, k)
    <3>1. \A c \in k + 1 .. l - 1 : c \in 1 .. n /\ c # l /\ c \in 1 .. l
      BY <1>3, <1>4, <2>2
    <3> QED BY <1>10, <1>16, <3>1 DEF Running
  <2>7. CASE Stays(stack, g, k) /\ g[k] = x
    BY <1>5, <2>2, <2>3, <2>4, <2>5, <2>7 DEF Accounts
  <2>8. CASE ~(Stays(stack, g, k) /\ g[k] = x)
    BY <1>5, <2>2, <2>3, <2>4, <2>5, <2>6, <2>8 DEF Accounts
  <2> QED BY <2>7, <2>8
<1>18. RunsMatch(stack', h, unwind_init_ref', runs')
  <2>1. \A k \in l + 1 .. Len(stack') :
          /\ stack'[k].k = "action" =>
               stack'[k].n \in Acts /\ Accounts(stack', h, unwind_init_ref', runs', k)
          /\ stack'[k].k = "unwind" => Escapes(stack', h, k)
          /\ OneOf(stack', k)
    BY <1>9, <1>10
  <2>2. /\ Len(stack) \in Nat /\ Len(stack') \in Nat /\ l \in 0 .. Len(stack) /\ l <= Len(stack')
    BY <1>3, <1>4, <1>9, <1>10
  <2>3. /\ \A k \in 1 .. l : stack'[k] = stack[k]
        /\ \A k \in 1 .. l : stack[k].k = "action" => Accounts(stack', h, unwind_init_ref', runs', k)
    BY <1>10, <1>17
  <2>4. RunsMatch(stack, g, unwind_init_ref, runs) /\ Targets(stack, g)
    BY <1>1, <1>4
  <2> QED BY <1>12, <2>1, <2>2, <2>3, <2>4, RunsCarry
<1> QED BY <1>2, <1>18 DEF RunsInv

(* The last unwind_cleanup returns with the unwind stack empty: no action     *)
(* below it stays.                                                            *)
LEMMA LastCleanupRuns ==
  ASSUME ScopesInv, ScopesInv', RunsInv, CleanupDone, unwind_init_ref = 0
  PROVE  RunsInv'
<1>1. PICK g : Match(g) /\ RunsMatch(stack, g, unwind_init_ref, runs)
  BY DEF RunsInv
<1>2. PICK h : Match(h)'
  BY DEF ScopesInv
<1>3. PICK n, l : n = Len(stack) /\ l = n - 1
  OBVIOUS
<1>4. /\ Heights(stack, unwind_init_ref, g) /\ Targets(stack, g)
      /\ n \in Nat \ {0} /\ g \in [0 .. n -> Nat] /\ g[n] = unwind_stack.fill
  BY <1>1, <1>3, OldHeightsAre
<1>5. /\ Top.k = "cleanup" /\ stack' = Below /\ unwind_stack.fill = 0
      /\ UNCHANGED <<unwind_stack, unwind_init_ref, runs>>
  BY DEF CleanupDone, Return
<1>6. n > 1
  BY <1>3, <1>5, NotMain
<1>7. Above(stack[l], Top)
  BY <1>1, <1>3, <1>6, SecondIs
<1>8. stack[l].k # "action"
  BY <1>5, <1>7 DEF Above
<1>9. /\ l \in Nat /\ l <= l /\ l \in 1 .. n /\ l \in 0 .. l /\ (\A j : j \notin l + 1 .. l)
  BY <1>3, <1>4, <1>6
<1>10. Frames(l, l) /\ Len(stack') = l /\ \A k \in 1 .. l : stack'[k] = stack[k]
  BY <1>3, <1>5, <1>6, ReturnFrames DEF Frames
<1>11. h[l] = 0
  BY <1>2, <1>5, <1>10, NewHeightsAre
<1>12. \A k \in 0 .. l : k < l => h[k] = g[k]
  BY <1>1, <1>2, <1>9, <1>10, LowHeights
<1>13. ASSUME NEW k \in 1 .. l, stack[k].k = "action"
       PROVE  Accounts(stack', h, unwind_init_ref', runs', k)
  <2>1. k # l
    BY <1>8, <1>13
  <2>2. /\ k \in 1 .. n /\ stack'[k] = stack[k] /\ k - 1 \in 0 .. n /\ n \in k .. n /\ l \in k .. l
        /\ k \in 0 .. l /\ k < l
    BY <1>3, <1>4, <1>9, <1>10, <2>1
  <2>3. g[k] = g[k - 1] + 1 /\ g[k - 1] \in Nat
    <3>1. \E top : Level(stack[k], g[k - 1], g[k], top, unwind_init_ref)
      BY <1>3, <1>4, <2>2 DEF Heights
    <3> QED BY <1>4, <1>13, <2>2, <3>1 DEF Level, HasEntry
  <2>4. ~Stays(stack, g, k)
    BY <1>3, <1>4, <1>5, <2>2, <2>3 DEF Stays
  <2>5. ~Stays(stack', h, k)
    <3>1. l \in k .. Len(stack')
      BY <1>9, <1>10, <2>2
    <3>2. h[k] = g[k - 1] + 1 /\ g[k - 1] \in Nat
      BY <1>12, <2>2, <2>3
    <3>3. ~(h[l] >= h[k])
      BY <1>11, <3>2
    <3> QED BY <3>1, <3>3 DEF Stays
  <2>6. Accounts(stack, g, unwind_init_ref, runs, k)
    BY <1>1, <1>3, <1>13, <2>2 DEF RunsMatch
  <2> QED BY <1>5, <2>2, <2>4, <2>5, <2>6 DEF Accounts
<1>14. RunsMatch(stack', h, unwind_init_ref', runs')
  <2>1. \A k \in l + 1 .. Len(stack') :
          /\ stack'[k].k = "action" =>
               stack'[k].n \in Acts /\ Accounts(stack', h, unwind_init_ref', runs', k)
          /\ stack'[k].k = "unwind" => Escapes(stack', h, k)
          /\ OneOf(stack', k)
    BY <1>9, <1>10
  <2>2. /\ Len(stack) \in Nat /\ Len(stack') \in Nat /\ l \in 0 .. Len(stack) /\ l <= Len(stack')
    BY <1>3, <1>4, <1>9, <1>10
  <2>3. /\ \A k \in 1 .. l : stack'[k] = stack[k]
        /\ \A k \in 1 .. l : stack[k].k = "action" => Accounts(stack', h, unwind_init_ref', runs', k)
    BY <1>10, <1>13
  <2>4. RunsMatch(stack, g, unwind_init_ref, runs) /\ Targets(stack, g)
    BY <1>1, <1>4
  <2> QED BY <1>12, <2>1, <2>2, <2>3, <2>4, RunsCarry
<1> QED BY <1>2, <1>14 DEF RunsInv

LEMMA RunsLibrary ==
  ASSUME ScopesInv, ScopesInv', RunsInv, runs \in [Acts -> 0 .. 2], LibraryStep
  PROVE  RunsInv'
<1>1. CASE ExitThread \/ ReportOverflows \/ UseAfterFree
  <2>1. UNCHANGED <<stack, unwind_stack, runs>> /\ unwind_init_ref' = unwind_init_ref
    BY <1>1 DEF ReportOverflows, ExitThread, UseAfterFree, UndefinedBehaviour
  <2> QED BY <2>1, SameRuns
<1>2. CASE CleanupNext
  BY <1>2, CleanupRunsAction, CleanupRemoves
<1>3. CASE CleanupDone
  BY <1>3, CleanupReturnsRuns, LastCleanupRuns
<1>4. CASE UnwindNext
  BY <1>4, UnwindNextRuns
<1>5. CASE UnwindDone
  BY <1>5, UnwindDoneRuns
<1>6. CASE SendNext
  BY <1>6, SendNextRuns
<1>7. CASE ReportFails
  BY <1>7, ReportFailsRuns
<1>8. CASE ReportAndRaise \/ UnwindAll
  BY <1>8, StageRuns
<1>9. CASE CatchallCleansUp
  BY <1>9, CatchallCleansUpRuns
<1> QED BY <1>1, <1>2, <1>3, <1>4, <1>5, <1>6, <1>7, <1>8, <1>9 DEF LibraryStep

LEMMA RunsNext ==
  ASSUME ScopesInv, RunsInv, Counted, [Next]_vars
  PROVE  RunsInv'
<1>1. ScopesInv' /\ runs \in [Acts -> 0 .. 2]
  BY ScopesNext DEF Counted
<1>2. CASE UserStep /\ ~(ActionReturns /\ stack[Len(stack) - 1].k = "cleanup")
  BY <1>1, <1>2, RunsUser
<1>3. CASE ActionReturns /\ stack[Len(stack) - 1].k = "cleanup"
  BY <1>1, <1>3, ActionReturnsRuns
<1>4. CASE LibraryStep
  BY <1>1, <1>4, RunsLibrary
<1>5. CASE UNCHANGED vars
  <2>1. UNCHANGED <<stack, unwind_stack, runs>> /\ unwind_init_ref' = unwind_init_ref
    BY <1>5 DEF vars
  <2> QED BY <1>1, <2>1, SameRuns
<1> QED BY <1>2, <1>3, <1>4, <1>5 DEF Next, Ended

LEMMA RunsInit == Init => RunsInv
<1> SUFFICES ASSUME Init PROVE RunsInv
  OBVIOUS
<1>1. PICK g : Match(g)
  BY ScopesInit DEF ScopesInv
<1>2. stack = <<[k |-> "main"]>>
  BY DEF Init
<1>3. Len(stack) = 1 /\ stack[1].k = "main" /\ \A k \in 1 .. Len(stack) : k = 1
  BY <1>2
<1>4. \A k \in 1 .. Len(stack) : stack[k].k = "main"
  BY <1>3
<1>5. RunsMatch(stack, g, unwind_init_ref, runs)
  BY <1>4 DEF RunsMatch, OneOf
<1> QED BY <1>1, <1>5 DEF RunsInv

-----------------------------------------------------------------------------
(* The scopes of actions that a step keeps                                  *)

KeepsActions ==
  \A k \in 1 .. Len(stack) : stack[k].k = "action" => k \in 1 .. Len(stack') /\ stack'[k] = stack[k]

LEMMA ActionsKept ==
  ASSUME ScopesInv, NEW m, NEW l, Frames(m, l), m <= l, l \in Nat,
         \A k \in m + 1 .. Len(stack) : stack[k].k # "action"
  PROVE  KeepsActions
<1>1. /\ Len(stack) \in Nat /\ m \in 0 .. Len(stack) /\ Len(stack') = l
      /\ \A k \in 1 .. m : stack'[k] = stack[k]
  BY StackIs DEF Frames
<1>2. ASSUME NEW k \in 1 .. Len(stack), stack[k].k = "action" PROVE k \in 1 .. m
  <2>1. k \notin m + 1 .. Len(stack)
    BY <1>2
  <2> QED BY <1>1, <2>1
<1>3. \A k \in 1 .. m : k \in 1 .. l
  BY <1>1
<1> QED BY <1>1, <1>2, <1>3 DEF KeepsActions

LEMMA CallKeeps ==
  ASSUME ScopesInv, NEW f, stack' = Append(stack, f)
  PROVE  KeepsActions
<1>1. PICK n, l : n = Len(stack) /\ l = n + 1
  OBVIOUS
<1>2. n \in Nat /\ n <= l /\ l \in Nat /\ \A k : k \notin n + 1 .. n
  BY <1>1, StackIs
<1>3. Frames(n, l)
  BY <1>1, CallFrames DEF Frames1
<1> QED BY <1>1, <1>2, <1>3, ActionsKept

(* The top frame, no scope of an action, is left or changed.                  *)
LEMMA TopKeeps ==
  ASSUME ScopesInv, Top.k # "action", NEW f, NEW c,
         \/ Len(stack) > 1 /\ stack' = Below
         \/ Frames1(Len(stack) - 1, f)
         \/ Frames2(Len(stack) - 1, f, c)
  PROVE  KeepsActions
<1>1. PICK n, m : n = Len(stack) /\ m = n - 1
  OBVIOUS
<1>2. n \in Nat \ {0} /\ m \in Nat /\ m <= m /\ m <= m + 1 /\ m <= m + 2 /\ m + 1 \in Nat /\ m + 2 \in Nat
      /\ \A k \in m + 1 .. n : k = n
  BY <1>1, StackIs
<1>3. \A k \in m + 1 .. Len(stack) : stack[k].k # "action"
  BY <1>1, <1>2 DEF Top
<1>4. CASE Len(stack) > 1 /\ stack' = Below
  <2>1. Frames(m, m)
    BY <1>1, <1>4, ReturnFrames
  <2> QED BY <1>2, <1>3, <2>1, ActionsKept
<1>5. CASE Frames1(Len(stack) - 1, f)
  <2>1. PICK l : l = m + 1
    OBVIOUS
  <2>2. Frames(m, l)
    BY <1>1, <1>5, <2>1 DEF Frames1
  <2> QED BY <1>2, <1>3, <2>1, <2>2, ActionsKept
<1>6. CASE Frames2(Len(stack) - 1, f, c)
  <2>1. PICK l : l = m + 2
    OBVIOUS
  <2>2. Frames(m, l)
    BY <1>1, <1>6, <2>1 DEF Frames2
  <2> QED BY <1>2, <1>3, <2>1, <2>2, ActionsKept
<1> QED BY <1>4, <1>5, <1>6

LEMMA HandlerReturnsKeeps ==
  ASSUME ScopesInv, NEW rst, HandlerReturns(rst)
  PROVE  KeepsActions
<1>1. PICK n, m : n = Len(stack) /\ m = n - 2
  OBVIOUS
<1>2. PICK f, c :
        /\ m \in Nat /\ stack[n - 1].k = "send"
        /\ Frames1(m, f) \/ Frames2(m, f, c)
  BY <1>1, HandlerReturnsFrames
<1>3. stack[n].k = "handler_body"
  BY <1>1 DEF HandlerReturns, Top
<1>4. n \in Nat /\ \A k \in m + 1 .. n : k = n \/ k = n - 1
  BY <1>1, StackIs
<1>5. \A k \in m + 1 .. Len(stack) : stack[k].k # "action"
  BY <1>1, <1>2, <1>3, <1>4
<1>6. PICK l : (l = m + 1 \/ l = m + 2) /\ Frames(m, l)
  BY <1>2 DEF Frames1, Frames2
<1>7. m <= l /\ l \in Nat
  BY <1>2, <1>6
<1> QED BY <1>5, <1>6, <1>7, ActionsKept

LEMMA UserKeeps ==
  ASSUME ScopesInv, UserStep, ~LeaveScope, ~LeaveExplicitScope
  PROVE  KeepsActions
<1>1. CASE \E f : stack' = Append(stack, f)
  BY <1>1, CallKeeps
<1>2. CASE UNCHANGED stack
  BY <1>2 DEF KeepsActions
<1>3. CASE LeavePoint \/ ActionReturns
  <2>1. Top.k \in {"point", "action_body"} /\ stack' = Below
    BY <1>3 DEF LeavePoint, ActionReturns, Return
  <2>2. Len(stack) > 1
    BY <2>1, NotMain
  <2> QED BY <2>1, <2>2, TopKeeps
<1>4. CASE ReprovideRestart
  <2>1. PICK f : f = [Top EXCEPT !.returned = FALSE, !.id = NextId(sig_restart_stack, 0)]
    OBVIOUS
  <2>2. /\ Top.k = "point"
        /\ stack' = [stack EXCEPT ![Len(stack)].returned = FALSE,
                                  ![Len(stack)].id = NextId(sig_restart_stack, 0)]
    BY <1>4 DEF ReprovideRestart
  <2>3. Len(stack) \in DOMAIN stack
    BY StackIs DEF IsSequence
  <2>4. stack' = WithTop(f)
    BY <2>1, <2>2, <2>3 DEF WithTop, Top
  <2>5. Frames1(Len(stack) - 1, f)
    BY <2>4, RewriteFrames
  <2> QED BY <2>2, <2>5, TopKeeps
<1>5. ASSUME NEW rst, HandlerReturns(rst) PROVE KeepsActions
  BY <1>5, HandlerReturnsKeeps
<1>6. \/ \E f : stack' = Append(stack, f)
      \/ UNCHANGED stack
      \/ LeavePoint \/ ActionReturns
      \/ ReprovideRestart
      \/ \E rst : HandlerReturns(rst)
  BY DEF UserStep, Call, UnwindAction, AutopopHandler, AutopopNullHandler, ProvideRestart, ReturnPoint,
     PersistentHandler, RmPersistentHandler, UnwindInit, UnwindRelease, Unwind, Send, AssertHandler,
     ThreadCleansUp, ThreadUnwindCleanup, SigCleanup
<1> QED BY <1>1, <1>2, <1>3, <1>4, <1>5, <1>6

LEMMA LibraryKeeps ==
  ASSUME ScopesInv, LibraryStep, ~UnwindDone
  PROVE  KeepsActions
<1>1. CASE UnwindNext
  <2>1. PICK f, c : Frames1(Len(stack) - 1, f) \/ Frames2(Len(stack) - 1, f, c)
    BY <1>1, UnwindNextFrames
  <2>2. Top.k # "action"
    BY <1>1 DEF UnwindNext
  <2> QED BY <2>1, <2>2, TopKeeps
<1>2. CASE SendNext
  <2>1. PICK j, f, c : /\ f = [Top EXCEPT !.i = j - 1] /\ c = CalledFrame(sig_handler_stack.mem[j])
                       /\ \/ stack' = Below
                          \/ stack' = Append([stack EXCEPT ![Len(stack)].i = j - 1], c)
    BY <1>2 DEF SendNext
  <2>2. Top.k = "send"
    BY <1>2 DEF SendNext
  <2>3. CASE stack' = Below
    BY <2>2, <2>3, NotMain, TopKeeps
  <2>4. CASE stack' = Append([stack EXCEPT ![Len(stack)].i = j - 1], c)
    <3>1. [stack EXCEPT ![Len(stack)].i = j - 1] = WithTop(f)
      BY <2>1, FieldOfTop
    <3>2. Frames2(Len(stack) - 1, f, c)
      BY <2>4, <3>1, RewriteCallFrames
    <3> QED BY <2>2, <3>2, TopKeeps
  <2> QED BY <2>1, <2>3, <2>4
<1>3. CASE ReportAndRaise \/ UnwindAll
  <2>1. PICK s \in {"raised", "asked"} : stack' = GoTo(s)
    BY <1>3 DEF ReportAndRaise, UnwindAll
  <2>2. PICK f : f = [Top EXCEPT !.stage = s]
    OBVIOUS
  <2>3. stack' = WithTop(f) /\ Top.k = "catchall"
    BY <1>3, <2>1, <2>2, FieldOfTop DEF GoTo, ReportAndRaise, UnwindAll, AtStage
  <2>4. Frames1(Len(stack) - 1, f)
    BY <2>3, RewriteFrames
  <2> QED BY <2>3, <2>4, TopKeeps
<1>4. CASE CatchallCleansUp
  <2>1. PICK f, c : f = [Top EXCEPT !.stage = "cleaned"] /\ c = [k |-> "cleanup"]
    OBVIOUS
  <2>2. Top.k = "catchall" /\ stack' = Append([stack EXCEPT ![Len(stack)].stage = "cleaned"], c)
    BY <1>4, <2>1 DEF CatchallCleansUp, AtStage, SigCleanup, GoTo
  <2>3. [stack EXCEPT ![Len(stack)].stage = "cleaned"] = WithTop(f)
    BY <2>1, FieldOfTop
  <2>4. Frames2(Len(stack) - 1, f, c)
    BY <2>2, <2>3, RewriteCallFrames
  <2> QED BY <2>2, <2>4, TopKeeps
<1>5. CASE CleanupDone
  <2>1. Top.k = "cleanup" /\ stack' = Below
    BY <1>5 DEF CleanupDone, Return
  <2>2. Len(stack) > 1
    BY <2>1, NotMain
  <2> QED BY <2>1, <2>2, TopKeeps
<1>6. CASE ReportFails \/ CleanupNext
  <2>1. UNCHANGED stack \/ \E f : stack' = Append(stack, f)
    BY <1>6 DEF ReportFails, Call, CleanupNext, CallAction
  <2> QED BY <2>1, CallKeeps DEF KeepsActions
<1>7. CASE ExitThread \/ ReportOverflows \/ UseAfterFree
  BY <1>7 DEF ReportOverflows, ExitThread, UseAfterFree, UndefinedBehaviour, KeepsActions
<1> QED BY <1>1, <1>2, <1>3, <1>4, <1>5, <1>6, <1>7 DEF LibraryStep

LEMMA KeptScopes ==
  ASSUME ScopesInv, ScopesInv', KeepsActions, NEW n, NEW always, ActionScope(n, always)
  PROVE  ActionScope(n, always)'
<1>1. PICK k \in DOMAIN stack : stack[k].k = "action" /\ stack[k].n = n /\ stack[k].always = always
  BY DEF ActionScope, FramesOf
<1>2. k \in 1 .. Len(stack)
  BY <1>1, StackIs DEF IsSequence
<1>3. k \in 1 .. Len(stack') /\ stack'[k] = stack[k]
  BY <1>1, <1>2 DEF KeepsActions
<1>4. IsSequence(stack')
  BY DEF ScopesInv, Shape
<1>5. k \in DOMAIN stack'
  BY <1>3, <1>4 DEF IsSequence
<1> QED BY <1>1, <1>3, <1>5 DEF ActionScope, FramesOf

(* A scope that is left normally was not run, one that was given up was.      *)
LEMMA LastAccount ==
  ASSUME ScopesInv, RunsInv, Top.k = "action"
  PROVE  Top.n \in Acts /\ runs[Top.n] = 0
<1>1. PICK g : Match(g) /\ RunsMatch(stack, g, unwind_init_ref, runs)
  BY DEF RunsInv
<1>2. PICK n : n = Len(stack) /\ n \in Nat \ {0} /\ g \in [0 .. n -> Nat]
  BY <1>1, OldHeightsAre
<1>3. n \in 1 .. n /\ (\A j \in n .. n : j = n) /\ (\A j : j \notin n + 1 .. n - 1) /\ g[n] \in Nat
  BY <1>2
<1>4. Stays(stack, g, n) /\ ~Running(stack, g, n)
  BY <1>2, <1>3 DEF Stays, Running
<1>5. stack[n] = Top
  BY <1>2 DEF Top
<1> QED BY <1>1, <1>2, <1>3, <1>4, <1>5 DEF RunsMatch, Accounts

LEMMA ActionHeight ==
  ASSUME ScopesInv, NEW g, Match(g), NEW k \in 1 .. Len(stack), stack[k].k = "action"
  PROVE  g[k] = g[k - 1] + 1 /\ g[k - 1] \in Nat
<1>1. Heights(stack, unwind_init_ref, g) /\ Len(stack) \in Nat /\ g \in [0 .. Len(stack) -> Nat]
  BY OldHeightsAre
<1>2. \E top : Level(stack[k], g[k - 1], g[k], top, unwind_init_ref)
  BY <1>1 DEF Heights
<1>3. k - 1 \in 0 .. Len(stack)
  BY <1>1
<1> QED BY <1>1, <1>2, <1>3 DEF Level, HasEntry

LEMMA GivenUp ==
  ASSUME ScopesInv, NEW g, Match(g), RunsMatch(stack, g, unwind_init_ref, runs),
         NEW k \in 1 .. Len(stack), stack[k].k = "action", unwind_stack.fill <= g[k - 1]
  PROVE  runs[stack[k].n] = 1 \/ (unwind_init_ref = 0 /\ runs[stack[k].n] = 2)
<1>1. g[k] = g[k - 1] + 1 /\ g[k - 1] \in Nat
  BY ActionHeight
<1>2. g[Len(stack)] = unwind_stack.fill /\ unwind_stack.fill \in Nat /\ Len(stack) \in Nat
  BY OldHeightsAre
<1>3. Len(stack) \in k .. Len(stack)
  BY <1>2
<1>4. ~Stays(stack, g, k)
  BY <1>1, <1>2, <1>3 DEF Stays
<1> QED BY <1>4 DEF RunsMatch, Accounts

(* What ScopesAreCleaned demands of the step that leaves a scope.             *)
CountsRight(n, always) ==
  IF always \/ Top.k = "unwind"
  THEN runs'[n] = 1 \/ (unwind_init_ref = 0 /\ runs'[n] = 2)
  ELSE runs'[n] = 0

LEMMA FrameOf ==
  ASSUME ScopesInv, NEW n, NEW always, ActionScope(n, always)
  PROVE  \E k \in 1 .. Len(stack) : stack[k].k = "action" /\ stack[k].n = n /\ stack[k].always = always
<1>1. DOMAIN stack = 1 .. Len(stack)
  BY StackIs DEF IsSequence
<1> QED BY <1>1 DEF ActionScope, FramesOf

(* Leaving a scope keeps those below it.                                      *)
LEMMA OnlyTopLeft ==
  ASSUME ScopesInv, ScopesInv', NEW n, NEW always, ActionScope(n, always), ~ActionScope(n, always)',
         Len(stack) > 1, NEW c, stack' = Below \/ stack' = Append(Below, c)
  PROVE  Top.k = "action" /\ Top.n = n /\ Top.always = always
<1>1. PICK k \in 1 .. Len(stack) : stack[k].k = "action" /\ stack[k].n = n /\ stack[k].always = always
  BY FrameOf
<1> SUFFICES ASSUME k # Len(stack) PROVE FALSE
  BY <1>1 DEF Top
<1>2. PICK m : m = Len(stack) - 1 /\ m \in Nat
  BY StackIs
<1>3. k \in 1 .. m
  BY <1>2, StackIs
<1>4. Frames(m, m) \/ Frames(m, m + 1)
  BY <1>2, ReturnFrames, TailCallFrames DEF Frames1
<1>5. stack'[k] = stack[k] /\ k \in 1 .. Len(stack')
  BY <1>2, <1>3, <1>4 DEF Frames
<1>6. k \in DOMAIN stack'
  <2>1. IsSequence(stack')
    BY DEF ScopesInv, Shape
  <2> QED BY <1>5, <2>1 DEF IsSequence
<1> QED BY <1>1, <1>5, <1>6 DEF ActionScope, FramesOf

LEMMA LeaveScopeCounts ==
  ASSUME ScopesInv, ScopesInv', RunsInv, runs \in [Acts -> 0 .. 2], LeaveScope,
         NEW n, NEW always \in BOOLEAN, ActionScope(n, always), ~ActionScope(n, always)'
  PROVE  CountsRight(n, always)
<1>1. /\ UserRuns /\ HasEntry(Top) /\ ~Explicit(Top)
      /\ CallAction(EntryOf(Top), Below, unwind_stack.fill - 1)
  BY DEF LeaveScope
<1>2. Len(stack) > 1
  BY <1>1, NotMain DEF HasEntry
<1>3. stack' = Below \/ \E c : stack' = Append(Below, c)
  BY <1>1 DEF CallAction
<1>4. Top.k = "action" /\ Top.n = n /\ Top.always = always
  BY <1>2, <1>3, OnlyTopLeft
<1>5. always
  BY <1>1, <1>4 DEF Explicit
<1>6. PICK a \in Acts : a = Top.n /\ runs[a] = 0
  BY <1>4, LastAccount
<1>7. EntryOf(Top).h = "user" /\ EntryOf(Top).arg = a
  BY <1>4, <1>6 DEF EntryOf
<1>8. runs' = Started(a)
  BY <1>1, <1>7, EntryRuns
<1>9. Started(a)[a] = IF runs[a] < 2 THEN runs[a] + 1 ELSE runs[a]
  BY DEF Started
<1>10. runs'[a] = 1
  BY <1>6, <1>8, <1>9
<1> QED BY <1>4, <1>5, <1>6, <1>10 DEF CountsRight

LEMMA LeaveExplicitCounts ==
  ASSUME ScopesInv, ScopesInv', RunsInv, LeaveExplicitScope,
         NEW n, NEW always \in BOOLEAN, ActionScope(n, always), ~ActionScope(n, always)'
  PROVE  CountsRight(n, always)
<1>1. Explicit(Top) /\ stack' = Below /\ runs' = runs
  BY DEF LeaveExplicitScope, Return
<1>2. Top.k = "action" /\ ~Top.always
  BY <1>1 DEF Explicit
<1>3. Len(stack) > 1
  BY <1>2, NotMain
<1>4. Top.n = n /\ Top.always = always
  BY <1>1, <1>3, OnlyTopLeft
<1>5. runs[n] = 0
  BY <1>2, <1>4, LastAccount
<1> QED BY <1>1, <1>2, <1>4, <1>5 DEF CountsRight

LEMMA UnwindDoneCounts ==
  ASSUME ScopesInv, ScopesInv', RunsInv, UnwindDone,
         NEW n, NEW always \in BOOLEAN, ActionScope(n, always), ~ActionScope(n, always)'
  PROVE  CountsRight(n, always)
<1>1. PICK g : Match(g) /\ RunsMatch(stack, g, unwind_init_ref, runs)
  BY DEF RunsInv
<1>2. PICK k \in 1 .. Len(stack) : stack[k].k = "action" /\ stack[k].n = n /\ stack[k].always = always
  BY FrameOf
<1>3. Top.k = "unwind" /\ ~(Top.i > stack[Top.p].to) /\ runs' = runs
  BY DEF UnwindDone, UnwindMore
<1>4. PICK p, m : p = Top.p /\ m = p - 1
  OBVIOUS
<1>5. /\ p \in 1 .. Len(stack) - 1 /\ stack[p].k = "point" /\ stack[p].to \in Nat
      /\ \A j \in p .. Len(stack) : g[j] >= stack[p].to
      /\ Top.i = unwind_stack.fill
  BY <1>1, <1>3, <1>4, TargetIs
<1>6. unwind_stack.fill \in Nat /\ Len(stack) \in Nat /\ g \in [0 .. Len(stack) -> Nat]
  BY <1>1, OldHeightsAre
<1>7. unwind_stack.fill <= stack[p].to
  BY <1>3, <1>4, <1>5, <1>6
<1>8. k > p
  <2> SUFFICES ASSUME k <= p PROVE FALSE
    BY <1>5
  <2>1. k # p
    BY <1>2, <1>5
  <2>2. PICK f : Frames1(m, f)
    BY <1>4, UnwindDoneFrames
  <2>3. k \in 1 .. m /\ k \in 1 .. m + 1
    BY <1>4, <1>5, <2>1
  <2>4. stack'[k] = stack[k] /\ k \in 1 .. Len(stack') /\ IsSequence(stack')
    BY <2>2, <2>3 DEF Frames1, Frames
  <2>5. k \in DOMAIN stack'
    BY <2>4 DEF IsSequence
  <2> QED BY <1>2, <2>4, <2>5 DEF ActionScope, FramesOf
<1>9. unwind_stack.fill <= g[k - 1]
  <2>1. k - 1 \in p .. Len(stack) /\ k - 1 \in 0 .. Len(stack)
    BY <1>5, <1>6, <1>8
  <2>2. g[k - 1] >= stack[p].to /\ g[k - 1] \in Nat
    BY <1>5, <1>6, <2>1
  <2> QED BY <1>5, <1>6, <1>7, <2>2
<1>10. runs[n] = 1 \/ (unwind_init_ref = 0 /\ runs[n] = 2)
  BY <1>1, <1>2, <1>9, GivenUp
<1> QED BY <1>3, <1>10 DEF CountsRight

LEMMA ScopesCount ==
  ASSUME ScopesInv, RunsInv, Counted, Next,
         NEW n, NEW always \in BOOLEAN, ActionScope(n, always), ~ActionScope(n, always)'
  PROVE  CountsRight(n, always)
<1>1. ScopesInv' /\ runs \in [Acts -> 0 .. 2]
  BY ScopesNext DEF Counted
<1>2. ~KeepsActions
  BY <1>1, KeptScopes
<1>3. ~UNCHANGED vars
  BY <1>2 DEF vars, KeepsActions
<1>4. LeaveScope \/ LeaveExplicitScope \/ UnwindDone
  BY <1>2, <1>3, UserKeeps, LibraryKeeps DEF Next, Ended
<1> QED BY <1>1, <1>4, LeaveScopeCounts, LeaveExplicitCounts, UnwindDoneCounts

LEMMA RunsHold == Spec => [](ScopesInv /\ Counted /\ RunsInv)
<1>1. ScopesInv => SigStacksOK
  BY DEF ScopesInv
<1>2. ScopesInv /\ Counted /\ RunsInv /\ [Next]_vars => RunsInv'
  BY RunsNext
<1> QED BY <1>1, <1>2, CountedInit, CountedNext, RunsInit, ScopesInvariant, PTL DEF Spec

(* However a scope is left - at its end, by an _unwind out of it, through a   *)
(* handler that chose a restart or from inside unwind_cleanup - its action    *)
(* was started exactly once, an explicit one only by unwinding; only          *)
(* unwind_cleanup may have started an action before (unwind.h, unwind.c).     *)
THEOREM ActionsRunOnce == Spec => ScopesAreCleaned
<1>1. ScopesInv /\ Counted /\ RunsInv /\ [Next]_vars =>
        [ \A n \in Acts, always \in BOOLEAN :
            ActionScope(n, always) /\ ~ActionScope(n, always)' =>
              IF always \/ Top.k = "unwind"
              THEN runs'[n] = 1 \/ (unwind_init_ref = 0 /\ runs'[n] = 2)
              ELSE runs'[n] = 0 ]_vars
  BY ScopesCount DEF CountsRight
<1> QED BY <1>1, RunsHold, PTL DEF Spec, ScopesAreCleaned

-----------------------------------------------------------------------------
(* The confirmed shutdown                                                   *)

ConfirmInv ==
  confirmed => /\ unwind_init_ref = 0 /\ unwind_stack.fill = 0
               /\ status = "running" => Top.k = "catchall" /\ Top.stage = "cleaned"

(* After the last unwind_cleanup the catch-all handler only exits.            *)
LEMMA ConfirmedStays ==
  ASSUME ScopesInv, ConfirmInv, confirmed, [Next]_vars
  PROVE  ConfirmInv'
<1>1. CASE UNCHANGED vars
  BY <1>1 DEF vars, ConfirmInv, Top
<1>2. CASE status # "running"
  <2>1. ~UserStep
    BY <1>2 DEF UserStep, UserCalls, UserRuns, UnwindAction, AutopopHandler,
      AutopopNullHandler, ProvideRestart, ReturnPoint, ReprovideRestart, LeaveScope,
      LeaveExplicitScope, LeavePoint, ActionReturns, HandlerReturns, PersistentHandler,
      RmPersistentHandler, UnwindInit, UnwindRelease, Unwind, Send, AssertHandler,
      ThreadCleansUp, ThreadUnwindCleanup
  <2>2. ~LibraryStep
    BY <1>2 DEF LibraryStep, UnwindNext, UnwindDone, SendNext, ReportFails, ReportAndRaise, UnwindAll,
      AtStage, CatchallCleansUp, ReportOverflows, ExitThread, CleanupNext, CleanupDone, UseAfterFree
  <2> QED BY <1>1, <2>1, <2>2 DEF Next, Ended
<1>3. CASE status = "running"
  <2>1. Top.k = "catchall" /\ Top.stage = "cleaned"
    BY <1>3 DEF ConfirmInv
  <2>2. Len(stack) # 1
    <3>1. 1 \in 1 .. Len(stack)
      BY StackIs
    <3> QED BY <2>1, <3>1 DEF ScopesInv, Shape, Top
  <2>3. ~UserStep
    BY <2>1, <2>2 DEF UserStep, UserCalls, UserRuns, UnwindAction, AutopopHandler,
      AutopopNullHandler, ProvideRestart, ReturnPoint, ReprovideRestart, LeaveScope,
      LeaveExplicitScope, LeavePoint, ActionReturns, HandlerReturns, PersistentHandler,
      RmPersistentHandler, UnwindInit, UnwindRelease, Unwind, Send, AssertHandler,
      ThreadCleansUp, ThreadUnwindCleanup
  <2>4. LibraryStep => ExitThread
    BY <2>1 DEF LibraryStep, UnwindNext, UnwindDone, SendNext, ReportFails, ReportAndRaise, UnwindAll,
      ReportOverflows, AtStage, CatchallCleansUp, CleanupNext, CleanupDone, UseAfterFree, UserRuns
  <2>5. CASE ExitThread
    BY <2>5 DEF ExitThread, ConfirmInv, Top
  <2> QED BY <1>1, <2>3, <2>4, <2>5 DEF Next, Ended
<1> QED BY <1>2, <1>3

(* Only the last unwind_cleanup confirms.                                     *)
LEMMA OnlyCleanupConfirms ==
  ASSUME ScopesInv, ~confirmed, [Next]_vars
  PROVE  ConfirmInv'
<1> SUFFICES ASSUME confirmed' PROVE ConfirmInv'
  BY DEF ConfirmInv
<1>1. ~UNCHANGED confirmed
  OBVIOUS
<1>2. ~UserStep
  BY <1>1 DEF UserStep, exitVars, UnwindAction, AutopopHandler,
    AutopopNullHandler, ProvideRestart, ReturnPoint, ReprovideRestart, LeaveScope,
    LeaveExplicitScope, LeavePoint, ActionReturns, HandlerReturns, PersistentHandler,
    RmPersistentHandler, UnwindInit, UnwindRelease, Unwind, Send, AssertHandler,
    ThreadCleansUp, ThreadUnwindCleanup, SigCleanup
<1>3. LibraryStep => CleanupDone
  BY <1>1 DEF LibraryStep, exitVars, UnwindNext, UnwindDone, SendNext, ReportFails, ReportAndRaise, UnwindAll,
    CatchallCleansUp, SigCleanup, ReportOverflows, ExitThread, CleanupNext, UseAfterFree, UndefinedBehaviour
<1>4. CleanupDone
  BY <1>1, <1>2, <1>3 DEF Next, Ended, vars
<1>5. /\ Top.k = "cleanup" /\ unwind_init_ref = 0 /\ unwind_stack.fill = 0
      /\ UNCHANGED <<unwind_init_ref, unwind_stack>> /\ stack' = Below
      /\ status' = IF Len(stack) = 2 THEN "finished" ELSE status
  <2>1. unwind_init_ref = 0
    BY <1>4 DEF CleanupDone
  <2> QED BY <1>4, <2>1 DEF CleanupDone, Return
<1>6. PICK n : n = Len(stack) /\ n > 1
  BY <1>5, NotMain
<1>7. ASSUME status' = "running" PROVE Top'.k = "catchall" /\ Top'.stage = "cleaned"
  <2>1. n # 2
    BY <1>5, <1>6, <1>7
  <2>2. PICK g : Match(g)
    BY DEF ScopesInv
  <2>3. Above(stack[n - 1], Top)
    BY <1>6, <2>2, SecondIs
  <2>4. n \in Nat /\ n - 1 \in 1 .. n - 1 /\ n - 1 \in 1 .. n /\ n - 1 # 1
    BY <1>6, <2>1, StackIs
  <2>5. stack[n - 1].k # "main"
    BY <1>6, <2>4 DEF ScopesInv, Shape
  <2>6. Top' = stack[n - 1]
    BY <1>5, <1>6, <2>4, BelowIs DEF Top
  <2> QED BY <1>5, <2>3, <2>5, <2>6 DEF Above
<1> QED BY <1>5, <1>7 DEF ConfirmInv

LEMMA ConfirmHolds == Spec => []ConfirmInv
<1>1. Init => ConfirmInv
  BY DEF Init, ConfirmInv
<1>2. Counted /\ ScopesInv /\ ConfirmInv /\ [Next]_vars => ConfirmInv'
  <2>1. Counted => confirmed \in BOOLEAN
    BY DEF Counted
  <2> QED BY <2>1, ConfirmedStays, OnlyCleanupConfirms
<1> QED BY <1>1, <1>2, RunsHold, PTL DEF Spec

(* A thread confirms its shutdown (thread_shutdown_confirm at the end of      *)
(* unwind_cleanup) only with its unwind stack empty and every action of every *)
(* scope it will not leave any more started: the process may exit then.       *)
THEOREM ConfirmsClean == Spec => []ConfirmedIsClean
<1>1. ScopesInv /\ RunsInv /\ ConfirmInv => ConfirmedIsClean
  <2> SUFFICES ASSUME ScopesInv, RunsInv, ConfirmInv, confirmed
               PROVE  unwind_stack.fill = 0 /\ \A k \in FramesOf("action") : runs[stack[k].n] > 0
    BY DEF ConfirmedIsClean
  <2>1. PICK g : Match(g) /\ RunsMatch(stack, g, unwind_init_ref, runs)
    BY DEF RunsInv
  <2>2. unwind_stack.fill = 0
    BY DEF ConfirmInv
  <2>3. ASSUME NEW k \in FramesOf("action") PROVE runs[stack[k].n] > 0
    <3>1. k \in 1 .. Len(stack) /\ stack[k].k = "action"
      BY <2>3, StackIs DEF FramesOf, IsSequence
    <3>2. g[k - 1] \in Nat
      BY <2>1, <3>1, ActionHeight
    <3>3. unwind_stack.fill <= g[k - 1]
      BY <2>2, <3>2
    <3>4. runs[stack[k].n] = 1 \/ runs[stack[k].n] = 2
      BY <2>1, <3>1, <3>3, GivenUp
    <3> QED BY <3>4
  <2> QED BY <2>2, <2>3
<1> QED BY <1>1, RunsHold, ConfirmHolds, PTL

-----------------------------------------------------------------------------
(* The life of the thread                                                   *)

Has(st, kind) == \E k \in 1 .. Len(st) : st[k].k = kind

(* While unwind_cleanup runs an action, the library does nothing above it.    *)
Calm(st) ==
  \A c \in 1 .. Len(st) : st[c].k = "cleanup" =>
    \A k \in c + 1 .. Len(st) : st[k].k \notin {"send", "unwind", "catchall", "cleanup"}

NoPlain(st) == \A k \in 1 .. Len(st) : st[k].k = "point" => st[k].mode # "plain"

LifeInv ==
  /\ sig_stacks = "live" => unwind_init_ref > 0
  /\ Calm(stack) /\ NoPlain(stack)

LEMMA CalmKept ==
  ASSUME ScopesInv, Calm(stack), NoPlain(stack), NEW m, NEW l, Frames(m, l), m <= l,
         \A k \in m + 1 .. l : stack'[k].k = "point" => stack'[k].mode # "plain",
         \/ \A k \in m + 1 .. l : stack'[k].k \notin {"send", "unwind", "catchall", "cleanup"}
         \/ /\ \A k \in 1 .. m : stack[k].k # "cleanup"
            /\ \A k \in m + 1 .. l - 1 : stack'[k].k # "cleanup"
  PROVE  Calm(stack') /\ NoPlain(stack')
<1>1. /\ Len(stack) \in Nat /\ m \in 0 .. Len(stack) /\ l = Len(stack') /\ l \in Nat
      /\ \A k \in 1 .. m : stack'[k] = stack[k] /\ k \in 1 .. Len(stack)
  <2>1. Len(stack) \in Nat /\ m \in 0 .. Len(stack)
    BY StackIs DEF Frames
  <2>2. IsSequence(stack') /\ Len(stack') = l
    BY DEF Frames
  <2>3. l \in Nat
    BY <2>2, LengthIs
  <2> QED BY <2>1, <2>2, <2>3 DEF Frames
<1>2. NoPlain(stack')
  <2> SUFFICES ASSUME NEW k \in 1 .. l, stack'[k].k = "point" PROVE stack'[k].mode # "plain"
    BY <1>1 DEF NoPlain
  <2>1. k \in 1 .. m \/ k \in m + 1 .. l
    BY <1>1
  <2> QED BY <1>1, <2>1 DEF NoPlain
<1>3. ASSUME NEW c \in 1 .. l, stack'[c].k = "cleanup", NEW k \in c + 1 .. l
      PROVE  stack'[k].k \notin {"send", "unwind", "catchall", "cleanup"}
  <2>1. CASE c <= m
    <3>1. c \in 1 .. m /\ c \in 1 .. Len(stack) /\ stack[c].k = "cleanup"
      BY <1>1, <1>3, <2>1
    <3>2. \A j \in m + 1 .. l : stack'[j].k \notin {"send", "unwind", "catchall", "cleanup"}
      BY <3>1
    <3>3. CASE k <= m
      <4>1. k \in 1 .. m /\ k \in c + 1 .. Len(stack)
        BY <1>1, <3>3
      <4> QED BY <1>1, <3>1, <4>1 DEF Calm
    <3>4. CASE k > m
      <4>1. k \in m + 1 .. l
        BY <1>1, <3>4
      <4> QED BY <3>2, <4>1
    <3> QED BY <1>1, <3>3, <3>4
  <2>2. CASE c > m
    <3>1. c \in m + 1 .. l /\ c \in m + 1 .. l - 1
      BY <1>1, <2>2
    <3> QED BY <1>3, <3>1
  <2> QED BY <1>1, <2>1, <2>2
<1> QED BY <1>1, <1>2, <1>3 DEF Calm

(* A frame that does not change where the thread is in its life.              *)
NewFrame(f) ==
  /\ f.k \notin {"cleanup", "catchall"}
  /\ f.k = "point" => f.mode # "plain"
  /\ f.k \in {"send", "unwind"} => ~Has(stack, "cleanup")

Ordinary(m, l) ==
  /\ Frames(m, l) /\ m <= l /\ l > 0
  /\ \A k \in m + 1 .. Len(stack) :
       stack[k].k # "cleanup" /\ (stack[k].k = "catchall" => ~Has(stack, "cleanup"))
  /\ \A k \in m + 1 .. l : NewFrame(stack'[k])
  /\ l = m => stack[m].k # "catchall"

OrdinaryStep == \E m, l : Ordinary(m, l)

LEMMA OrdinaryIs ==
  ASSUME ScopesInv, Calm(stack), NoPlain(stack), OrdinaryStep
  PROVE  /\ Calm(stack') /\ NoPlain(stack')
         /\ Has(stack', "cleanup") <=> Has(stack, "cleanup")
         /\ Has(stack, "cleanup") => (Has(stack', "catchall") <=> Has(stack, "catchall"))
         /\ stack'[Len(stack')].k # "catchall"
<1>1. PICK m, l : Ordinary(m, l)
  BY DEF OrdinaryStep
<1>2. /\ Len(stack) \in Nat /\ m \in 0 .. Len(stack) /\ l = Len(stack') /\ l \in Nat /\ m <= l /\ l > 0
      /\ \A k \in 1 .. m : stack'[k] = stack[k] /\ k \in 1 .. Len(stack) /\ k \in 1 .. l
  <2>1. Len(stack) \in Nat /\ m \in 0 .. Len(stack) /\ m <= l /\ l > 0
    BY <1>1, StackIs DEF Ordinary, Frames
  <2>2. IsSequence(stack') /\ Len(stack') = l
    BY <1>1 DEF Ordinary, Frames
  <2>3. l \in Nat
    BY <2>2, LengthIs
  <2> QED BY <1>1, <2>1, <2>2, <2>3 DEF Ordinary, Frames
<1>3. \A k \in m + 1 .. l : NewFrame(stack'[k])
  BY <1>1 DEF Ordinary
<1>4. Calm(stack') /\ NoPlain(stack')
  <2>1. \A k \in m + 1 .. l : stack'[k].k = "point" => stack'[k].mode # "plain"
    BY <1>3 DEF NewFrame
  <2>2. CASE Has(stack, "cleanup")
    <3>1. \A k \in m + 1 .. l : stack'[k].k \notin {"send", "unwind", "catchall", "cleanup"}
      BY <1>3, <2>2 DEF NewFrame
    <3> QED BY <1>1, <1>2, <2>1, <3>1, CalmKept DEF Ordinary
  <2>3. CASE ~Has(stack, "cleanup")
    <3>1. \A k \in 1 .. m : stack[k].k # "cleanup"
      BY <1>2, <2>3 DEF Has
    <3>2. \A k \in m + 1 .. l - 1 : stack'[k].k # "cleanup"
      <4>1. \A k \in m + 1 .. l - 1 : k \in m + 1 .. l
        BY <1>2
      <4> QED BY <1>3, <4>1 DEF NewFrame
    <3> QED BY <1>1, <1>2, <2>1, <3>1, <3>2, CalmKept DEF Ordinary
  <2> QED BY <2>2, <2>3
<1>5. ASSUME NEW kind \in {"cleanup", "catchall"}, NEW k \in 1 .. l, stack'[k].k = kind
      PROVE  Has(stack, kind)
  <2>1. k \in 1 .. m \/ k \in m + 1 .. l
    BY <1>2
  <2>2. k \in 1 .. m
    BY <1>3, <1>5, <2>1 DEF NewFrame
  <2> QED BY <1>2, <1>5, <2>2 DEF Has
<1>6. ASSUME NEW kind \in {"cleanup", "catchall"}, Has(stack, "cleanup"), Has(stack, kind)
      PROVE  Has(stack', kind)
  <2>1. PICK k \in 1 .. Len(stack) : stack[k].k = kind
    BY <1>6 DEF Has
  <2>2. k \in 1 .. m \/ k \in m + 1 .. Len(stack)
    BY <1>2
  <2>3. k \in 1 .. m
    BY <1>1, <1>6, <2>1, <2>2 DEF Ordinary
  <2> QED BY <1>2, <2>1, <2>3 DEF Has
<1>7. stack'[l].k # "catchall"
  <2>1. CASE l = m
    <3>1. m \in 1 .. m
      BY <1>2, <2>1
    <3> QED BY <1>1, <1>2, <2>1, <3>1 DEF Ordinary
  <2>2. CASE l # m
    <3>1. l \in m + 1 .. l
      BY <1>2, <2>2
    <3> QED BY <1>3, <3>1 DEF NewFrame
  <2> QED BY <2>1, <2>2
<1>8. \A kind \in {"cleanup", "catchall"} : Has(stack', kind) => Has(stack, kind)
  BY <1>2, <1>5 DEF Has
<1>9. \A kind \in {"cleanup", "catchall"} : Has(stack, "cleanup") /\ Has(stack, kind) => Has(stack', kind)
  BY <1>6
<1> QED BY <1>2, <1>4, <1>7, <1>8, <1>9

LEMMA CallOrdinary ==
  ASSUME ScopesInv, NEW f, stack' = Append(stack, f), NewFrame(f)
  PROVE  OrdinaryStep
<1>1. PICK n, l : n = Len(stack) /\ l = n + 1
  OBVIOUS
<1>2. /\ n \in Nat /\ n <= l /\ l > 0 /\ l # n /\ (\A k : k \notin n + 1 .. n)
      /\ \A k \in n + 1 .. l : k = l
  BY <1>1, StackIs
<1>3. Frames(n, l) /\ stack'[l] = f
  BY <1>1, CallFrames DEF Frames1
<1>4. Ordinary(n, l)
  BY <1>1, <1>2, <1>3 DEF Ordinary
<1> QED BY <1>4 DEF OrdinaryStep

(* The top frame goes or is changed.                                          *)
LEMMA TopOrdinary ==
  ASSUME ScopesInv, Top.k \notin {"cleanup", "catchall"}, NEW f, NEW c,
         \/ Len(stack) > 1 /\ stack' = Below /\ stack[Len(stack) - 1].k # "catchall"
         \/ Frames1(Len(stack) - 1, f) /\ NewFrame(f)
         \/ Frames2(Len(stack) - 1, f, c) /\ NewFrame(f) /\ NewFrame(c)
  PROVE  OrdinaryStep
<1>1. PICK n, m, a, b : n = Len(stack) /\ m = n - 1 /\ a = m + 1 /\ b = m + 2
  OBVIOUS
<1>2. /\ n \in Nat \ {0} /\ m \in Nat /\ m <= m /\ m <= a /\ m <= b /\ a # m /\ b # m
      /\ a > 0 /\ b > 0
      /\ (\A k \in m + 1 .. n : k = n) /\ (\A k : k \notin m + 1 .. m)
      /\ (\A k \in m + 1 .. a : k = a) /\ (\A k \in m + 1 .. b : k = a \/ k = b)
  BY <1>1, StackIs
<1>3. \A k \in m + 1 .. Len(stack) : stack[k].k \notin {"cleanup", "catchall"}
  BY <1>1, <1>2 DEF Top
<1>4. CASE Len(stack) > 1 /\ stack' = Below /\ stack[Len(stack) - 1].k # "catchall"
  <2>1. Frames(m, m) /\ m > 0
    BY <1>1, <1>2, <1>4, ReturnFrames
  <2>2. Ordinary(m, m)
    BY <1>1, <1>2, <1>3, <1>4, <2>1 DEF Ordinary
  <2> QED BY <2>2 DEF OrdinaryStep
<1>5. CASE Frames1(Len(stack) - 1, f) /\ NewFrame(f)
  <2>1. Frames(m, a) /\ stack'[a] = f
    BY <1>1, <1>5 DEF Frames1
  <2>2. Ordinary(m, a)
    BY <1>2, <1>3, <1>5, <2>1 DEF Ordinary
  <2> QED BY <2>2 DEF OrdinaryStep
<1>6. CASE Frames2(Len(stack) - 1, f, c) /\ NewFrame(f) /\ NewFrame(c)
  <2>1. Frames(m, b) /\ stack'[a] = f /\ stack'[b] = c
    BY <1>1, <1>6 DEF Frames2
  <2>2. Ordinary(m, b)
    BY <1>2, <1>3, <1>6, <2>1 DEF Ordinary
  <2> QED BY <2>2 DEF OrdinaryStep
<1> QED BY <1>4, <1>5, <1>6

LEMMA SameOrdinary ==
  ASSUME ScopesInv, UNCHANGED stack, Top.k # "catchall"
  PROVE  OrdinaryStep
<1>1. PICK n : n = Len(stack) /\ n \in Nat \ {0} /\ IsSequence(stack)
  BY StackIs
<1>2. n <= n /\ n > 0 /\ (\A k : k \notin n + 1 .. n) /\ n \in 0 .. n
  BY <1>1
<1>3. Ordinary(n, n)
  BY <1>1, <1>2 DEF Ordinary, Frames, Top
<1> QED BY <1>3 DEF OrdinaryStep

LEMMA NoCleanupWhileLive ==
  ASSUME ScopesInv, sig_stacks = "live"
  PROVE  ~Has(stack, "cleanup")
BY DEF ScopesInv, Has

(* Only a send and a cleanup are called by the catch-all handler.             *)
LEMMA NotOverCatchall ==
  ASSUME ScopesInv, Top.k \notin {"main", "send", "cleanup"}
  PROVE  Len(stack) > 1 /\ stack[Len(stack) - 1].k # "catchall"
<1>1. Len(stack) > 1
  BY NotMain
<1>2. Len(stack) - 1 \in 1 .. Len(stack) - 1 /\ Len(stack) - 1 + 1 = Len(stack)
  BY <1>1, StackIs
<1>3. Above(stack[Len(stack) - 1], Top)
  BY <1>2 DEF ScopesInv, Shape, Top
<1> QED BY <1>1, <1>3 DEF Above

LEMMA LeaveOrdinary ==
  ASSUME ScopesInv, LeaveScope \/ LeaveExplicitScope \/ LeavePoint \/ ActionReturns
  PROVE  OrdinaryStep
<1>1. Top.k \in {"action", "handler", "point", "action_body"}
  BY DEF LeaveScope, HasEntry, LeaveExplicitScope, Explicit, LeavePoint, ActionReturns
<1>2. Len(stack) > 1 /\ stack[Len(stack) - 1].k # "catchall"
  BY <1>1, NotOverCatchall
<1>3. CASE stack' = Below
  BY <1>1, <1>2, <1>3, TopOrdinary
<1>4. ASSUME NEW e, NEW base, CallAction(e, Below, base) PROVE OrdinaryStep
  <2>1. PICK c : c = [k |-> "action_body", n |-> e.arg, base |-> base]
    OBVIOUS
  <2>2. stack' = Below \/ stack' = Append(Below, c)
    BY <1>4, <2>1 DEF CallAction
  <2>3. NewFrame(c)
    BY <2>1 DEF NewFrame
  <2>4. CASE stack' = Append(Below, c)
    <3>1. Frames1(Len(stack) - 1, c)
      BY <1>2, <2>4, TailCallFrames
    <3> QED BY <1>1, <2>3, <3>1, TopOrdinary
  <2> QED BY <1>3, <2>2, <2>4
<1> QED BY <1>3, <1>4 DEF LeaveScope, LeaveExplicitScope, LeavePoint, ActionReturns, Return

LEMMA ReprovideOrdinary ==
  ASSUME ScopesInv, ReprovideRestart
  PROVE  OrdinaryStep
<1>1. PICK f : f = [Top EXCEPT !.returned = FALSE, !.id = NextId(sig_restart_stack, 0)]
  OBVIOUS
<1>2. /\ Top.k = "point" /\ Top.mode = "autopop"
      /\ stack' = [stack EXCEPT ![Len(stack)].returned = FALSE,
                                ![Len(stack)].id = NextId(sig_restart_stack, 0)]
  BY DEF ReprovideRestart
<1>3. Len(stack) \in DOMAIN stack
  BY StackIs DEF IsSequence
<1>4. stack' = WithTop(f)
  BY <1>1, <1>2, <1>3 DEF WithTop, Top
<1>5. Frames1(Len(stack) - 1, f)
  BY <1>4, RewriteFrames
<1>6. f.k = "point" /\ f.mode = "autopop"
  BY <1>1, <1>2, TopFields DEF HasFields
<1>7. NewFrame(f)
  BY <1>6 DEF NewFrame
<1> QED BY <1>2, <1>5, <1>7, TopOrdinary

LEMMA HandlerReturnsOrdinary ==
  ASSUME ScopesInv, NEW rst, HandlerReturns(rst)
  PROVE  OrdinaryStep
<1>1. PICK n, m : n = Len(stack) /\ m = n - 2
  OBVIOUS
<1>2. PICK f, c :
        /\ m \in Nat /\ stack[n - 1].k = "send" /\ f.k = "send" /\ c.k = "unwind"
        /\ Frames1(m, f) \/ Frames2(m, f, c)
  BY <1>1, HandlerReturnsFrames
<1>3. stack[n].k = "handler_body" /\ sig_stacks = "live"
  BY <1>1 DEF HandlerReturns, Top
<1>4. NewFrame(f) /\ NewFrame(c)
  BY <1>2, <1>3, NoCleanupWhileLive DEF NewFrame
<1>5. n \in Nat /\ \A k \in m + 1 .. n : k = n \/ k = n - 1
  BY <1>1, StackIs
<1>6. \A k \in m + 1 .. Len(stack) : stack[k].k \notin {"cleanup", "catchall"}
  BY <1>1, <1>2, <1>3, <1>5
<1>7. PICK a, b : a = m + 1 /\ b = m + 2
  OBVIOUS
<1>8. /\ m <= a /\ m <= b /\ a > 0 /\ b > 0 /\ a # m /\ b # m
      /\ (\A k \in m + 1 .. a : k = a) /\ (\A k \in m + 1 .. b : k = a \/ k = b)
  BY <1>2, <1>7
<1>9. CASE Frames1(m, f)
  <2>1. Frames(m, a) /\ stack'[a] = f
    BY <1>7, <1>9 DEF Frames1
  <2>2. Ordinary(m, a)
    BY <1>4, <1>6, <1>8, <2>1 DEF Ordinary
  <2> QED BY <2>2 DEF OrdinaryStep
<1>10. CASE Frames2(m, f, c)
  <2>1. Frames(m, b) /\ stack'[a] = f /\ stack'[b] = c
    BY <1>7, <1>10 DEF Frames2
  <2>2. Ordinary(m, b)
    BY <1>4, <1>6, <1>8, <2>1 DEF Ordinary
  <2> QED BY <2>2 DEF OrdinaryStep
<1> QED BY <1>2, <1>9, <1>10

LEMMA UserOrdinary ==
  ASSUME "plain" \notin Modes, ScopesInv, NoPlain(stack), UserStep,
         ~ThreadCleansUp, ~ThreadUnwindCleanup
  PROVE  OrdinaryStep /\ Top.k \notin {"cleanup", "catchall"}
<1>0. UserRuns
  BY DEF UserStep, UserCalls, UnwindAction, AutopopHandler,
    AutopopNullHandler, ProvideRestart, ReturnPoint, ReprovideRestart, LeaveScope,
    LeaveExplicitScope, LeavePoint, ActionReturns, HandlerReturns, PersistentHandler,
    RmPersistentHandler, UnwindInit, UnwindRelease, Unwind, Send, AssertHandler
<1> SUFFICES OrdinaryStep
  BY <1>0 DEF UserRuns
<1>1. ASSUME NEW id, Call([k |-> "handler", id |-> id]) PROVE OrdinaryStep
  <2>1. PICK f : f = [k |-> "handler", id |-> id]
    OBVIOUS
  <2>2. stack' = Append(stack, f) /\ NewFrame(f)
    BY <1>1, <2>1 DEF Call, NewFrame
  <2> QED BY <2>2, CallOrdinary
<1>2. ASSUME NEW sig, AutopopHandler(sig) PROVE OrdinaryStep
  BY <1>1, <1>2 DEF AutopopHandler
<1>3. CASE AutopopNullHandler
  BY <1>1, <1>3 DEF AutopopNullHandler
<1>4. ASSUME NEW mode \in Modes \ {"plain"}, NEW sig, NEW rst, ProvideRestart(mode, sig, rst)
      PROVE  OrdinaryStep
  <2>1. PICK f : f = [k |-> "point", mode |-> mode, sig |-> sig, rst |-> rst, returned |-> FALSE,
                      to |-> unwind_stack.fill, id |-> NextId(sig_restart_stack, 0)]
    OBVIOUS
  <2>2. stack' = Append(stack, f) /\ NewFrame(f)
    BY <1>4, <2>1 DEF ProvideRestart, Call, NewFrame
  <2> QED BY <2>2, CallOrdinary
<1>5. ASSUME NEW sig, NEW data, sig_stacks = "live", Call(SendFrame(sig, data)) PROVE OrdinaryStep
  <2>1. PICK f : f = SendFrame(sig, data)
    OBVIOUS
  <2>2. stack' = Append(stack, f) /\ NewFrame(f)
    BY <1>5, <2>1, NoCleanupWhileLive DEF SendFrame, Call, NewFrame
  <2> QED BY <2>2, CallOrdinary
<1>6. ASSUME NEW data, Send(SIGNAL_FAIL, data) PROVE OrdinaryStep
  BY <1>5, <1>6 DEF Send
<1>7. ASSUME NEW sig, AssertHandler(sig) PROVE OrdinaryStep
  BY <1>5, <1>7 DEF AssertHandler
<1>8. ASSUME NEW n, NEW always, UnwindAction(n, always) PROVE OrdinaryStep
  <2>1. PICK f : f = [k |-> "action", n |-> n, always |-> always]
    OBVIOUS
  <2>2. stack' = Append(stack, f) /\ NewFrame(f)
    BY <1>8, <2>1 DEF UnwindAction, Call, NewFrame
  <2> QED BY <2>2, CallOrdinary
<1>9. ASSUME NEW p \in DOMAIN stack, Unwind(p) PROVE FALSE
  <2>1. p \in 1 .. Len(stack)
    BY StackIs DEF IsSequence
  <2> QED BY <1>9, <2>1 DEF Unwind, NoPlain
<1>10. CASE UNCHANGED stack /\ UserRuns
  BY <1>10, SameOrdinary DEF UserRuns
<1>11. CASE \E sig : PersistentHandler(sig)
  BY <1>10, <1>11 DEF PersistentHandler
<1>12. CASE \E id : RmPersistentHandler(id)
  BY <1>10, <1>12 DEF RmPersistentHandler
<1>13. CASE UnwindInit \/ UnwindRelease
  BY <1>10, <1>13 DEF UnwindInit, UnwindRelease
<1>14. OrdinaryStep
  BY <1>2, <1>3, <1>4, <1>6, <1>7, <1>8, <1>9, <1>11, <1>12, <1>13, LeaveOrdinary, ReprovideOrdinary,
     HandlerReturnsOrdinary DEF UserStep
<1> QED BY <1>14

-----------------------------------------------------------------------------
(* The library's loops                                                      *)

LEMMA AloneOnTop ==
  ASSUME ScopesInv, Calm(stack), Top.k \in {"send", "unwind", "catchall", "cleanup"}
  PROVE  /\ \A c \in 1 .. Len(stack) - 1 : stack[c].k # "cleanup"
         /\ Top.k # "cleanup" => ~Has(stack, "cleanup")
<1>1. PICK n : n = Len(stack) /\ n \in Nat \ {0}
  BY StackIs
<1>2. ASSUME NEW c \in 1 .. n - 1 PROVE stack[c].k # "cleanup"
  <2>1. c \in 1 .. n /\ n \in c + 1 .. n
    BY <1>1, <1>2
  <2> QED BY <1>1, <2>1 DEF Calm, Top
<1>3. \A c \in 1 .. n : c = n \/ c \in 1 .. n - 1
  BY <1>1
<1> QED BY <1>1, <1>2, <1>3 DEF Has, Top

LEMMA UnwindNextOrdinary ==
  ASSUME ScopesInv, Calm(stack), UnwindNext
  PROVE  OrdinaryStep
<1>1. PICK f, c : /\ f.k = "unwind" /\ c.k = "action_body"
                  /\ Frames1(Len(stack) - 1, f) \/ Frames2(Len(stack) - 1, f, c)
  BY UnwindNextFrames
<1>2. Top.k = "unwind"
  BY DEF UnwindNext
<1>3. NewFrame(f) /\ NewFrame(c)
  BY <1>1, <1>2, AloneOnTop DEF NewFrame
<1> QED BY <1>1, <1>2, <1>3, TopOrdinary

LEMMA UnwindDoneOrdinary ==
  ASSUME ScopesInv, Calm(stack), NoPlain(stack), UnwindDone
  PROVE  OrdinaryStep
<1>1. PICK p, m, f : /\ p = Top.p /\ m = p - 1
                     /\ p \in 1 .. Len(stack) - 1 /\ stack[p].k = "point" /\ f.k = "point"
                     /\ f = [stack[p] EXCEPT !.returned = TRUE]
                     /\ Frames1(m, f)
  BY UnwindDoneFrames
<1>2. PICK n : n = Len(stack) /\ n \in Nat \ {0}
  BY StackIs
<1>3. Top.k = "unwind"
  BY DEF UnwindDone
<1>4. /\ m \in Nat /\ m <= p /\ p > 0 /\ p # m /\ p \in 1 .. n /\ m + 1 = p
      /\ \A k \in m + 1 .. n : k \in 1 .. n
      /\ \A k \in m + 1 .. p : k = p
  BY <1>1, <1>2
<1>5. f.mode = stack[p].mode
  <2>1. HasFields(stack[p])
    BY <1>2, <1>4 DEF ScopesInv, Shape
  <2> QED BY <1>1, <2>1 DEF HasFields
<1>6. NewFrame(f)
  BY <1>1, <1>2, <1>4, <1>5 DEF NewFrame, NoPlain
<1>7. ~Has(stack, "cleanup")
  BY <1>3, AloneOnTop
<1>8. \A k \in m + 1 .. Len(stack) : stack[k].k # "cleanup"
  BY <1>2, <1>4, <1>7 DEF Has
<1>9. Frames(m, p) /\ stack'[p] = f
  BY <1>1, <1>4 DEF Frames1
<1>10. Ordinary(m, p)
  BY <1>4, <1>6, <1>7, <1>8, <1>9 DEF Ordinary
<1> QED BY <1>10 DEF OrdinaryStep

LEMMA CleanupNextOrdinary ==
  ASSUME ScopesInv, CleanupNext
  PROVE  OrdinaryStep
<1>1. PICK e, base : CallAction(e, stack, base)
  BY DEF CleanupNext
<1>2. PICK c : c = [k |-> "action_body", n |-> e.arg, base |-> base]
  OBVIOUS
<1>3. UNCHANGED stack \/ stack' = Append(stack, c)
  BY <1>1, <1>2 DEF CallAction
<1>4. NewFrame(c)
  BY <1>2 DEF NewFrame
<1>5. Top.k = "cleanup"
  BY DEF CleanupNext
<1> QED BY <1>3, <1>4, <1>5, CallOrdinary, SameOrdinary

LEMMA ReportFailsOrdinary ==
  ASSUME ScopesInv, Calm(stack), ReportFails
  PROVE  OrdinaryStep
<1>1. PICK f : f = SendFrame(SIGNAL_FAIL, "none")
  OBVIOUS
<1>2. Top.k = "catchall"
  BY DEF ReportFails, AtStage
<1>3. stack' = Append(stack, f) /\ NewFrame(f)
  BY <1>1, <1>2, AloneOnTop DEF ReportFails, Call, NewFrame, SendFrame
<1> QED BY <1>3, CallOrdinary

-----------------------------------------------------------------------------
(* The steps that change where the thread is in its life                    *)

(* The top frame goes or makes room for others.                               *)
LEMMA LowerCalm ==
  ASSUME ScopesInv, Calm(stack), NoPlain(stack), NEW m, NEW l, Frames(m, l), m <= l,
         \A k \in 1 .. m : stack[k].k # "cleanup",
         \A k \in m + 1 .. l : stack'[k].k # "point",
         \A k \in m + 1 .. l - 1 : stack'[k].k # "cleanup"
  PROVE  Calm(stack') /\ NoPlain(stack')
BY CalmKept

LEMMA ReturnCalm ==
  ASSUME ScopesInv, Calm(stack), NoPlain(stack), stack' = Below,
         Top.k \in {"send", "unwind", "catchall", "cleanup"}
  PROVE  Calm(stack') /\ NoPlain(stack')
<1>1. Len(stack) > 1
  BY NotMain
<1>2. PICK m : m = Len(stack) - 1 /\ m \in Nat
  BY StackIs
<1>3. m <= m /\ (\A k : k \notin m + 1 .. m) /\ (\A k : k \notin m + 1 .. m - 1)
  BY <1>2
<1>4. Frames(m, m)
  BY <1>1, <1>2, ReturnFrames
<1>5. \A k \in 1 .. m : stack[k].k # "cleanup"
  BY <1>2, AloneOnTop
<1> QED BY <1>3, <1>4, <1>5, LowerCalm

LEMMA PutCalm ==
  ASSUME ScopesInv, Calm(stack), NoPlain(stack), NEW f, f.k # "point", Frames1(Len(stack) - 1, f),
         Top.k \in {"send", "unwind", "catchall", "cleanup"}
  PROVE  Calm(stack') /\ NoPlain(stack')
<1>1. PICK m, l : m = Len(stack) - 1 /\ l = m + 1 /\ m \in Nat
  BY StackIs
<1>2. m <= l /\ (\A k \in m + 1 .. l : k = l) /\ (\A k : k \notin m + 1 .. l - 1)
  BY <1>1
<1>3. Frames(m, l) /\ stack'[l] = f
  BY <1>1 DEF Frames1
<1>4. \A k \in 1 .. m : stack[k].k # "cleanup"
  BY <1>1, AloneOnTop
<1> QED BY <1>2, <1>3, <1>4, LowerCalm

LEMMA PutTwoCalm ==
  ASSUME ScopesInv, Calm(stack), NoPlain(stack), NEW f, NEW c, Frames2(Len(stack) - 1, f, c),
         f.k # "point", f.k # "cleanup", c.k # "point",
         Top.k \in {"send", "unwind", "catchall", "cleanup"}
  PROVE  Calm(stack') /\ NoPlain(stack')
<1>1. PICK m, a, l : m = Len(stack) - 1 /\ a = m + 1 /\ l = m + 2 /\ m \in Nat
  BY StackIs
<1>2. m <= l /\ (\A k \in m + 1 .. l : k = a \/ k = l) /\ (\A k \in m + 1 .. l - 1 : k = a)
  BY <1>1
<1>3. Frames(m, l) /\ stack'[a] = f /\ stack'[l] = c
  BY <1>1 DEF Frames2
<1>4. \A k \in 1 .. m : stack[k].k # "cleanup"
  BY <1>1, AloneOnTop
<1> QED BY <1>2, <1>3, <1>4, LowerCalm

(* _sig_send ends or calls a handler.                                         *)
SendGoesOn ==
  \/ stack' = Below
  \/ \E j, f : /\ f.k = "send"
               /\ Frames2(Len(stack) - 1, f, CalledFrame(sig_handler_stack.mem[j]))

LEMMA SendNextGoesOn ==
  ASSUME ScopesInv, SendNext
  PROVE  SendGoesOn
<1>1. Top.k = "send"
  BY DEF SendNext
<1>2. PICK j, f, c : /\ f = [Top EXCEPT !.i = j - 1] /\ c = CalledFrame(sig_handler_stack.mem[j])
                     /\ \/ stack' = Below
                        \/ stack' = Append([stack EXCEPT ![Len(stack)].i = j - 1], c)
  BY DEF SendNext
<1>3. CASE stack' = Append([stack EXCEPT ![Len(stack)].i = j - 1], c)
  <2>1. [stack EXCEPT ![Len(stack)].i = j - 1] = WithTop(f)
    BY <1>2, FieldOfTop
  <2>2. Frames2(Len(stack) - 1, f, c)
    BY <1>3, <2>1, RewriteCallFrames
  <2>3. f.k = "send"
    BY <1>1, <1>2, TopFields DEF HasFields
  <2> QED BY <1>2, <2>2, <2>3 DEF SendGoesOn
<1> QED BY <1>2, <1>3 DEF SendGoesOn

LEMMA SendNextCalm ==
  ASSUME ScopesInv, Calm(stack), NoPlain(stack), SendNext
  PROVE  Calm(stack') /\ NoPlain(stack')
<1>1. Top.k = "send" /\ SendGoesOn
  BY SendNextGoesOn DEF SendNext
<1>2. CASE stack' = Below
  BY <1>1, <1>2, ReturnCalm
<1>3. ASSUME NEW f, f.k = "send", NEW e, Frames2(Len(stack) - 1, f, CalledFrame(e))
      PROVE  Calm(stack') /\ NoPlain(stack')
  <2>1. PICK c : c = CalledFrame(e)
    OBVIOUS
  <2>2. c.k # "point" /\ Frames2(Len(stack) - 1, f, c)
    BY <1>3, <2>1 DEF CalledFrame
  <2> QED BY <1>1, <1>3, <2>2, PutTwoCalm
<1> QED BY <1>1, <1>2, <1>3 DEF SendGoesOn

(* The catch-all handler takes the next step.                                 *)
LEMMA StageFrames ==
  ASSUME ScopesInv, NEW s, stack' = GoTo(s), Top.k = "catchall"
  PROVE  \E f : f.k = "catchall" /\ f.stage = s /\ Frames1(Len(stack) - 1, f)
<1>1. PICK f : f = [Top EXCEPT !.stage = s]
  OBVIOUS
<1>2. stack' = WithTop(f)
  BY <1>1, FieldOfTop DEF GoTo
<1>3. f.k = "catchall" /\ f.stage = s
  BY <1>1, TopFields DEF HasFields
<1> QED BY <1>2, <1>3, RewriteFrames

LEMMA CatchallCleansUpFrames ==
  ASSUME ScopesInv, CatchallCleansUp
  PROVE  \E f, c : /\ f.k = "catchall" /\ f.stage = "cleaned" /\ c.k = "cleanup"
                   /\ Frames2(Len(stack) - 1, f, c)
<1>1. PICK f, c : f = [Top EXCEPT !.stage = "cleaned"] /\ c = [k |-> "cleanup"]
  OBVIOUS
<1>2. Top.k = "catchall" /\ stack' = Append([stack EXCEPT ![Len(stack)].stage = "cleaned"], c)
  BY <1>1 DEF CatchallCleansUp, AtStage, SigCleanup, GoTo
<1>3. [stack EXCEPT ![Len(stack)].stage = "cleaned"] = WithTop(f)
  BY <1>1, FieldOfTop
<1>4. Frames2(Len(stack) - 1, f, c)
  BY <1>2, <1>3, RewriteCallFrames
<1>5. f.k = "catchall" /\ f.stage = "cleaned" /\ c.k = "cleanup"
  BY <1>1, <1>2, TopFields DEF HasFields
<1> QED BY <1>4, <1>5

LEMMA LastThreadCleanup ==
  ASSUME ScopesInv, ThreadCleansUp \/ ThreadUnwindCleanup
  PROVE  \E c : c.k = "cleanup" /\ Frames1(1, c) /\ Len(stack) = 1 /\ Top.k = "main"
<1>1. PICK c : c = [k |-> "cleanup"]
  OBVIOUS
<1>2. Len(stack) = 1 /\ stack' = Append(stack, c)
  BY <1>1 DEF ThreadCleansUp, ThreadUnwindCleanup, SigCleanup
<1>3. Top.k = "main"
  <2>1. 1 \in 1 .. Len(stack)
    BY <1>2
  <2> QED BY <1>2, <2>1 DEF ScopesInv, Shape, Top
<1> QED BY <1>1, <1>2, <1>3, CallFrames

LEMMA ThreadCleanupCalm ==
  ASSUME ScopesInv, Calm(stack), NoPlain(stack), ThreadCleansUp \/ ThreadUnwindCleanup
  PROVE  Calm(stack') /\ NoPlain(stack')
<1>1. PICK c : c.k = "cleanup" /\ Frames1(1, c) /\ Len(stack) = 1 /\ Top.k = "main"
  BY LastThreadCleanup
<1>2. PICK m, l : m = 1 /\ l = 2
  OBVIOUS
<1>3. m <= l /\ (\A k \in m + 1 .. l : k = l) /\ (\A k : k \notin m + 1 .. l - 1) /\ (\A k \in 1 .. m : k = 1)
  BY <1>2
<1>4. Frames(m, l) /\ stack'[l] = c
  BY <1>1, <1>2 DEF Frames1
<1>5. \A k \in 1 .. m : stack[k].k # "cleanup"
  BY <1>1, <1>3 DEF Top
<1> QED BY <1>1, <1>3, <1>4, <1>5, LowerCalm

LEMMA LibraryCalm ==
  ASSUME ScopesInv, Calm(stack), NoPlain(stack), LibraryStep
  PROVE  Calm(stack') /\ NoPlain(stack')
<1>1. CASE OrdinaryStep
  BY <1>1, OrdinaryIs
<1>2. CASE UnwindNext \/ UnwindDone \/ CleanupNext \/ ReportFails
  BY <1>1, <1>2, UnwindNextOrdinary, UnwindDoneOrdinary, CleanupNextOrdinary, ReportFailsOrdinary
<1>3. CASE ReportAndRaise \/ UnwindAll
  <2>1. PICK s \in {"raised", "asked"} : stack' = GoTo(s)
    BY <1>3 DEF ReportAndRaise, UnwindAll
  <2>2. Top.k = "catchall"
    BY <1>3 DEF ReportAndRaise, UnwindAll, AtStage
  <2>3. PICK f : f.k = "catchall" /\ Frames1(Len(stack) - 1, f)
    BY <2>1, <2>2, StageFrames
  <2> QED BY <2>2, <2>3, PutCalm
<1>4. CASE CatchallCleansUp
  <2>1. PICK f, c : f.k = "catchall" /\ c.k = "cleanup" /\ Frames2(Len(stack) - 1, f, c)
    BY <1>4, CatchallCleansUpFrames
  <2>2. Top.k = "catchall"
    BY <1>4 DEF CatchallCleansUp, AtStage
  <2> QED BY <2>1, <2>2, PutTwoCalm
<1>5. CASE CleanupDone
  BY <1>5, ReturnCalm DEF CleanupDone, Return
<1>6. CASE ExitThread \/ ReportOverflows \/ UseAfterFree
  BY <1>6 DEF ReportOverflows, ExitThread, UseAfterFree, UndefinedBehaviour
<1>7. CASE SendNext
  BY <1>7, SendNextCalm
<1> QED BY <1>2, <1>3, <1>4, <1>5, <1>6, <1>7 DEF LibraryStep

LEMMA LiveIsReferenced ==
  ASSUME unwind_init_ref \in Nat, sig_stacks = "live" => unwind_init_ref > 0, [Next]_vars,
         sig_stacks' = "live"
  PROVE  unwind_init_ref' > 0
<1>1. CASE UNCHANGED <<sig_stacks, unwind_init_ref>>
  BY <1>1
<1>2. CASE UnwindInit \/ UnwindRelease
  BY <1>2 DEF UnwindInit, UnwindRelease, sigVars
<1>3. CASE ThreadCleansUp \/ ThreadUnwindCleanup \/ CatchallCleansUp
  BY <1>3 DEF ThreadCleansUp, ThreadUnwindCleanup, CatchallCleansUp, SigCleanup, sigVars
<1>4. ASSUME NEW e, NEW fs, NEW base, CallAction(e, fs, base) PROVE UNCHANGED sig_stacks
  BY <1>4 DEF CallAction, sigVars
<1>5. CASE UserStep
  <2> SUFFICES ASSUME ~UnwindInit, ~UnwindRelease, ~ThreadCleansUp, ~ThreadUnwindCleanup
               PROVE  UNCHANGED <<sig_stacks, unwind_init_ref>>
    BY <1>1, <1>2, <1>3
  <2>1. CASE LeaveScope
    BY <2>1, <1>4 DEF LeaveScope, exitVars
  <2> QED BY <1>5, <2>1 DEF UserStep, sigVars, exitVars, UnwindAction, AutopopHandler,
      AutopopNullHandler, ProvideRestart, ReturnPoint, ReprovideRestart,
      LeaveExplicitScope, LeavePoint, ActionReturns, HandlerReturns, PersistentHandler,
      RmPersistentHandler, Unwind, Send, AssertHandler
<1>6. CASE LibraryStep
  <2> SUFFICES ASSUME ~CatchallCleansUp PROVE UNCHANGED <<sig_stacks, unwind_init_ref>>
    BY <1>1, <1>3
  <2>1. CASE UnwindNext \/ CleanupNext
    BY <2>1, <1>4 DEF UnwindNext, CleanupNext, exitVars
  <2> QED BY <1>6, <2>1 DEF LibraryStep, sigVars, exitVars, UnwindDone, SendNext, ReportFails,
      ReportAndRaise, UnwindAll, ReportOverflows, ExitThread, CleanupDone, UseAfterFree, UndefinedBehaviour
<1> QED BY <1>1, <1>5, <1>6 DEF Next, Ended, vars

LEMMA LifeInit == Init => LifeInv
<1> SUFFICES ASSUME Init PROVE LifeInv
  OBVIOUS
<1>1. Len(stack) = 1 /\ stack[1].k = "main"
  BY DEF Init
<1>2. \A k \in 1 .. Len(stack) : stack[k].k = "main"
  BY <1>1
<1> QED BY <1>2 DEF Init, LifeInv, Calm, NoPlain

LEMMA LifeNext ==
  ASSUME "plain" \notin Modes, ScopesInv, LifeInv, [Next]_vars
  PROVE  LifeInv'
<1>1. Calm(stack) /\ NoPlain(stack)
  BY DEF LifeInv
<1>2. sig_stacks' = "live" => unwind_init_ref' > 0
  BY LiveIsReferenced DEF LifeInv, ScopesInv
<1>3. CASE UNCHANGED stack
  BY <1>1, <1>2, <1>3 DEF LifeInv
<1>4. CASE LibraryStep
  BY <1>1, <1>2, <1>4, LibraryCalm DEF LifeInv
<1>5. CASE UserStep
  <2>1. OrdinaryStep \/ ThreadCleansUp \/ ThreadUnwindCleanup
    BY <1>1, <1>5, UserOrdinary
  <2>2. Calm(stack') /\ NoPlain(stack')
    BY <1>1, <2>1, OrdinaryIs, ThreadCleanupCalm
  <2> QED BY <1>2, <2>2 DEF LifeInv
<1> QED BY <1>3, <1>4, <1>5 DEF Next, Ended, vars

-----------------------------------------------------------------------------
(* The thread's life                                                        *)

At(st, stat, conf) ==
  LET cleansUp == {k \in DOMAIN st : st[k].k = "cleanup"} # {}
      ofStage  == [report |-> "unhandled", raised |-> "raised", asked |-> "asked",
                   cleaned |-> IF conf THEN "leaving" ELSE "abandoned"]
  IN  CASE stat = "finished" -> "leaving"
        [] stat = "thread_exited" -> "gone"
        [] stat = "running" /\ cleansUp ->
             IF {k \in DOMAIN st : st[k].k = "catchall"} # {} THEN "dying" ELSE "cleaning"
        [] stat = "running" /\ ~cleansUp /\ st[Len(st)].k = "catchall" -> ofStage[st[Len(st)].stage]
        [] OTHER -> "running"

Todo(us) == Cardinality({i \in 1 .. us.fill : us.mem[i].h = "user"})

LifeAt(a, r, t) == [at |-> a, refs |-> r, todo |-> t]

LEMMA LifeIs ==
  /\ Life = LifeAt(At(stack, status, confirmed), unwind_init_ref, Todo(unwind_stack))
  /\ Life' = LifeAt(At(stack', status', confirmed'), unwind_init_ref', Todo(unwind_stack'))
BY DEF Life, LifeAt, At, Todo, Top, FramesOf

(* Where a thread is that has not ended.                                      *)
LEMMA AtIs ==
  ASSUME NEW st, IsSequence(st), NEW conf
  PROVE  /\ Has(st, "cleanup") =>
              At(st, "running", conf) = IF Has(st, "catchall") THEN "dying" ELSE "cleaning"
         /\ ~Has(st, "cleanup") /\ st[Len(st)].k # "catchall" => At(st, "running", conf) = "running"
<1>1. DOMAIN st = 1 .. Len(st)
  BY DEF IsSequence
<1>2. \A kind : {k \in DOMAIN st : st[k].k = kind} # {} <=> Has(st, kind)
  BY <1>1 DEF Has
<1> QED BY <1>2 DEF At

(* ... and where the catch-all handler is.                                    *)
LEMMA AtStageIs ==
  ASSUME NEW st, IsSequence(st), NEW conf, ~Has(st, "cleanup"), st[Len(st)].k = "catchall"
  PROVE  /\ st[Len(st)].stage = "report" => At(st, "running", conf) = "unhandled"
         /\ st[Len(st)].stage = "raised" => At(st, "running", conf) = "raised"
         /\ st[Len(st)].stage = "asked"  => At(st, "running", conf) = "asked"
         /\ st[Len(st)].stage = "cleaned" =>
              At(st, "running", conf) = IF conf THEN "leaving" ELSE "abandoned"
<1>1. DOMAIN st = 1 .. Len(st)
  BY DEF IsSequence
<1>2. {k \in DOMAIN st : st[k].k = "cleanup"} = {}
  BY <1>1 DEF Has
<1> QED BY <1>2 DEF At

LEMMA AtEnd ==
  ASSUME NEW st, NEW conf
  PROVE  At(st, "finished", conf) = "leaving" /\ At(st, "thread_exited", conf) = "gone"
BY DEF At

-----------------------------------------------------------------------------
(* How lives relate                                                         *)

LEMMA WorkSteps ==
  ASSUME NEW a, NEW r, NEW t, NEW u, a = "running" \/ (a \in {"cleaning", "dying"} /\ r = 0)
  PROVE  LifeStep(LifeAt(a, r, t), LifeAt(a, r, u))
BY DEF LifeStep, Works, LifeAt

LEMMA CountSteps ==
  ASSUME NEW r \in Nat, NEW s \in {r + 1, r - 1}, NEW t, r > 0, s > 0
  PROVE  LifeStep(LifeAt("running", r, t), LifeAt("running", s, t))
<1>1. PICK l, m : l = LifeAt("running", r, t) /\ m = LifeAt("running", s, t)
  OBVIOUS
<1>2. l.at = "running" /\ l.refs = r /\ m.refs = s /\ m = [l EXCEPT !.refs = s]
  BY <1>1 DEF LifeAt
<1>3. CountsReferences(l, m)
  BY <1>2 DEF CountsReferences
<1> QED BY <1>1, <1>3 DEF LifeStep

LEMMA PlaceSteps ==
  ASSUME NEW r, NEW t
  PROVE  /\ LifeStep(LifeAt("running", r, t), LifeAt("unhandled", r, t))
         /\ LifeStep(LifeAt("unhandled", r, t), LifeAt("running", r, t))
         /\ LifeStep(LifeAt("unhandled", r, t), LifeAt("raised", r, t))
         /\ LifeStep(LifeAt("raised", r, t), LifeAt("asked", r, t))
         /\ \A a \in {"leaving", "abandoned"} : LifeStep(LifeAt(a, r, t), LifeAt("gone", r, t))
<1>1. LifeStep(LifeAt("running", r, t), LifeAt("unhandled", r, t))
  BY DEF LifeStep, LifeAt, IsUnhandled
<1>2. LifeStep(LifeAt("unhandled", r, t), LifeAt("running", r, t))
  BY DEF LifeStep, LifeAt, IsHandledAfterAll
<1>3. LifeStep(LifeAt("unhandled", r, t), LifeAt("raised", r, t))
  BY DEF LifeStep, LifeAt, Raises
<1>4. LifeStep(LifeAt("raised", r, t), LifeAt("asked", r, t))
  BY DEF LifeStep, LifeAt, Asks
<1>5. \A a \in {"leaving", "abandoned"} : LifeStep(LifeAt(a, r, t), LifeAt("gone", r, t))
  BY DEF LifeStep, LifeAt, Ends
<1> QED BY <1>1, <1>2, <1>3, <1>4, <1>5

LEMMA CleanupSteps ==
  ASSUME NEW r \in Nat, NEW t
  PROVE  /\ LifeStep(LifeAt("running", r, 0), LifeAt("cleaning", r - 1, 0))
         /\ LifeStep(LifeAt("asked", r, t), LifeAt("dying", r - 1, t))
         /\ \A a \in {"cleaning", "dying"} : LifeStep(LifeAt(a, 0, 0), LifeAt("leaving", 0, 0))
         /\ r > 0 => LifeStep(LifeAt("cleaning", r, t), LifeAt("running", r, t))
         /\ r > 0 => LifeStep(LifeAt("dying", r, t), LifeAt("abandoned", r, t))
<1>0. PICK s : s = r - 1
  OBVIOUS
<1>1. LifeStep(LifeAt("running", r, 0), LifeAt("cleaning", r - 1, 0))
  <2>1. PICK l, m : l = LifeAt("running", r, 0) /\ m = LifeAt("cleaning", s, 0)
    OBVIOUS
  <2>2. l.at = "running" /\ l.refs = r /\ l.todo = 0
    BY <2>1 DEF LifeAt
  <2>3. m = [l EXCEPT !.at = "cleaning", !.refs = s]
    <3>1. PICK k : k = LifeAt("cleaning", r, 0)
      OBVIOUS
    <3>2. k = [l EXCEPT !.at = "cleaning"]
      BY <2>1, <3>1 DEF LifeAt
    <3>3. m = [k EXCEPT !.refs = s]
      BY <2>1, <3>1 DEF LifeAt
    <3> QED BY <3>2, <3>3
  <2>4. CleansUp(l, m)
    BY <1>0, <2>2, <2>3 DEF CleansUp
  <2> QED BY <1>0, <2>1, <2>4 DEF LifeStep
<1>2. LifeStep(LifeAt("asked", r, t), LifeAt("dying", r - 1, t))
  <2>1. PICK l, m : l = LifeAt("asked", r, t) /\ m = LifeAt("dying", s, t)
    OBVIOUS
  <2>2. l.at = "asked" /\ l.refs = r
    BY <2>1 DEF LifeAt
  <2>3. m = [l EXCEPT !.at = "dying", !.refs = s]
    <3>1. PICK k : k = LifeAt("dying", r, t)
      OBVIOUS
    <3>2. k = [l EXCEPT !.at = "dying"]
      BY <2>1, <3>1 DEF LifeAt
    <3>3. m = [k EXCEPT !.refs = s]
      BY <2>1, <3>1 DEF LifeAt
    <3> QED BY <3>2, <3>3
  <2>4. CleansUp(l, m)
    BY <1>0, <2>2, <2>3 DEF CleansUp
  <2> QED BY <1>0, <2>1, <2>4 DEF LifeStep
<1>3. \A a \in {"cleaning", "dying"} : LifeStep(LifeAt(a, 0, 0), LifeAt("leaving", 0, 0))
  BY DEF LifeStep, LifeAt, Confirms
<1>4. r > 0 => LifeStep(LifeAt("cleaning", r, t), LifeAt("running", r, t))
  BY DEF LifeStep, LifeAt, GoesOn
<1>5. r > 0 => LifeStep(LifeAt("dying", r, t), LifeAt("abandoned", r, t))
  BY DEF LifeStep, LifeAt, Abandons
<1> QED BY <1>1, <1>2, <1>3, <1>4, <1>5

LEMMA NothingToDo ==
  ASSUME NEW us, us.fill = 0
  PROVE  Todo(us) = 0
<1>1. {i \in 1 .. us.fill : us.mem[i].h = "user"} = {}
  OBVIOUS
<1> QED BY <1>1, FS_EmptySet DEF Todo

-----------------------------------------------------------------------------
(* Every step is one of a life                                              *)

LEMMA ActionsOfTheLast ==
  ASSUME ScopesInv, Has(stack, "cleanup"), Top.k # "cleanup"
  PROVE  unwind_init_ref = 0
<1>1. PICK g : Match(g)
  BY DEF ScopesInv
<1>2. PICK c \in 1 .. Len(stack) : stack[c].k = "cleanup"
  BY DEF Has
<1>3. c # Len(stack)
  BY <1>2 DEF Top
<1>4. Level(stack[c], g[c - 1], g[c], FALSE, unwind_init_ref)
  BY <1>1, <1>3 DEF Match, Heights
<1> QED BY <1>2, <1>4 DEF Level

LEMMA Sequences ==
  ASSUME ScopesInv, ScopesInv'
  PROVE  IsSequence(stack) /\ IsSequence(stack')
BY DEF ScopesInv, Shape

LEMMA OrdinaryWorks ==
  ASSUME ScopesInv, ScopesInv', LifeInv, OrdinaryStep, status = "running", status' = "running",
         UNCHANGED unwind_init_ref, Top.k # "catchall",
         Has(stack, "cleanup") => unwind_init_ref = 0
  PROVE  LifeStep(Life, Life')
<1>1. /\ Has(stack', "cleanup") <=> Has(stack, "cleanup")
      /\ Has(stack, "cleanup") => (Has(stack', "catchall") <=> Has(stack, "catchall"))
      /\ stack'[Len(stack')].k # "catchall"
  BY OrdinaryIs DEF LifeInv
<1>2. PICK a, r, t, u : /\ a = At(stack, "running", confirmed) /\ r = unwind_init_ref
                        /\ t = Todo(unwind_stack) /\ u = Todo(unwind_stack')
  OBVIOUS
<1>3. /\ a = At(stack', "running", confirmed')
      /\ a = "running" \/ (a \in {"cleaning", "dying"} /\ r = 0)
  <2>1. CASE Has(stack, "cleanup")
    <3>1. At(stack, "running", confirmed) = IF Has(stack, "catchall") THEN "dying" ELSE "cleaning"
      BY <2>1, AtIs, Sequences
    <3>2. At(stack', "running", confirmed') = IF Has(stack', "catchall") THEN "dying" ELSE "cleaning"
      BY <1>1, <2>1, AtIs, Sequences
    <3> QED BY <1>1, <1>2, <2>1, <3>1, <3>2
  <2>2. CASE ~Has(stack, "cleanup")
    <3>1. At(stack, "running", confirmed) = "running"
      BY <2>2, AtIs, Sequences DEF Top
    <3>2. At(stack', "running", confirmed') = "running"
      BY <1>1, <2>2, AtIs, Sequences
    <3> QED BY <1>2, <3>1, <3>2
  <2> QED BY <2>1, <2>2
<1>4. Life = LifeAt(a, r, t) /\ Life' = LifeAt(a, r, u)
  BY <1>2, <1>3, LifeIs
<1> QED BY <1>3, <1>4, WorkSteps

(* unwind_init, and unwind_cleanup of such a one                              *)
LEMMA ReferencesCount ==
  ASSUME ScopesInv, UnwindInit \/ UnwindRelease
  PROVE  LifeStep(Life, Life')
<1>1. /\ Top.k \notin {"cleanup", "catchall"} /\ status = "running"
      /\ UNCHANGED <<stack, status, confirmed, unwind_stack>>
      /\ unwind_init_ref' \in {unwind_init_ref + 1, unwind_init_ref - 1}
      /\ unwind_init_ref > 0 /\ unwind_init_ref' > 0
  BY DEF UnwindInit, UnwindRelease, UserRuns, ScopesInv
<1>2. ~Has(stack, "cleanup")
  BY <1>1, ActionsOfTheLast
<1>3. At(stack, "running", confirmed) = "running"
  BY <1>1, <1>2, AtIs, StackIs DEF Top
<1>4. PICK r, s, t : r \in Nat /\ r = unwind_init_ref /\ s = unwind_init_ref' /\ t = Todo(unwind_stack)
  BY DEF ScopesInv
<1>5. Life = LifeAt("running", r, t) /\ Life' = LifeAt("running", s, t)
  BY <1>1, <1>3, <1>4, LifeIs
<1>6. s \in {r + 1, r - 1} /\ r > 0 /\ s > 0
  BY <1>1, <1>4
<1> QED BY <1>4, <1>5, <1>6, CountSteps

(* The step of the thread from place a to place b.                            *)
Moves(a, b) ==
  /\ At(stack, status, confirmed) = a /\ At(stack', status', confirmed') = b
  /\ UNCHANGED <<unwind_init_ref, unwind_stack>>

LEMMA MoveSteps ==
  ASSUME NEW a, NEW b, Moves(a, b),
         \/ a = "running" /\ b = "unhandled"
         \/ a = "unhandled" /\ b \in {"running", "raised"}
         \/ a = "raised" /\ b = "asked"
         \/ a \in {"leaving", "abandoned"} /\ b = "gone"
  PROVE  LifeStep(Life, Life')
<1>1. PICK r, t : r = unwind_init_ref /\ t = Todo(unwind_stack)
  OBVIOUS
<1>2. Life = LifeAt(a, r, t) /\ Life' = LifeAt(b, r, t)
  BY <1>1, LifeIs DEF Moves
<1> QED BY <1>2, PlaceSteps

(* After a step of a send or of the catch-all handler nothing is cleaned up.  *)
LEMMA StillNoCleanup ==
  ASSUME ScopesInv, ~Has(stack, "cleanup"), NEW m, NEW l, Frames(m, l), l \in Nat,
         \A k \in m + 1 .. l : stack'[k].k # "cleanup"
  PROVE  ~Has(stack', "cleanup")
<1>1. /\ Len(stack) \in Nat /\ m \in 0 .. Len(stack) /\ l = Len(stack')
      /\ \A k \in 1 .. m : stack'[k] = stack[k]
  BY StackIs DEF Frames
<1>2. \A k \in 1 .. l : (k \in 1 .. m /\ k \in 1 .. Len(stack)) \/ k \in m + 1 .. l
  BY <1>1
<1> QED BY <1>1, <1>2 DEF Has

LEMMA SendNextLives ==
  ASSUME ScopesInv, ScopesInv', LifeInv, SendNext
  PROVE  LifeStep(Life, Life')
<1>1. /\ Top.k = "send" /\ status = "running" /\ status' = "running" /\ SendGoesOn
      /\ UNCHANGED <<unwind_init_ref, unwind_stack>>
  BY SendNextGoesOn DEF SendNext, exitVars
<1>2. ~Has(stack, "cleanup") /\ IsSequence(stack) /\ IsSequence(stack')
  BY <1>1, AloneOnTop, Sequences DEF LifeInv
<1>3. At(stack, status, confirmed) = "running"
  BY <1>1, <1>2, AtIs DEF Top
<1>4. PICK n, m : n = Len(stack) /\ m = n - 1 /\ m \in Nat
  BY StackIs
<1>5. ~Has(stack', "cleanup") /\
      (stack'[Len(stack')].k = "catchall" => stack'[Len(stack')].stage = "report")
  <2>1. CASE stack' = Below
    <3>1. n > 1
      BY <1>1, <1>4, NotMain
    <3>2. Frames(m, m) /\ \A k : k \notin m + 1 .. m
      BY <1>4, <2>1, <3>1, ReturnFrames
    <3>3. m \in 1 .. m /\ m \in 1 .. n - 1 /\ m + 1 = n
      BY <1>4, <3>1
    <3>4. Above(stack[m], Top)
      BY <1>4, <3>3 DEF ScopesInv, Shape, Top
    <3>5. Len(stack') = m /\ stack'[m] = stack[m]
      BY <3>2, <3>3 DEF Frames
    <3> QED BY <1>1, <1>2, <1>4, <3>2, <3>4, <3>5, StillNoCleanup DEF Above
  <2>2. ASSUME NEW e, NEW f, f.k = "send", Frames2(Len(stack) - 1, f, CalledFrame(e))
        PROVE  ~Has(stack', "cleanup") /\
               (stack'[Len(stack')].k = "catchall" => stack'[Len(stack')].stage = "report")
    <3>1. PICK a, l, c : a = m + 1 /\ l = m + 2 /\ c = CalledFrame(e)
      OBVIOUS
    <3>2. Frames(m, l) /\ stack'[a] = f /\ stack'[l] = c /\ Len(stack') = l
      BY <1>4, <2>2, <3>1 DEF Frames2, Frames
    <3>3. l \in Nat /\ \A k \in m + 1 .. l : k = a \/ k = l
      BY <1>4, <3>1
    <3>4. c.k # "cleanup" /\ (c.k = "catchall" => c.stage = "report")
      BY <3>1 DEF CalledFrame
    <3>5. \A k \in m + 1 .. l : stack'[k].k # "cleanup"
      BY <2>2, <3>2, <3>3, <3>4
    <3> QED BY <1>2, <3>2, <3>3, <3>4, <3>5, StillNoCleanup
  <2> QED BY <1>1, <2>1, <2>2 DEF SendGoesOn
<1>6. CASE stack'[Len(stack')].k = "catchall"
  <2>1. Moves("running", "unhandled")
    BY <1>1, <1>2, <1>3, <1>5, <1>6, AtStageIs DEF Moves
  <2> QED BY <2>1, MoveSteps
<1>7. CASE stack'[Len(stack')].k # "catchall"
  <2>1. At(stack', status', confirmed') = "running"
    BY <1>1, <1>2, <1>5, <1>7, AtIs
  <2>2. PICK r, t : r = unwind_init_ref /\ t = Todo(unwind_stack)
    OBVIOUS
  <2>3. Life = LifeAt("running", r, t) /\ Life' = LifeAt("running", r, t)
    BY <1>1, <1>3, <2>1, <2>2, LifeIs
  <2> QED BY <2>3, WorkSteps
<1> QED BY <1>6, <1>7

-----------------------------------------------------------------------------
(* The catch-all handler                                                    *)

LEMMA AtStageBefore ==
  ASSUME ScopesInv, LifeInv, NEW s, AtStage(s)
  PROVE  /\ ~Has(stack, "cleanup") /\ status = "running" /\ Top.k = "catchall"
         /\ s = "report" => At(stack, status, confirmed) = "unhandled"
         /\ s = "raised" => At(stack, status, confirmed) = "raised"
         /\ s = "asked"  => At(stack, status, confirmed) = "asked"
         /\ s = "cleaned" => At(stack, status, confirmed) \in {"leaving", "abandoned"}
<1>1. Top.k = "catchall" /\ Top.stage = s /\ status = "running"
  BY DEF AtStage
<1>2. ~Has(stack, "cleanup") /\ IsSequence(stack)
  BY <1>1, AloneOnTop, StackIs DEF LifeInv
<1> QED BY <1>1, <1>2, AtStageIs DEF Top

LEMMA StageLives ==
  ASSUME ScopesInv, ScopesInv', LifeInv, ReportAndRaise \/ UnwindAll, status' # "killed"
  PROVE  LifeStep(Life, Life')
<1>1. \/ AtStage("report") /\ stack' = GoTo("raised")
      \/ AtStage("raised") /\ stack' = GoTo("asked")
  BY DEF ReportAndRaise, UnwindAll
<1>2. UNCHANGED <<status, unwind_init_ref, unwind_stack>>
  BY DEF ReportAndRaise, UnwindAll
<1>3. ASSUME NEW s, NEW s2, AtStage(s), stack' = GoTo(s2)
      PROVE  /\ status = "running" /\ IsSequence(stack') /\ ~Has(stack', "cleanup")
             /\ stack'[Len(stack')].k = "catchall" /\ stack'[Len(stack')].stage = s2
  <2>1. ~Has(stack, "cleanup") /\ status = "running" /\ Top.k = "catchall"
    BY <1>3, AtStageBefore
  <2>2. PICK f : f.k = "catchall" /\ f.stage = s2 /\ Frames1(Len(stack) - 1, f)
    BY <1>3, <2>1, StageFrames
  <2>3. PICK m, l : m = Len(stack) - 1 /\ l = m + 1 /\ m \in Nat
    BY StackIs
  <2>4. Frames(m, l) /\ stack'[l] = f /\ Len(stack') = l
    BY <2>2, <2>3 DEF Frames1, Frames
  <2>5. l \in Nat /\ \A k \in m + 1 .. l : k = l
    BY <2>3
  <2>6. ~Has(stack', "cleanup")
    BY <2>1, <2>2, <2>4, <2>5, StillNoCleanup
  <2> QED BY <2>1, <2>2, <2>4, <2>6, Sequences
<1>4. CASE AtStage("report") /\ stack' = GoTo("raised")
  <2>1. Moves("unhandled", "raised")
    BY <1>2, <1>3, <1>4, AtStageBefore, AtStageIs DEF Moves
  <2> QED BY <2>1, MoveSteps
<1>5. CASE AtStage("raised") /\ stack' = GoTo("asked")
  <2>1. Moves("raised", "asked")
    BY <1>2, <1>3, <1>5, AtStageBefore, AtStageIs DEF Moves
  <2> QED BY <2>1, MoveSteps
<1> QED BY <1>1, <1>4, <1>5

LEMMA ReportFailsLives ==
  ASSUME ScopesInv, ScopesInv', LifeInv, ReportFails
  PROVE  LifeStep(Life, Life')
<1>1. /\ AtStage("report") /\ UNCHANGED <<status, unwind_init_ref, unwind_stack>>
  BY DEF ReportFails, exitVars
<1>2. /\ ~Has(stack, "cleanup") /\ status = "running"
      /\ At(stack, status, confirmed) = "unhandled"
  BY <1>1, AtStageBefore
<1>3. ~Has(stack', "cleanup") /\ stack'[Len(stack')].k # "catchall"
  BY <1>2, ReportFailsOrdinary, OrdinaryIs DEF LifeInv
<1>4. Moves("unhandled", "running")
  BY <1>1, <1>2, <1>3, AtIs, Sequences DEF Moves
<1> QED BY <1>4, MoveSteps

LEMMA ExitLives ==
  ASSUME ScopesInv, LifeInv, ExitThread
  PROVE  LifeStep(Life, Life')
<1>1. AtStage("cleaned") /\ status' = "thread_exited" /\ UNCHANGED <<unwind_init_ref, unwind_stack>>
  BY DEF ExitThread
<1>2. At(stack, status, confirmed) \in {"leaving", "abandoned"}
  BY <1>1, AtStageBefore
<1>3. At(stack', status', confirmed') = "gone"
  BY <1>1, AtEnd
<1>4. PICK a \in {"leaving", "abandoned"} : Moves(a, "gone")
  BY <1>1, <1>2, <1>3 DEF Moves
<1> QED BY <1>4, MoveSteps

LEMMA CatchallCleanupLives ==
  ASSUME ScopesInv, ScopesInv', LifeInv, CatchallCleansUp
  PROVE  LifeStep(Life, Life')
<1>1. /\ AtStage("asked") /\ sig_stacks = "live" /\ UNCHANGED <<status, unwind_stack>>
      /\ unwind_init_ref > 0 => unwind_init_ref' = unwind_init_ref - 1
  BY DEF CatchallCleansUp, SigCleanup
<1>2. PICK r, t : r \in Nat /\ r = unwind_init_ref /\ t = Todo(unwind_stack) /\ unwind_init_ref' = r - 1
  BY <1>1 DEF ScopesInv, LifeInv
<1>3. status = "running" /\ At(stack, status, confirmed) = "asked"
  BY <1>1, AtStageBefore
<1>4. PICK f, c : f.k = "catchall" /\ c.k = "cleanup" /\ Frames2(Len(stack) - 1, f, c)
  BY CatchallCleansUpFrames
<1>5. PICK m, a, l : m = Len(stack) - 1 /\ a = m + 1 /\ l = m + 2 /\ m \in Nat
  BY StackIs
<1>6. Len(stack') = l /\ stack'[a] = f /\ stack'[l] = c
  BY <1>4, <1>5 DEF Frames2, Frames
<1>7. a \in 1 .. l /\ l \in 1 .. l
  BY <1>5
<1>8. Has(stack', "cleanup") /\ Has(stack', "catchall")
  BY <1>4, <1>6, <1>7 DEF Has
<1>9. At(stack', status', confirmed') = "dying"
  BY <1>1, <1>3, <1>8, AtIs, Sequences
<1>10. Life = LifeAt("asked", r, t) /\ Life' = LifeAt("dying", r - 1, t)
  BY <1>1, <1>2, <1>3, <1>9, LifeIs
<1> QED BY <1>2, <1>10, CleanupSteps

(* The thread cleans up when every scope is closed.                           *)
LEMMA ThreadCleanupLives ==
  ASSUME ScopesInv, ScopesInv', LifeInv, ThreadCleansUp \/ ThreadUnwindCleanup
  PROVE  LifeStep(Life, Life')
<1>1. /\ status = "running" /\ UNCHANGED <<status, unwind_stack>>
      /\ sig_stacks = "live" \/ unwind_init_ref > 0
      /\ unwind_init_ref > 0 => unwind_init_ref' = unwind_init_ref - 1
  BY DEF ThreadCleansUp, ThreadUnwindCleanup, SigCleanup
<1>2. PICK r \in Nat : r = unwind_init_ref /\ unwind_init_ref' = r - 1
  BY <1>1 DEF ScopesInv, LifeInv
<1>3. PICK c : c.k = "cleanup" /\ Frames1(1, c) /\ Len(stack) = 1 /\ Top.k = "main"
  BY LastThreadCleanup
<1>4. /\ (\A k \in 1 .. 1 : k = 1) /\ 1 \in 1 .. 1 /\ (\A k \in 1 .. 2 : k = 1 \/ k = 2) /\ 2 \in 1 .. 2
  OBVIOUS
<1>5. /\ Len(stack') = 2 /\ stack'[2] = c /\ stack'[1] = stack[1] /\ stack[1].k = "main"
  BY <1>3, <1>4 DEF Frames1, Frames, Top
<1>6. ~Has(stack, "cleanup") /\ Has(stack', "cleanup") /\ ~Has(stack', "catchall")
  BY <1>3, <1>4, <1>5 DEF Has
<1>7. At(stack, status, confirmed) = "running" /\ At(stack', status', confirmed') = "cleaning"
  BY <1>1, <1>3, <1>5, <1>6, AtIs, Sequences
<1>8. unwind_stack.fill = 0
  <2>1. PICK g : Match(g)
    BY DEF ScopesInv
  <2>2. Level(stack[1], g[1 - 1], g[1], TRUE, unwind_init_ref) /\ g[0] = 0 /\ g[1] = unwind_stack.fill
    BY <1>3, <1>4, <2>1 DEF Match, Heights
  <2>3. ~HasEntry(stack[1]) /\ stack[1].k # "unwind" /\ ~Sinks(stack[1], TRUE, unwind_init_ref)
    BY <1>5 DEF HasEntry, Sinks
  <2>4. 1 - 1 = 0
    OBVIOUS
  <2> QED BY <2>2, <2>3, <2>4 DEF Level
<1>9. Todo(unwind_stack) = 0
  BY <1>8, NothingToDo
<1>10. Life = LifeAt("running", r, 0) /\ Life' = LifeAt("cleaning", r - 1, 0)
  BY <1>1, <1>2, <1>7, <1>9, LifeIs
<1> QED BY <1>2, <1>10, CleanupSteps

(* What is below unwind_cleanup: the thread's function or catchall_handler.   *)
LEMMA BelowCleanup ==
  ASSUME ScopesInv, Calm(stack), Top.k = "cleanup", stack' = Below
  PROVE  /\ Len(stack) > 1 /\ Len(stack') = Len(stack) - 1 /\ ~Has(stack', "cleanup")
         /\ IF Len(stack) = 2 THEN ~Has(stack, "catchall") /\ stack'[Len(stack')].k = "main"
            ELSE /\ Has(stack, "catchall")
                 /\ stack'[Len(stack')].k = "catchall" /\ stack'[Len(stack')].stage = "cleaned"
<1>1. PICK n, m : n = Len(stack) /\ m = n - 1 /\ n > 1 /\ m \in Nat
  BY StackIs, NotMain
<1>2. /\ m \in 1 .. m /\ m \in 1 .. n - 1 /\ m + 1 = n /\ m \in 1 .. n /\ n \in 1 .. n
      /\ m = 1 <=> n = 2
      /\ n = 2 => \A k \in 1 .. n : k = 1 \/ k = n
  BY <1>1
<1>3. Frames(m, m)
  BY <1>1, ReturnFrames
<1>4. Len(stack') = m /\ stack'[m] = stack[m] /\ \A k \in 1 .. m : stack'[k] = stack[k]
  BY <1>2, <1>3 DEF Frames
<1>5. ~Has(stack', "cleanup")
  BY <1>1, <1>4, AloneOnTop DEF Has
<1>6. Above(stack[m], Top) /\ (stack[m].k = "main" <=> n = 2)
  BY <1>1, <1>2 DEF ScopesInv, Shape, Top
<1>7. CASE n = 2
  <2>1. stack[1].k = "main" /\ stack[n].k = "cleanup"
    BY <1>1, <1>2, <1>6, <1>7 DEF Top
  <2>2. ~Has(stack, "catchall")
    BY <1>1, <1>2, <1>7, <2>1 DEF Has
  <2> QED BY <1>1, <1>4, <1>5, <1>6, <1>7, <2>2
<1>8. CASE n # 2
  <2>1. stack[m].k = "catchall" /\ stack[m].stage = "cleaned"
    BY <1>6, <1>8 DEF Above
  <2>2. Has(stack, "catchall")
    BY <1>1, <1>2, <2>1 DEF Has
  <2> QED BY <1>1, <1>4, <1>5, <1>8, <2>1, <2>2
<1> QED BY <1>7, <1>8

LEMMA CleanupDoneLives ==
  ASSUME ScopesInv, ScopesInv', LifeInv, ConfirmInv, CleanupDone
  PROVE  LifeStep(Life, Life')
<1>1. /\ Top.k = "cleanup" /\ status = "running" /\ stack' = Below
      /\ UNCHANGED <<unwind_init_ref, unwind_stack>>
      /\ status' = IF unwind_init_ref = 0 /\ Len(stack) = 2 THEN "finished" ELSE status
      /\ unwind_init_ref = 0 => unwind_stack.fill = 0
  BY DEF CleanupDone, Return, ScopesInv
<1>0. confirmed' = (confirmed \/ unwind_init_ref = 0)
  BY DEF CleanupDone
<1>2. ~confirmed
  BY <1>1 DEF ConfirmInv
<1>3. /\ Len(stack) > 1 /\ Len(stack') = Len(stack) - 1 /\ ~Has(stack', "cleanup")
      /\ IF Len(stack) = 2 THEN ~Has(stack, "catchall") /\ stack'[Len(stack')].k = "main"
         ELSE /\ Has(stack, "catchall")
              /\ stack'[Len(stack')].k = "catchall" /\ stack'[Len(stack')].stage = "cleaned"
  BY <1>1, BelowCleanup DEF LifeInv
<1>4. Has(stack, "cleanup")
  BY <1>1, StackIs DEF Has, Top
<1>5. At(stack, status, confirmed) = IF Len(stack) = 2 THEN "cleaning" ELSE "dying"
  BY <1>1, <1>3, <1>4, AtIs, Sequences
<1>6. CASE unwind_init_ref = 0
  <2>1. At(stack', status', confirmed') = "leaving"
    <3>1. CASE Len(stack) = 2
      BY <1>1, <1>6, <3>1, AtEnd
    <3>2. CASE Len(stack) # 2
      <4>1. confirmed'
        BY <1>0, <1>6
      <4> QED BY <1>1, <1>3, <1>6, <3>2, <4>1, AtStageIs, Sequences
    <3> QED BY <3>1, <3>2
  <2>2. Todo(unwind_stack) = 0
    BY <1>1, <1>6, NothingToDo
  <2>3. PICK a \in {"cleaning", "dying"} : a = At(stack, status, confirmed)
    BY <1>5
  <2>4. Life = LifeAt(a, 0, 0) /\ Life' = LifeAt("leaving", 0, 0)
    BY <1>1, <1>6, <2>1, <2>2, <2>3, LifeIs
  <2> QED BY <2>4, CleanupSteps
<1>7. CASE unwind_init_ref # 0
  <2>1. PICK r, t : r \in Nat /\ r = unwind_init_ref /\ t = Todo(unwind_stack) /\ r > 0
    BY <1>7 DEF ScopesInv
  <2>2. status' = "running" /\ ~confirmed'
    BY <1>0, <1>1, <1>2, <1>7
  <2>3. CASE Len(stack) = 2
    <3>1. At(stack', status', confirmed') = "running"
      BY <1>3, <2>2, <2>3, AtIs, Sequences
    <3>2. Life = LifeAt("cleaning", r, t) /\ Life' = LifeAt("running", r, t)
      BY <1>1, <1>5, <2>1, <2>3, <3>1, LifeIs
    <3> QED BY <2>1, <3>2, CleanupSteps
  <2>4. CASE Len(stack) # 2
    <3>1. At(stack', status', confirmed') = "abandoned"
      BY <1>3, <2>2, <2>4, AtStageIs, Sequences
    <3>2. Life = LifeAt("dying", r, t) /\ Life' = LifeAt("abandoned", r, t)
      BY <1>1, <1>5, <2>1, <2>4, <3>1, LifeIs
    <3> QED BY <2>1, <3>2, CleanupSteps
  <2> QED BY <2>3, <2>4
<1> QED BY <1>6, <1>7

(* The thread did not end here, by a step that is none of its life.           *)
Survives == status' \notin {"undefined", "process_exited", "killed", "overflow"}

LEMMA UserLives ==
  ASSUME "plain" \notin Modes, ScopesInv, ScopesInv', LifeInv, UserStep, Survives
  PROVE  LifeStep(Life, Life')
<1>1. CASE UnwindInit \/ UnwindRelease
  BY <1>1, ReferencesCount
<1>2. CASE ThreadCleansUp \/ ThreadUnwindCleanup
  BY <1>2, ThreadCleanupLives
<1> SUFFICES ASSUME ~UnwindInit, ~UnwindRelease, ~ThreadCleansUp, ~ThreadUnwindCleanup
             PROVE  LifeStep(Life, Life')
  BY <1>1, <1>2
<1>3. OrdinaryStep /\ Top.k \notin {"cleanup", "catchall"}
  BY UserOrdinary DEF LifeInv
<1>4. Has(stack, "cleanup") => unwind_init_ref = 0
  BY <1>3, ActionsOfTheLast
<1>5. status = "running" /\ status' = "running" /\ UNCHANGED unwind_init_ref
  <2>1. CASE \E rst : HandlerReturns(rst)
    BY <2>1 DEF HandlerReturns, UserRuns, Survives
  <2> QED BY <2>1 DEF UserStep, exitVars, UserCalls, UserRuns, UnwindAction, AutopopHandler,
      AutopopNullHandler, ProvideRestart, ReturnPoint, ReprovideRestart, LeaveScope,
      LeaveExplicitScope, LeavePoint, ActionReturns, PersistentHandler,
      RmPersistentHandler, Unwind, Send, AssertHandler
<1> QED BY <1>3, <1>4, <1>5, OrdinaryWorks

LEMMA LibraryLives ==
  ASSUME ScopesInv, ScopesInv', LifeInv, ConfirmInv, LibraryStep, Survives
  PROVE  LifeStep(Life, Life')
<1>1. CASE UnwindNext \/ UnwindDone
  <2>1. OrdinaryStep
    BY <1>1, UnwindNextOrdinary, UnwindDoneOrdinary DEF LifeInv
  <2>2. Top.k = "unwind" /\ status = "running" /\ status' = "running" /\ UNCHANGED unwind_init_ref
    BY <1>1 DEF UnwindNext, UnwindDone, exitVars
  <2> QED BY <2>1, <2>2, ActionsOfTheLast, OrdinaryWorks
<1>2. CASE CleanupNext
  <2>1. /\ Top.k = "cleanup" /\ unwind_init_ref = 0
        /\ status = "running" /\ status' = "running" /\ UNCHANGED unwind_init_ref
    BY <1>2 DEF CleanupNext, exitVars
  <2> QED BY <1>2, <2>1, CleanupNextOrdinary, OrdinaryWorks
<1>3. CASE ReportAndRaise \/ UnwindAll
  BY <1>3, StageLives DEF Survives
<1>4. CASE UseAfterFree \/ ReportOverflows
  BY <1>4 DEF UseAfterFree, UndefinedBehaviour, ReportOverflows, Survives
<1> QED BY <1>1, <1>2, <1>3, <1>4, SendNextLives, ReportFailsLives, CatchallCleanupLives, ExitLives,
           CleanupDoneLives DEF LibraryStep

(* To the rest of its process a thread lives as ThreadLife says: it confirms  *)
(* its shutdown only from the last unwind_cleanup with no action of the user  *)
(* left on its unwind stack, it ends only after that or when references are   *)
(* left, and it asks for a shutdown only out of the catch-all handler.  This  *)
(* holds where nobody unwinds to return points of its own (UNWIND): an action *)
(* that unwinds out of the last unwind_cleanup leads a thread back to life.   *)
THEOREM LifeRefines ==
  ASSUME "plain" \notin Modes
  PROVE  Spec => LivesAsThreadLife
<1>1. ScopesInv /\ LifeInv /\ [Next]_vars => LifeInv'
  BY LifeNext
<1>2. ScopesInv /\ LifeInv /\ ConfirmInv /\ [Next]_vars =>
        [ status' \in {"undefined", "process_exited", "killed", "overflow"} \/ LifeStep(Life, Life') ]_Life
  <2> SUFFICES ASSUME ScopesInv, LifeInv, ConfirmInv, [Next]_vars, Survives
               PROVE  LifeStep(Life, Life') \/ UNCHANGED Life
    BY DEF Survives
  <2>1. ScopesInv'
    BY ScopesNext
  <2>2. CASE UNCHANGED vars
    <3>1. UNCHANGED <<stack, status, confirmed, unwind_init_ref, unwind_stack>>
      BY <2>2 DEF vars
    <3> QED BY <3>1, LifeIs
  <2>3. CASE Next /\ ~UNCHANGED vars
    BY <2>1, <2>3, UserLives, LibraryLives DEF Next, Ended
  <2> QED BY <2>2, <2>3
<1> QED BY <1>1, <1>2, LifeInit, ConfirmHolds, ScopesInvariant, PTL DEF Spec, LivesAsThreadLife

=================================================================================
