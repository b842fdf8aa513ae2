-------------------------- MODULE SigHandlers_proofs --------------------------
(***************************************************************************)
(* The handler stack and the sends of a thread, for any signal types,      *)
(* restarts and actions and however deep user code nests: the handlers on  *)
(* the stack are those of the open scopes and those held, a send always    *)
(* finds one to call, and it calls none twice unless a persistent one is   *)
(* removed meanwhile.                                                      *)
(***************************************************************************)
EXTENDS SigScopes_proofs

-----------------------------------------------------------------------------
(* The handler stack                                                        *)

Removes(x) == unwind_stack.mem[x].h = "rm_handler" /\ unwind_stack.mem[x].arg # 0

HasHandler(id) == \E i \in 1 .. sig_handler_stack.fill : sig_handler_stack.mem[i].id = id

WillRemove(id) ==
  \E x \in 1 .. unwind_stack.fill : Removes(x) /\ unwind_stack.mem[x].arg = id

(* The catch-all handler is at the bottom, every other handler is either     *)
(* held or will be removed by one entry of the unwind stack.                 *)
HandlersExact ==
  /\ sig_handler_stack.fill >= 1 /\ sig_handler_stack.mem[1] = CatchAll
  /\ 0 \notin held /\ 1 \notin held /\ ~WillRemove(1)
  /\ \A id \in held : ~WillRemove(id)
  /\ \A x, y \in 1 .. unwind_stack.fill :
       Removes(x) /\ Removes(y) /\ unwind_stack.mem[x].arg = unwind_stack.mem[y].arg => x = y
  /\ \A id : HasHandler(id) <=> id = 1 \/ id \in held \/ WillRemove(id)

(* Once its memory is freed the handler stack is not used any more.          *)
HandlersInv == sig_stacks = "live" => HandlersExact

LEMMA HandlersInit == Init => HandlersInv
<1> SUFFICES ASSUME Init PROVE HandlersExact
  BY DEF HandlersInv
<1>1. /\ sig_handler_stack = Push(EmptyStack, CatchAll) /\ unwind_stack = EmptyStack
      /\ held = {}
  BY DEF Init
<1>2. sig_handler_stack.fill = 1 /\ sig_handler_stack.mem[1] = CatchAll
  BY <1>1 DEF Push, EmptyStack
<1>3. unwind_stack.fill = 0 /\ \A x : x \notin 1 .. unwind_stack.fill
  BY <1>1 DEF EmptyStack
<1>4. \A id : HasHandler(id) <=> id = 1
  <2>1. \A i \in 1 .. sig_handler_stack.fill : i = 1
    BY <1>2
  <2>2. 1 \in 1 .. sig_handler_stack.fill /\ CatchAll.id = 1
    BY <1>2 DEF CatchAll
  <2> QED BY <1>2, <2>1, <2>2 DEF HasHandler
<1> QED BY <1>1, <1>2, <1>3, <1>4 DEF HandlersExact, WillRemove

LEMMA HandlersSame ==
  ASSUME HandlersExact, UNCHANGED <<sig_handler_stack, held, unwind_stack>>
  PROVE  HandlersExact'
BY DEF HandlersExact, WillRemove, HasHandler, Removes

(* The unwind stack after a push, and after its top entry was taken off.     *)
LEMMA RemovalsPushed ==
  ASSUME UnwindOK(unwind_stack), NEW e, unwind_stack' = Push(unwind_stack, e)
  PROVE  /\ unwind_stack.fill \in Nat /\ unwind_stack'.fill = unwind_stack.fill + 1
         /\ \A x \in 1 .. unwind_stack.fill :
              unwind_stack'.mem[x] = unwind_stack.mem[x] /\ (Removes(x)' <=> Removes(x))
         /\ unwind_stack'.mem[unwind_stack.fill + 1] = e
         /\ \A x \in 1 .. unwind_stack'.fill :
              x \in 1 .. unwind_stack.fill \/ x = unwind_stack.fill + 1
<1>1. /\ unwind_stack.fill \in Nat /\ unwind_stack'.fill = unwind_stack.fill + 1
      /\ \A x \in 1 .. unwind_stack.fill : unwind_stack'.mem[x] = unwind_stack.mem[x]
      /\ unwind_stack'.mem[unwind_stack.fill + 1] = e
  BY PushUnwind
<1> QED BY <1>1 DEF Removes

LEMMA RemovalsPopped ==
  ASSUME UnwindOK(unwind_stack), unwind_stack.fill > 0, unwind_stack' = Pop(unwind_stack)
  PROVE  /\ unwind_stack.fill \in Nat /\ unwind_stack'.fill = unwind_stack.fill - 1
         /\ \A x \in 1 .. unwind_stack'.fill :
              /\ x \in 1 .. unwind_stack.fill /\ x # unwind_stack.fill
              /\ unwind_stack'.mem[x] = unwind_stack.mem[x] /\ (Removes(x)' <=> Removes(x))
         /\ \A x \in 1 .. unwind_stack.fill : x \in 1 .. unwind_stack'.fill \/ x = unwind_stack.fill
         /\ unwind_stack.fill \in 1 .. unwind_stack.fill
<1>1. /\ unwind_stack.fill \in Nat /\ unwind_stack'.fill = unwind_stack.fill - 1
      /\ \A x \in 1 .. unwind_stack.fill - 1 : unwind_stack'.mem[x] = unwind_stack.mem[x]
  BY PopUnwind
<1> QED BY <1>1 DEF Removes

(* An entry that removes no handler comes or goes.                           *)
LEMMA HandlersOtherPushed ==
  ASSUME HandlersExact, UnwindOK(unwind_stack), NEW e, unwind_stack' = Push(unwind_stack, e),
         ~(e.h = "rm_handler" /\ e.arg # 0), UNCHANGED <<sig_handler_stack, held>>
  PROVE  HandlersExact'
<1> DEFINE f == unwind_stack.fill
<1>0. PICK t : t = f + 1
  OBVIOUS
<1>1. ~Removes(t)'
  BY <1>0, RemovalsPushed DEF Removes
<1>2. \A x \in 1 .. unwind_stack'.fill : Removes(x)' =>
        x \in 1 .. unwind_stack.fill /\ Removes(x) /\ unwind_stack'.mem[x] = unwind_stack.mem[x]
  BY <1>0, <1>1, RemovalsPushed
<1>3. \A x \in 1 .. unwind_stack.fill :
        x \in 1 .. unwind_stack'.fill /\ unwind_stack'.mem[x] = unwind_stack.mem[x]
        /\ (Removes(x) => Removes(x)')
  BY RemovalsPushed
<1>4. \A id : WillRemove(id)' <=> WillRemove(id)
  BY <1>2, <1>3 DEF WillRemove
<1>5. \A id : HasHandler(id)' <=> HasHandler(id)
  BY DEF HasHandler
<1> QED BY <1>2, <1>4, <1>5 DEF HandlersExact

LEMMA HandlersOtherPopped ==
  ASSUME HandlersExact, UnwindOK(unwind_stack), unwind_stack.fill > 0,
         unwind_stack' = Pop(unwind_stack), ~Removes(unwind_stack.fill),
         UNCHANGED <<sig_handler_stack, held>>
  PROVE  HandlersExact'
<1>1. \A x \in 1 .. unwind_stack'.fill :
        /\ x \in 1 .. unwind_stack.fill /\ unwind_stack'.mem[x] = unwind_stack.mem[x]
        /\ (Removes(x)' <=> Removes(x))
  BY RemovalsPopped
<1>2. \A x \in 1 .. unwind_stack.fill : Removes(x) => x \in 1 .. unwind_stack'.fill
  BY RemovalsPopped
<1>3. \A id : WillRemove(id)' <=> WillRemove(id)
  BY <1>1, <1>2 DEF WillRemove
<1>4. \A id : HasHandler(id)' <=> HasHandler(id)
  BY DEF HasHandler
<1> QED BY <1>1, <1>3, <1>4 DEF HandlersExact

(* A handler is pushed.                                                      *)
LEMMA HandlerPushed ==
  ASSUME HandlersExact, SigStacksOK, NEW sig, PushHandler(sig)
  PROVE  /\ sig_handler_stack'.fill >= 1 /\ sig_handler_stack'.mem[1] = CatchAll
         /\ NextId(sig_handler_stack, 1) \notin {0, 1}
         /\ ~HasHandler(NextId(sig_handler_stack, 1))
         /\ \A id : HasHandler(id)' <=> HasHandler(id) \/ id = NextId(sig_handler_stack, 1)
<1> DEFINE hs == sig_handler_stack
           new == NextId(hs, 1)
           e == [sig |-> sig, id |-> new, catchall |-> FALSE]
<1>1. hs.fill \in Nat /\ hs.fill >= 1 /\ 1 .. hs.fill \subseteq DOMAIN hs.mem
  BY DEF SigStacksOK, StackOK, WithinAlloc, HandlersExact
<1>2. /\ hs'.fill = hs.fill + 1 /\ hs'.mem[hs.fill + 1] = e
      /\ \A i \in 1 .. hs.fill : hs'.mem[i] = hs.mem[i]
  <2>1. hs' = Push(hs, e)
    BY DEF PushHandler
  <2> HIDE DEF e
  <2> QED BY <1>1, <2>1 DEF Push
<1>3. new \in Nat /\ \A i \in 1 .. hs.fill : hs.mem[i].id < new /\ hs.mem[i].id \in Nat
  BY NextIdAbove DEF SigStacksOK, StackOK
<1>4. hs.mem[1].id = 1 /\ 1 \in 1 .. hs.fill
  BY <1>1 DEF HandlersExact, CatchAll
<1>5. e.id = new
  OBVIOUS
<1> HIDE DEF e, new
<1>6. new \notin {0, 1}
  BY <1>3, <1>4
<1>7. ~HasHandler(new)
  BY <1>3 DEF HasHandler
<1>8. \A i \in 1 .. hs'.fill : i \in 1 .. hs.fill \/ i = hs.fill + 1
  BY <1>1, <1>2
<1>9. hs.fill + 1 \in 1 .. hs'.fill /\ \A i \in 1 .. hs.fill : i \in 1 .. hs'.fill
  BY <1>1, <1>2
<1>10. \A id : HasHandler(id)' <=> HasHandler(id) \/ id = new
  BY <1>2, <1>5, <1>8, <1>9 DEF HasHandler
<1>11. hs'.fill >= 1 /\ hs'.mem[1] = CatchAll
  BY <1>1, <1>2, <1>4 DEF HandlersExact
<1> QED BY <1>6, <1>7, <1>10, <1>11 DEF new

(* ... with its removal, or to be held.                                      *)
LEMMA HandlersScopeOpened ==
  ASSUME HandlersExact, SigStacksOK, UnwindOK(unwind_stack), NEW sig, PushHandler(sig),
         unwind_stack' = Push(unwind_stack, [h |-> "rm_handler",
                                             arg |-> NextId(sig_handler_stack, 1)]),
         held' = held
  PROVE  HandlersExact'
<1>1. PICK new : new = NextId(sig_handler_stack, 1)
  OBVIOUS
<1>2. /\ sig_handler_stack'.fill >= 1 /\ sig_handler_stack'.mem[1] = CatchAll
      /\ new \notin {0, 1} /\ ~HasHandler(new)
      /\ \A id : HasHandler(id)' <=> HasHandler(id) \/ id = new
  BY <1>1, HandlerPushed
<1>3. new \notin held /\ ~WillRemove(new)
  BY <1>2 DEF HandlersExact
<1> DEFINE f == unwind_stack.fill
<1>4. /\ f \in Nat /\ unwind_stack'.fill = f + 1
      /\ \A x \in 1 .. f : unwind_stack'.mem[x] = unwind_stack.mem[x] /\ (Removes(x)' <=> Removes(x))
      /\ unwind_stack'.mem[f + 1] = [h |-> "rm_handler", arg |-> new]
      /\ \A x \in 1 .. unwind_stack'.fill : x \in 1 .. f \/ x = f + 1
  BY <1>1, RemovalsPushed
<1>0. PICK t : t = f + 1
  OBVIOUS
<1>5. Removes(t)' /\ unwind_stack'.mem[t].arg = new
  BY <1>0, <1>2, <1>4 DEF Removes
<1>6. t \in 1 .. unwind_stack'.fill /\ \A x \in 1 .. f : x \in 1 .. unwind_stack'.fill
  BY <1>0, <1>4
<1> HIDE DEF f
<1>7. \A id : WillRemove(id)' <=> WillRemove(id) \/ id = new
  <2>1. ASSUME NEW id, WillRemove(id)' PROVE WillRemove(id) \/ id = new
    <3>1. PICK x \in 1 .. unwind_stack'.fill : Removes(x)' /\ unwind_stack'.mem[x].arg = id
      BY <2>1 DEF WillRemove
    <3> QED BY <1>0, <1>4, <1>5, <3>1 DEF WillRemove, f
  <2>2. ASSUME NEW id, WillRemove(id) PROVE WillRemove(id)'
    <3>1. PICK x \in 1 .. f : Removes(x) /\ unwind_stack.mem[x].arg = id
      BY <2>2 DEF WillRemove, f
    <3> QED BY <1>4, <1>6, <3>1 DEF WillRemove
  <2>3. WillRemove(new)'
    BY <1>5, <1>6 DEF WillRemove
  <2> QED BY <2>1, <2>2, <2>3
<1>8. ASSUME NEW x \in 1 .. unwind_stack'.fill, NEW y \in 1 .. unwind_stack'.fill,
             Removes(x)', Removes(y)', unwind_stack'.mem[x].arg = unwind_stack'.mem[y].arg
      PROVE  x = y
  <2>1. \A z \in 1 .. f : Removes(z)' => unwind_stack'.mem[z].arg # new
    BY <1>3, <1>4 DEF WillRemove, f
  <2>2. CASE x \in 1 .. f /\ y \in 1 .. f
    BY <1>4, <1>8, <2>2 DEF HandlersExact, f
  <2> QED BY <1>0, <1>4, <1>5, <1>8, <2>1, <2>2
<1> QED BY <1>2, <1>3, <1>7, <1>8 DEF HandlersExact

LEMMA HandlersHeld ==
  ASSUME HandlersExact, SigStacksOK, NEW sig, PushHandler(sig), unwind_stack' = unwind_stack,
         held' = held \cup {NextId(sig_handler_stack, 1)}
  PROVE  HandlersExact'
<1>1. PICK new : new = NextId(sig_handler_stack, 1)
  OBVIOUS
<1>2. /\ sig_handler_stack'.fill >= 1 /\ sig_handler_stack'.mem[1] = CatchAll
      /\ new \notin {0, 1} /\ ~HasHandler(new)
      /\ \A id : HasHandler(id)' <=> HasHandler(id) \/ id = new
  BY <1>1, HandlerPushed
<1>3. new \notin held /\ ~WillRemove(new)
  BY <1>2 DEF HandlersExact
<1>4. \A id : WillRemove(id)' <=> WillRemove(id)
  BY DEF WillRemove, Removes
<1>5. \A x : Removes(x)' <=> Removes(x)
  BY DEF Removes
<1> QED BY <1>1, <1>2, <1>3, <1>4, <1>5 DEF HandlersExact

(* A handler other than the catch-all one is removed.                        *)
LEMMA HandlerRemoved ==
  ASSUME HandlersExact, SigStacksOK, NEW id, id \notin {0, 1}, HasHandler(id), RmHandler(id)
  PROVE  /\ sig_handler_stack'.fill >= 1 /\ sig_handler_stack'.mem[1] = CatchAll
         /\ \A d : HasHandler(d)' <=> HasHandler(d) /\ d # id
<1> DEFINE hs == sig_handler_stack
           rm == RemoveId(hs, id)
<1>1. /\ StackOK(hs) /\ hs.fill \in Nat /\ hs.fill >= 1 /\ 1 .. hs.fill \subseteq DOMAIN hs.mem
      /\ hs.mem[1] = CatchAll
  BY DEF SigStacksOK, StackOK, WithinAlloc, HandlersExact
<1>2. PICK k \in SlotsWithId(hs, id) : TRUE
  BY DEF HasHandler, SlotsWithId
<1>3. SlotsWithId(hs, id) = {k} /\ Max(SlotsWithId(hs, id)) = k /\ k \in 1 .. hs.fill
  BY <1>1, <1>2, SlotIsUnique DEF SlotsWithId
<1>4. \A i \in 1 .. hs.fill : hs.mem[i].id = id <=> i = k
  BY <1>3 DEF SlotsWithId
<1>5. k # 1
  BY <1>1, <1>3, <1>4 DEF CatchAll
<1>6. rm = [mem   |-> [x \in DOMAIN hs.mem |->
                         IF k <= x /\ x < hs.fill THEN hs.mem[x + 1] ELSE hs.mem[x]],
            fill  |-> hs.fill - 1,
            alloc |-> hs.alloc]
  BY <1>3 DEF RemoveId
<1>7. /\ rm.fill = hs.fill - 1 /\ rm.fill >= 1
      /\ \A x \in 1 .. rm.fill : rm.mem[x] = IF k <= x THEN hs.mem[x + 1] ELSE hs.mem[x]
  BY <1>1, <1>3, <1>5, <1>6
<1>8. 1 .. rm.fill \subseteq DOMAIN rm.mem
  BY <1>1, RemoveOK DEF StackOK, WithinAlloc
<1> HIDE DEF rm, hs
<1>9. hs'.fill = rm.fill /\ \A x \in 1 .. rm.fill : hs'.mem[x] = rm.mem[x]
  BY <1>8 DEF RmHandler, Reachable, hs, rm
<1>10. hs'.mem[1] = CatchAll
  <2>1. 1 \in 1 .. rm.fill /\ ~(k <= 1)
    BY <1>1, <1>3, <1>5, <1>7
  <2> QED BY <1>1, <1>7, <1>9, <2>1
<1>11. ASSUME NEW d PROVE HasHandler(d)' <=> HasHandler(d) /\ d # id
  <2>1. ASSUME NEW x \in 1 .. hs'.fill, hs'.mem[x].id = d
        PROVE  \E i \in 1 .. hs.fill : hs.mem[i].id = d /\ d # id
    <3>1. x \in 1 .. rm.fill /\ x \in 1 .. hs.fill /\ x + 1 \in 1 .. hs.fill
      BY <1>1, <1>7, <1>9
    <3>2. CASE k <= x
      <4>1. hs.mem[x + 1].id = d /\ x + 1 # k
        BY <1>3, <1>7, <1>9, <2>1, <3>1, <3>2
      <4> QED BY <1>4, <3>1, <4>1
    <3>3. CASE ~(k <= x)
      <4>1. hs.mem[x].id = d /\ x # k
        BY <1>3, <1>7, <1>9, <2>1, <3>1, <3>3
      <4> QED BY <1>4, <3>1, <4>1
    <3> QED BY <3>2, <3>3
  <2>2. ASSUME NEW i \in 1 .. hs.fill, hs.mem[i].id = d, d # id
        PROVE  \E x \in 1 .. hs'.fill : hs'.mem[x].id = d
    <3>1. i # k
      BY <1>4, <2>2
    <3>2. CASE i < k
      <4>1. i \in 1 .. rm.fill /\ ~(k <= i)
        BY <1>1, <1>3, <1>7, <3>2
      <4> QED BY <1>7, <1>9, <2>2, <4>1
    <3>3. CASE i > k
      <4>1. i - 1 \in 1 .. rm.fill /\ k <= i - 1 /\ (i - 1) + 1 = i
        BY <1>1, <1>3, <1>7, <3>3
      <4>2. hs'.mem[i - 1] = hs.mem[i]
        BY <1>7, <1>9, <4>1
      <4> QED BY <1>9, <2>2, <4>1, <4>2
    <3> QED BY <1>3, <3>1, <3>2, <3>3
  <2> QED BY <2>1, <2>2 DEF HasHandler, hs
<1> QED BY <1>7, <1>9, <1>10, <1>11 DEF hs

(* ... by its owner, or by the entry of its scope.                           *)
LEMMA HandlersReleased ==
  ASSUME HandlersExact, SigStacksOK, NEW id \in held, RmHandler(id),
         held' = held \ {id}, unwind_stack' = unwind_stack
  PROVE  HandlersExact'
<1>1. id \notin {0, 1} /\ HasHandler(id) /\ ~WillRemove(id)
  BY DEF HandlersExact
<1>2. /\ sig_handler_stack'.fill >= 1 /\ sig_handler_stack'.mem[1] = CatchAll
      /\ \A d : HasHandler(d)' <=> HasHandler(d) /\ d # id
  BY <1>1, HandlerRemoved
<1>3. \A d : WillRemove(d)' <=> WillRemove(d)
  BY DEF WillRemove, Removes
<1>4. \A x : Removes(x)' <=> Removes(x)
  BY DEF Removes
<1> QED BY <1>1, <1>2, <1>3, <1>4 DEF HandlersExact

LEMMA HandlersScopeLeft ==
  ASSUME HandlersExact, SigStacksOK, UnwindOK(unwind_stack), unwind_stack.fill > 0,
         unwind_stack' = Pop(unwind_stack), Removes(unwind_stack.fill),
         RmHandler(unwind_stack.mem[unwind_stack.fill].arg), held' = held
  PROVE  HandlersExact'
<1> DEFINE f == unwind_stack.fill
<1>1. PICK id : id = unwind_stack.mem[f].arg
  OBVIOUS
<1>2. f \in 1 .. f
  BY RemovalsPopped
<1>3. WillRemove(id) /\ id # 0
  BY <1>1, <1>2 DEF WillRemove, Removes
<1>4. id \notin {0, 1} /\ HasHandler(id) /\ id \notin held
  BY <1>3 DEF HandlersExact
<1>5. /\ sig_handler_stack'.fill >= 1 /\ sig_handler_stack'.mem[1] = CatchAll
      /\ \A d : HasHandler(d)' <=> HasHandler(d) /\ d # id
  BY <1>1, <1>4, HandlerRemoved
<1>6. /\ \A x \in 1 .. unwind_stack'.fill :
           /\ x \in 1 .. f /\ x # f
           /\ unwind_stack'.mem[x] = unwind_stack.mem[x] /\ (Removes(x)' <=> Removes(x))
      /\ \A x \in 1 .. f : x \in 1 .. unwind_stack'.fill \/ x = f
  BY RemovalsPopped
<1>7. \A x \in 1 .. f : Removes(x) /\ unwind_stack.mem[x].arg = id => x = f
  BY <1>1, <1>2 DEF HandlersExact
<1> HIDE DEF f
<1>8. \A d : WillRemove(d)' <=> WillRemove(d) /\ d # id
  <2>1. ASSUME NEW d, WillRemove(d)' PROVE WillRemove(d) /\ d # id
    <3>1. PICK x \in 1 .. unwind_stack'.fill : Removes(x)' /\ unwind_stack'.mem[x].arg = d
      BY <2>1 DEF WillRemove
    <3> QED BY <1>6, <1>7, <3>1 DEF WillRemove, f
  <2>2. ASSUME NEW d, WillRemove(d), d # id PROVE WillRemove(d)'
    <3>1. PICK x \in 1 .. f : Removes(x) /\ unwind_stack.mem[x].arg = d
      BY <2>2 DEF WillRemove, f
    <3>2. x # f
      BY <1>1, <2>2, <3>1
    <3>3. x \in 1 .. unwind_stack'.fill
      BY <1>6, <3>2
    <3> QED BY <1>6, <3>1, <3>3 DEF WillRemove
  <2> QED BY <2>1, <2>2
<1>9. \A x, y \in 1 .. unwind_stack'.fill :
        Removes(x)' /\ Removes(y)' /\ unwind_stack'.mem[x].arg = unwind_stack'.mem[y].arg => x = y
  BY <1>6 DEF HandlersExact, f
<1> QED BY <1>4, <1>5, <1>8, <1>9 DEF HandlersExact

(* A loop of the library, or the end of a scope, calls the top entry of the  *)
(* unwind stack and takes it off.                                            *)
LEMMA HandlersCall ==
  ASSUME HandlersExact, SigStacksOK, UnwindOK(unwind_stack), unwind_stack.fill > 0,
         unwind_stack' = Pop(unwind_stack), NEW fs, NEW base,
         CallAction(unwind_stack.mem[unwind_stack.fill], fs, base)
  PROVE  HandlersExact'
<1>1. PICK e : e = unwind_stack.mem[unwind_stack.fill]
  OBVIOUS
<1>2. CallAction(e, fs, base)
  BY <1>1
<1>3. CASE e.h # "rm_handler"
  <2>1. ~Removes(unwind_stack.fill)
    BY <1>1, <1>3 DEF Removes
  <2>2. UNCHANGED <<sig_handler_stack, held>>
    BY <1>2, <1>3 DEF CallAction, sigVars
  <2> QED BY <2>1, <2>2, HandlersOtherPopped
<1>4. CASE e.h = "rm_handler"
  <2>1. RmHandler(e.arg) /\ held' = held
    BY <1>2, <1>4 DEF CallAction
  <2>2. CASE e.arg = 0
    <3>1. ~Removes(unwind_stack.fill)
      BY <1>1, <2>2 DEF Removes
    <3>2. sig_handler_stack' = sig_handler_stack
      BY <2>1, <2>2 DEF RmHandler
    <3> QED BY <2>1, <3>1, <3>2, HandlersOtherPopped
  <2>3. CASE e.arg # 0
    <3>1. Removes(unwind_stack.fill)
      BY <1>1, <1>4, <2>3 DEF Removes
    <3> QED BY <1>1, <2>1, <3>1, HandlersScopeLeft
  <2> QED BY <2>2, <2>3
<1> QED BY <1>3, <1>4

LEMMA TopEntry ==
  ASSUME ScopesInv, HasEntry(Top)
  PROVE  unwind_stack.fill > 0 /\ unwind_stack.mem[unwind_stack.fill] = EntryOf(Top)
<1>1. PICK g : Match(g)
  BY DEF ScopesInv
<1>2. /\ unwind_stack.fill = g[Len(stack) - 1] + 1 /\ g[Len(stack) - 1] \in Nat
      /\ unwind_stack.mem[unwind_stack.fill] = EntryOf(Top)
  BY <1>1, TopIs
<1> QED BY <1>2

LEMMA HandlersUser ==
  ASSUME HandlersExact, ScopesInv, sig_stacks = "live", sig_stacks' = "live", UserStep
  PROVE  HandlersExact'
<1>0. SigStacksOK /\ UnwindOK(unwind_stack)
  BY DEF ScopesInv
<1>1. CASE UNCHANGED <<sig_handler_stack, held, unwind_stack>>
  BY <1>1, HandlersSame
<1>2. ASSUME NEW n, NEW always, UnwindAction(n, always) PROVE HandlersExact'
  <2>1. PICK e : e = [h |-> "user", arg |-> n]
    OBVIOUS
  <2>2. unwind_stack' = Push(unwind_stack, e) /\ e.h # "rm_handler"
    BY <1>2, <2>1 DEF UnwindAction
  <2> QED BY <1>0, <1>2, <2>2, HandlersOtherPushed DEF UnwindAction, sigVars
<1>3. ASSUME NEW sig, AutopopHandler(sig) PROVE HandlersExact'
  BY <1>0, <1>3, HandlersScopeOpened DEF AutopopHandler
<1>4. CASE AutopopNullHandler
  <2>1. PICK e : e = [h |-> "rm_handler", arg |-> 0]
    OBVIOUS
  <2>2. unwind_stack' = Push(unwind_stack, e) /\ e.arg = 0
    BY <1>4, <2>1 DEF AutopopNullHandler
  <2> QED BY <1>0, <1>4, <2>2, HandlersOtherPushed DEF AutopopNullHandler, sigVars
<1>5. ASSUME NEW sig, NEW rst, NEW p, PushRestart(sig, rst, p),
             UNCHANGED <<sig_handler_stack, held>>
      PROVE  HandlersExact'
  <2>1. PICK e : e = [h |-> "rm_restart", arg |-> NextId(sig_restart_stack, 0)]
    OBVIOUS
  <2>2. unwind_stack' = Push(unwind_stack, e) /\ e.h # "rm_handler"
    BY <1>5, <2>1 DEF PushRestart
  <2> QED BY <1>0, <1>5, <2>2, HandlersOtherPushed
<1>6. ASSUME NEW mode, NEW sig, NEW rst, ProvideRestart(mode, sig, rst) PROVE HandlersExact'
  BY <1>5, <1>6 DEF ProvideRestart
<1>7. CASE ReprovideRestart
  BY <1>5, <1>7 DEF ReprovideRestart
<1>8. CASE LeaveScope
  <2>1. HasEntry(Top) /\ unwind_stack' = Pop(unwind_stack)
    BY <1>8 DEF LeaveScope
  <2>2. PICK base : CallAction(EntryOf(Top), Below, base)
    BY <1>8 DEF LeaveScope
  <2>3. unwind_stack.fill > 0 /\ CallAction(unwind_stack.mem[unwind_stack.fill], Below, base)
    BY <2>1, <2>2, TopEntry
  <2> QED BY <1>0, <2>1, <2>3, HandlersCall
<1>9. CASE LeaveExplicitScope
  <2>1. /\ Top.k = "action" /\ unwind_stack' = Pop(unwind_stack)
        /\ UNCHANGED <<sig_handler_stack, held>>
    BY <1>9 DEF LeaveExplicitScope, Explicit, sigVars
  <2>2. HasEntry(Top) /\ EntryOf(Top).h = "user"
    BY <2>1 DEF HasEntry, EntryOf
  <2>3. unwind_stack.fill > 0 /\ ~Removes(unwind_stack.fill)
    BY <2>2, TopEntry DEF Removes
  <2> QED BY <1>0, <2>1, <2>3, HandlersOtherPopped
<1>10. CASE ActionReturns
  <2>1. Top.k = "action_body" /\ UNCHANGED <<sig_handler_stack, held>>
    BY <1>10 DEF ActionReturns, sigVars
  <2>2. Len(stack) > 1
    BY <2>1, NotMain
  <2>3. Len(stack) - 1 \in 1 .. Len(stack)
    BY <2>2, LengthIs DEF ScopesInv, Shape
  <2>4. stack[Len(stack) - 1].k # "cleanup"
    BY <2>3 DEF ScopesInv
  <2> QED BY <1>10, <2>1, <2>4, HandlersSame DEF ActionReturns
<1>11. ASSUME NEW sig, PersistentHandler(sig) PROVE HandlersExact'
  BY <1>0, <1>11, HandlersHeld DEF PersistentHandler
<1>12. ASSUME NEW id \in held, RmPersistentHandler(id) PROVE HandlersExact'
  BY <1>0, <1>12, HandlersReleased DEF RmPersistentHandler
<1>13. CASE ThreadCleansUp \/ ThreadUnwindCleanup
  BY <1>13 DEF ThreadCleansUp, ThreadUnwindCleanup, SigCleanup
<1>14. \/ UNCHANGED <<sig_handler_stack, held, unwind_stack>>
       \/ \E n \in Acts, always \in BOOLEAN : UnwindAction(n, always)
       \/ \E sig \in HandlerSigs : AutopopHandler(sig)
       \/ AutopopNullHandler
       \/ \E mode \in Modes \ {"plain"}, sig \in RestartSigs, rst \in Restarts :
            ProvideRestart(mode, sig, rst)
       \/ ReprovideRestart
       \/ LeaveScope \/ LeaveExplicitScope \/ ActionReturns
       \/ \E sig \in HandlerSigs : PersistentHandler(sig)
       \/ \E id \in held : RmPersistentHandler(id)
       \/ ThreadCleansUp \/ ThreadUnwindCleanup
  BY DEF UserStep, ReturnPoint, LeavePoint, HandlerReturns, UnwindInit, UnwindRelease, Unwind,
         Send, AssertHandler, sigVars
<1> QED BY <1>1, <1>2, <1>3, <1>4, <1>6, <1>7, <1>8, <1>9, <1>10, <1>11, <1>12, <1>13, <1>14

LEMMA HandlersLibrary ==
  ASSUME HandlersExact, ScopesInv, sig_stacks = "live", sig_stacks' = "live", LibraryStep
  PROVE  HandlersExact'
<1>0. SigStacksOK /\ UnwindOK(unwind_stack)
  BY DEF ScopesInv
<1>1. CASE UNCHANGED <<sig_handler_stack, held, unwind_stack>>
  BY <1>1, HandlersSame
<1>2. CASE UnwindNext
  <2>1. PICK g : Match(g)
    BY DEF ScopesInv
  <2>2. Top.k = "unwind" /\ Top.i > stack[Top.p].to /\ unwind_stack' = Pop(unwind_stack)
    BY <1>2 DEF UnwindNext, UnwindMore
  <2>3. Top.i = unwind_stack.fill /\ stack[Top.p].to \in Nat
    BY <2>1, <2>2, TargetIs
  <2>4. unwind_stack.fill > 0
    <3>1. unwind_stack.fill \in Nat
      BY <2>1, TopIs
    <3> QED BY <2>2, <2>3, <3>1
  <2>5. PICK fs, base : CallAction(unwind_stack.mem[Top.i], fs, base)
    BY <1>2 DEF UnwindNext
  <2>6. CallAction(unwind_stack.mem[unwind_stack.fill], fs, base)
    BY <2>3, <2>5
  <2> QED BY <1>0, <2>2, <2>4, <2>6, HandlersCall
<1>3. CASE CleanupNext
  <2>1. Top.k = "cleanup"
    BY <1>3 DEF CleanupNext
  <2>2. Len(stack) \in 1 .. Len(stack)
    BY LengthIs DEF ScopesInv, Shape
  <2> QED BY <2>1, <2>2 DEF ScopesInv, Top
<1>4. CASE CatchallCleansUp
  BY <1>4 DEF CatchallCleansUp, SigCleanup
<1>5. \/ UNCHANGED <<sig_handler_stack, held, unwind_stack>>
      \/ UnwindNext \/ CleanupNext \/ CatchallCleansUp
  BY DEF LibraryStep, UnwindDone, SendNext, ReportFails, ReportAndRaise, UnwindAll,
         ReportOverflows, ExitThread, CleanupDone, UseAfterFree, UndefinedBehaviour, sigVars
<1> QED BY <1>1, <1>2, <1>3, <1>4, <1>5

LEMMA StaysFreed ==
  ASSUME [Next]_vars, sig_stacks # "live", sig_stacks \in {"live", "freed"}
  PROVE  sig_stacks' # "live"
<1>1. CASE sig_stacks' = sig_stacks
  BY <1>1
<1>2. CASE UserStep /\ sig_stacks' # sig_stacks
  BY <1>2 DEF UserStep, UnwindAction, AutopopHandler, AutopopNullHandler, ProvideRestart,
      ReturnPoint, ReprovideRestart, LeaveScope, CallAction, LeaveExplicitScope, LeavePoint,
      ActionReturns, HandlerReturns, PersistentHandler, RmPersistentHandler, UnwindInit,
      UnwindRelease, Unwind, Send, AssertHandler, ThreadCleansUp, SigCleanup,
      ThreadUnwindCleanup, sigVars
<1>3. CASE LibraryStep /\ sig_stacks' # sig_stacks
  BY <1>3 DEF LibraryStep, UnwindNext, CallAction, UnwindDone, SendNext, ReportFails,
      ReportAndRaise, UnwindAll, CatchallCleansUp, SigCleanup, ReportOverflows, ExitThread, CleanupNext,
      CleanupDone, UseAfterFree, UndefinedBehaviour, sigVars
<1> QED BY <1>1, <1>2, <1>3 DEF Next, Ended, vars

LEMMA HandlersNext ==
  ASSUME HandlersInv, ScopesInv, sig_stacks \in {"live", "freed"}, [Next]_vars
  PROVE  HandlersInv'
<1> SUFFICES ASSUME sig_stacks' = "live" PROVE HandlersExact'
  BY DEF HandlersInv
<1>1. sig_stacks = "live" /\ HandlersExact
  BY StaysFreed DEF HandlersInv
<1>2. ASSUME UNCHANGED vars PROVE HandlersExact'
  BY <1>1, <1>2, HandlersSame DEF vars
<1> QED BY <1>1, <1>2, HandlersUser, HandlersLibrary DEF Next, Ended

(* Things that are told apart by F are as many as their values.              *)
LEMMA CountValues ==
  ASSUME NEW S, IsFiniteSet(S), NEW T, NEW F, DOMAIN F = S, F = [x \in S |-> F[x]],
         \A t : t \in T <=> \E x \in S : F[x] = t,
         \A x, y \in S : F[x] = F[y] => x = y
  PROVE  IsFiniteSet(T) /\ Cardinality(T) = Cardinality(S)
<1>1. F \in [S -> T] /\ \A t \in T : \E x \in S : F[x] = t
  OBVIOUS
<1>2. F \in Surjection(S, T) /\ F \in Injection(S, T)
  BY <1>1 DEF Surjection, Injection, IsInjective
<1> QED BY <1>2, FS_Surjection

LEMMA CountDisjoint ==
  ASSUME NEW S, NEW T, IsFiniteSet(S), IsFiniteSet(T), S \cap T = {}
  PROVE  IsFiniteSet(S \cup T) /\ Cardinality(S \cup T) = Cardinality(S) + Cardinality(T)
<1>1. PICK s, t, u : s = Cardinality(S) /\ t = Cardinality(T) /\ u = Cardinality(S \cup T)
  OBVIOUS
<1>2. Cardinality(S \cap T) = 0
  BY FS_EmptySet
<1>3. IsFiniteSet(S \cup T) /\ u = s + t - Cardinality(S \cap T)
  BY <1>1, FS_Union
<1>4. s \in Nat /\ t \in Nat
  BY <1>1, FS_CardinalityType
<1>5. u = s + t
  BY <1>2, <1>3, <1>4
<1> QED BY <1>1, <1>3, <1>5

LEMMA CountTo ==
  ASSUME NEW n \in Nat
  PROVE  IsFiniteSet(1 .. n) /\ Cardinality(1 .. n) = n
<1>1. 1 \in Int /\ n \in Int
  OBVIOUS
<1>2. IsFiniteSet(1 .. n) /\ Cardinality(1 .. n) = IF 1 > n THEN 0 ELSE n - 1 + 1
  BY <1>1, FS_Interval
<1> QED BY <1>2

(* While the handler stack is there, the handlers on it are the catch-all    *)
(* handler, the persistent ones not removed, and those of the autopop scopes *)
(* whose removal is still on the unwind stack, each once: pushing, removing  *)
(* and unwinding, in any order and from anywhere, lose and leave none.       *)
THEOREM HandlersAreScoped == Spec => []HandlersScoped
<1>1. HandlersInv /\ ScopesInv => HandlersScoped
  <2> SUFFICES ASSUME HandlersExact, ScopesInv, sig_stacks = "live"
               PROVE  HandlersScoped
    BY DEF HandlersInv, HandlersScoped
  <2> DEFINE hs == sig_handler_stack
             us == unwind_stack
             n == hs.fill
             rms == {i \in 1 .. us.fill : us.mem[i].h = "rm_handler" /\ us.mem[i].arg # 0}
             ids == {e.id : e \in {hs.mem[i] : i \in 1 .. n}}
             args == {us.mem[i].arg : i \in rms}
  <2>1. n \in Nat /\ us.fill \in Nat /\ IdsIncrease(hs) /\ \A i \in 1 .. n : hs.mem[i].id \in Nat
    BY UnwindStackIs DEF ScopesInv, SigStacksOK, StackOK, WithinAlloc
  <2>2. \A id : id \in ids <=> HasHandler(id)
    BY DEF HasHandler
  <2>3. \A id : id \in args <=> WillRemove(id)
    BY DEF WillRemove, Removes
  <2>4. \A id : id \in ids <=> id = 1 \/ id \in held \/ id \in args
    BY <2>2, <2>3 DEF HandlersExact
  <2>5. IsFiniteSet(ids) /\ Cardinality(ids) = n
    <3>1. PICK F : F = [i \in 1 .. n |-> hs.mem[i].id]
      OBVIOUS
    <3>2. \A i, j \in 1 .. n : F[i] = F[j] => i = j
      <4>1. ASSUME NEW i \in 1 .. n, NEW j \in 1 .. n, F[i] = F[j], i # j PROVE FALSE
        <5>1. hs.mem[i].id = hs.mem[j].id /\ hs.mem[i].id \in Nat
          BY <2>1, <3>1, <4>1
        <5>2. i < j \/ j < i
          BY <2>1, <4>1
        <5> QED BY <2>1, <5>1, <5>2 DEF IdsIncrease
      <4> QED BY <4>1
    <3>3. IsFiniteSet(1 .. n) /\ Cardinality(1 .. n) = n
      BY <2>1, CountTo
    <3>4. \A t : t \in ids <=> \E i \in 1 .. n : F[i] = t
      BY <3>1
    <3>5. DOMAIN F = 1 .. n /\ F = [i \in 1 .. n |-> F[i]]
      BY <3>1
    <3> HIDE DEF ids, n
    <3> QED BY <3>2, <3>3, <3>4, <3>5, CountValues
  <2>6. IsFiniteSet(rms) /\ IsFiniteSet(args) /\ Cardinality(args) = Cardinality(rms)
    <3>1. IsFiniteSet(rms)
      <4>1. rms \in SUBSET (1 .. us.fill)
        OBVIOUS
      <4>2. IsFiniteSet(1 .. us.fill)
        BY <2>1, CountTo
      <4> HIDE DEF rms
      <4> QED BY <4>1, <4>2, FS_Subset
    <3>2. PICK F : F = [i \in rms |-> us.mem[i].arg]
      OBVIOUS
    <3>3. \A i, j \in rms : F[i] = F[j] => i = j
      <4>1. \A i \in rms : i \in 1 .. us.fill /\ Removes(i)
        BY DEF Removes
      <4> HIDE DEF rms
      <4> QED BY <3>2, <4>1 DEF HandlersExact
    <3>4. \A t : t \in args <=> \E i \in rms : F[i] = t
      BY <3>2
    <3>5. DOMAIN F = rms /\ F = [i \in rms |-> F[i]]
      BY <3>2
    <3> HIDE DEF args, rms
    <3> QED BY <3>1, <3>3, <3>4, <3>5, CountValues
  <2> HIDE DEF ids, args, rms, n
  <2>7. held \subseteq ids /\ IsFiniteSet(held)
    <3>1. held \in SUBSET ids
      BY <2>4
    <3> QED BY <2>5, <3>1, FS_Subset
  <2>8. {1} \cap held = {} /\ ({1} \cup held) \cap args = {}
    BY <2>3 DEF HandlersExact
  <2>9. ids = ({1} \cup held) \cup args
    BY <2>4
  <2>10. IsFiniteSet({1} \cup held) /\ Cardinality({1} \cup held) = 1 + Cardinality(held)
    <3>1. IsFiniteSet({1}) /\ Cardinality({1}) = 1
      BY FS_Singleton
    <3> QED BY <2>7, <2>8, <3>1, CountDisjoint
  <2>11. Cardinality(ids) = 1 + Cardinality(held) + Cardinality(rms)
    <3>1. Cardinality(({1} \cup held) \cup args) = Cardinality({1} \cup held) + Cardinality(args)
      BY <2>6, <2>8, <2>10, CountDisjoint
    <3> QED BY <2>6, <2>9, <2>10, <3>1
  <2>12. n = 1 + Cardinality(held) + Cardinality(rms) /\ ids = {1} \cup held \cup args
    BY <2>5, <2>9, <2>11
  <2> QED BY <2>12 DEF HandlersScoped, n, ids, args, rms
<1>2. ScopesInv => SigStacksOK
  BY DEF ScopesInv
<1>3. Init => Counted
  BY CountedInit
<1>4. Counted /\ SigStacksOK /\ [Next]_vars => Counted'
  BY CountedNext
<1>5. HandlersInv /\ ScopesInv /\ Counted /\ [Next]_vars => HandlersInv'
  BY HandlersNext DEF Counted
<1> QED BY <1>1, <1>2, <1>3, <1>4, <1>5, HandlersInit, ScopesInvariant, PTL DEF Spec

-----------------------------------------------------------------------------
-----------------------------------------------------------------------------
(* A send always has a handler left to call                                 *)

(* _sig_send has not come to the bottom of the handler stack, unless it is    *)
(* the catch-all handler that is running, which does not return.              *)
SendsLeft(st) ==
  \A k \in 1 .. Len(st) : st[k].k = "send" =>
    /\ st[k].i \in Nat
    /\ k = Len(st) \/ st[k + 1].k = "handler_body" => st[k].i >= 1

SendsInv == sig_stacks = "live" => SendsLeft(stack)

(* The new frame f at position k, c being the one above it.                   *)
Sends(f, c) ==
  f.k = "send" => f.i \in Nat /\ (c.k = "handler_body" => f.i >= 1)

LastSends(f) == f.k = "send" => f.i \in Nat /\ f.i >= 1

(* The frame below the new ones waits for a handler only if it did before.    *)
WaitsOn(m, kind) ==
  m > 0 /\ m < Len(stack) /\ stack[m].k = "send" /\ kind = "handler_body" =>
    stack[m + 1].k = "handler_body"

LEMMA SendsSame ==
  ASSUME SendsLeft(stack), UNCHANGED stack
  PROVE  SendsLeft(stack')
OBVIOUS

LEMMA SendsKept ==
  ASSUME SendsLeft(stack), ScopesInv, NEW m, NEW l, Frames(m, l), l \in Nat, m <= l,
         m = l => WaitsOn(m, "handler_body"), m < l => WaitsOn(m, stack'[m + 1].k),
         \A k \in m + 1 .. l : k = l => LastSends(stack'[k]),
         \A k \in m + 1 .. l : k < l => Sends(stack'[k], stack'[k + 1])
  PROVE  SendsLeft(stack')
<1>1. /\ m \in 0 .. Len(stack) /\ Len(stack') = l /\ Len(stack) \in Nat \ {0}
      /\ \A k \in 1 .. m : stack'[k] = stack[k]
  BY StackIs DEF Frames
<1> SUFFICES ASSUME NEW k \in 1 .. l, stack'[k].k = "send"
             PROVE  /\ stack'[k].i \in Nat
                    /\ k = l \/ stack'[k + 1].k = "handler_body" => stack'[k].i >= 1
  BY <1>1 DEF SendsLeft
<1>2. CASE k > m
  <2>1. k \in m + 1 .. l
    BY <1>1, <1>2
  <2>2. CASE k = l
    BY <2>1, <2>2 DEF LastSends
  <2>3. CASE k # l
    <3>1. k < l
      BY <2>1, <2>3
    <3> QED BY <2>1, <2>3, <3>1 DEF Sends
  <2> QED BY <2>2, <2>3
<1>3. CASE k = m
  <2>1. /\ stack'[k] = stack[k] /\ k \in 1 .. Len(stack) /\ k > 0
        /\ (k = Len(stack) \/ stack[k + 1].k = "handler_body" => stack[k].i >= 1)
        /\ stack[k].i \in Nat
    BY <1>1, <1>3 DEF SendsLeft
  <2>2. CASE k = Len(stack)
    BY <2>1, <2>2
  <2>3. CASE k # Len(stack)
    <3>1. m > 0 /\ m < Len(stack)
      BY <1>1, <1>3, <2>1, <2>3
    <3>2. (k = l \/ stack'[k + 1].k = "handler_body") => stack[k + 1].k = "handler_body"
      BY <1>1, <1>3, <2>1, <3>1 DEF WaitsOn
    <3> QED BY <2>1, <3>2
  <2> QED BY <2>2, <2>3
<1>4. CASE k < m
  <2>1. /\ k \in 1 .. m /\ k + 1 \in 1 .. m /\ k \in 1 .. Len(stack) /\ k # l /\ k # Len(stack)
    BY <1>1, <1>4
  <2> QED BY <1>1, <2>1 DEF SendsLeft
<1> QED BY <1>1, <1>2, <1>3, <1>4

(* The frames a step may change the stack with, as seen by the sends.         *)
LEMMA SendsReturn ==
  ASSUME SendsLeft(stack), ScopesInv, Len(stack) > 1, stack' = Below,
         stack[Len(stack) - 1].k # "send"
  PROVE  SendsLeft(stack')
<1>1. PICK m : m = Len(stack) - 1
  OBVIOUS
<1>2. m \in Nat /\ Frames(m, m)
  BY <1>1, StackIs, ReturnFrames
<1>3. WaitsOn(m, "handler_body") /\ m <= m /\ ~(m < m) /\ \A k : k \notin m + 1 .. m
  BY <1>1, <1>2 DEF WaitsOn
<1> QED BY <1>2, <1>3, SendsKept

LEMMA SendsPut ==
  ASSUME SendsLeft(stack), ScopesInv, NEW m, m \in Nat, NEW f, Frames1(m, f), LastSends(f),
         f.k # "handler_body"
  PROVE  SendsLeft(stack')
<1>1. Frames(m, m + 1) /\ stack'[m + 1] = f /\ m + 1 \in Nat /\ m <= m + 1 /\ m # m + 1
      /\ \A k \in m + 1 .. m + 1 : k = m + 1
  BY DEF Frames1
<1>2. WaitsOn(m, stack'[m + 1].k) /\ ~(m + 1 < m + 1)
  BY <1>1 DEF WaitsOn
<1> QED BY <1>1, <1>2, SendsKept

LEMMA SendsPutTwo ==
  ASSUME SendsLeft(stack), ScopesInv, NEW m, m \in Nat, NEW f, NEW c, Frames2(m, f, c), Sends(f, c),
         LastSends(c), f.k # "handler_body"
  PROVE  SendsLeft(stack')
<1>1. /\ Frames(m, m + 2) /\ stack'[m + 1] = f /\ stack'[m + 2] = c
      /\ m + 2 \in Nat /\ m <= m + 2 /\ m # m + 2
      /\ \A k \in m + 1 .. m + 2 : k = m + 1 \/ k = m + 2
      /\ m + 1 # m + 2 /\ m + 1 + 1 = m + 2
  BY DEF Frames2
<1>2. WaitsOn(m, stack'[m + 1].k)
  BY <1>1 DEF WaitsOn
<1>3. \A k \in m + 1 .. m + 2 : k = m + 2 => LastSends(stack'[k])
  BY <1>1
<1>4. \A k \in m + 1 .. m + 2 : k < m + 2 => Sends(stack'[k], stack'[k + 1])
  BY <1>1
<1> QED BY <1>1, <1>2, <1>3, <1>4, SendsKept

LEMMA SendsCall ==
  ASSUME SendsLeft(stack), ScopesInv, NEW f, Call(f), LastSends(f), f.k # "handler_body"
  PROVE  SendsLeft(stack')
<1>1. Frames1(Len(stack), f) /\ Len(stack) \in Nat
  BY StackIs, CallFrames DEF Call
<1> QED BY <1>1, SendsPut

(* What the functions below the top of the stack wait for.                    *)
LEMMA UserBelow ==
  ASSUME ScopesInv, Top.k \notin {"main", "handler_body", "catchall", "unwind"}
  PROVE  Len(stack) > 1 /\ stack[Len(stack) - 1].k # "send"
<1>1. Len(stack) > 1
  BY NotMain
<1>2. Len(stack) - 1 \in 1 .. Len(stack) - 1 /\ Len(stack) - 1 + 1 = Len(stack)
  BY <1>1, StackIs
<1>3. Above(stack[Len(stack) - 1], Top)
  BY <1>2 DEF ScopesInv, Shape, Top
<1> QED BY <1>1, <1>3 DEF Above

LEMMA NewSend ==
  ASSUME HandlersExact, ScopesInv, NEW sig, NEW data
  PROVE  LastSends(SendFrame(sig, data)) /\ SendFrame(sig, data).k = "send"
<1>1. sig_handler_stack.fill \in Nat /\ sig_handler_stack.fill >= 1
  BY DEF HandlersExact, ScopesInv, SigStacksOK, StackOK, WithinAlloc
<1> QED BY <1>1 DEF LastSends, SendFrame

LEMMA SendsUser ==
  ASSUME SendsLeft(stack), HandlersExact, ScopesInv, sig_stacks' = "live", UserStep
  PROVE  SendsLeft(stack')
<1>1. ASSUME NEW n, NEW always, UnwindAction(n, always) PROVE SendsLeft(stack')
  <2>1. PICK f : f = [k |-> "action", n |-> n, always |-> always]
    OBVIOUS
  <2>2. Call(f) /\ LastSends(f) /\ f.k # "handler_body"
    BY <1>1, <2>1 DEF UnwindAction, LastSends
  <2> QED BY <2>2, SendsCall
<1>2. ASSUME NEW id, Call([k |-> "handler", id |-> id]) PROVE SendsLeft(stack')
  <2>1. PICK f : f = [k |-> "handler", id |-> id]
    OBVIOUS
  <2>2. Call(f) /\ LastSends(f) /\ f.k # "handler_body"
    BY <1>2, <2>1 DEF LastSends
  <2> QED BY <2>2, SendsCall
<1>3. ASSUME NEW sig, AutopopHandler(sig) PROVE SendsLeft(stack')
  BY <1>2, <1>3 DEF AutopopHandler
<1>4. CASE AutopopNullHandler
  BY <1>2, <1>4 DEF AutopopNullHandler
<1>5. ASSUME NEW mode, NEW sig, NEW rst, ProvideRestart(mode, sig, rst) PROVE SendsLeft(stack')
  <2>1. PICK f : f = [k |-> "point", mode |-> mode, sig |-> sig, rst |-> rst, returned |-> FALSE,
                      to |-> unwind_stack.fill, id |-> NextId(sig_restart_stack, 0)]
    OBVIOUS
  <2>2. Call(f) /\ LastSends(f) /\ f.k # "handler_body"
    BY <1>5, <2>1 DEF ProvideRestart, LastSends
  <2> QED BY <2>2, SendsCall
<1>6. CASE ReturnPoint
  <2>1. PICK f : f = [k |-> "point", mode |-> "plain", returned |-> FALSE,
                      to |-> unwind_stack.fill, id |-> NoId]
    OBVIOUS
  <2>2. Call(f) /\ LastSends(f) /\ f.k # "handler_body"
    BY <1>6, <2>1 DEF ReturnPoint, LastSends
  <2> QED BY <2>2, SendsCall
<1>7. CASE ReprovideRestart
  <2>1. PICK f : f = [Top EXCEPT !.returned = FALSE, !.id = NextId(sig_restart_stack, 0)]
    OBVIOUS
  <2>2. Top.k = "point" /\ stack' = [stack EXCEPT ![Len(stack)].returned = FALSE,
                                                  ![Len(stack)].id = NextId(sig_restart_stack, 0)]
    BY <1>7 DEF ReprovideRestart
  <2>3. Len(stack) \in DOMAIN stack
    BY StackIs DEF IsSequence
  <2>4. stack' = WithTop(f)
    BY <2>1, <2>2, <2>3 DEF WithTop, Top
  <2>5. f.k = "point"
    BY <2>1, <2>2, TopFields DEF HasFields
  <2>6. Frames1(Len(stack) - 1, f) /\ Len(stack) - 1 \in Nat
    BY <2>4, RewriteFrames, StackIs
  <2> QED BY <2>5, <2>6, SendsPut DEF LastSends
<1>8. CASE LeaveScope
  <2>1. HasEntry(Top)
    BY <1>8 DEF LeaveScope
  <2>2. Len(stack) > 1 /\ stack[Len(stack) - 1].k # "send"
    BY <2>1, UserBelow DEF HasEntry
  <2>3. CASE stack' = Below
    BY <2>2, <2>3, SendsReturn
  <2>4. ASSUME NEW c, stack' = Append(Below, c), c.k = "action_body" PROVE SendsLeft(stack')
    <3>1. Frames1(Len(stack) - 1, c) /\ Len(stack) - 1 \in Nat
      BY <2>2, <2>4, TailCallFrames, StackIs
    <3> QED BY <2>4, <3>1, SendsPut DEF LastSends
  <2>5. stack' = Below \/ \E c : stack' = Append(Below, c) /\ c.k = "action_body"
    BY <1>8 DEF LeaveScope, CallAction
  <2> QED BY <2>3, <2>4, <2>5
<1>9. CASE LeaveExplicitScope \/ LeavePoint \/ ActionReturns
  <2>1. stack' = Below /\ Top.k \in {"action", "point", "action_body"}
    BY <1>9 DEF LeaveExplicitScope, Explicit, LeavePoint, ActionReturns, Return
  <2> QED BY <2>1, UserBelow, SendsReturn
<1>10. ASSUME NEW rst, HandlerReturns(rst) PROVE SendsLeft(stack')
  <2>1. PICK m : m = Len(stack) - 2
    OBVIOUS
  <2>2. PICK f, c :
          /\ m \in Nat /\ stack[Len(stack) - 1].k = "send"
          /\ f.k = "send" /\ f.i = stack[Len(stack) - 1].i
          /\ c.k = "unwind"
          /\ Frames1(m, f) \/ Frames2(m, f, c)
    BY <1>10, <2>1, HandlerReturnsFrames
  <2>3. Top.k = "handler_body"
    BY <1>10 DEF HandlerReturns
  <2>4. LastSends(f)
    <3>1. Len(stack) - 1 \in 1 .. Len(stack) /\ Len(stack) - 1 + 1 = Len(stack)
      BY <2>1, <2>2, StackIs
    <3> QED BY <2>2, <2>3, <3>1 DEF SendsLeft, LastSends, Top
  <2>5. Sends(f, c) /\ LastSends(c)
    BY <2>2, <2>4 DEF Sends, LastSends
  <2> QED BY <2>2, <2>4, <2>5, SendsPut, SendsPutTwo
<1>11. ASSUME NEW p, Unwind(p) PROVE SendsLeft(stack')
  <2>1. PICK f : f = UnwindFrame(p)
    OBVIOUS
  <2>2. Call(f) /\ LastSends(f) /\ f.k # "handler_body"
    BY <1>11, <2>1 DEF Unwind, UnwindFrame, LastSends
  <2> QED BY <2>2, SendsCall
<1>12. ASSUME NEW sig, NEW data, Call(SendFrame(sig, data)) PROVE SendsLeft(stack')
  BY <1>12, NewSend, SendsCall
<1>13. CASE UNCHANGED stack
  BY <1>13, SendsSame
<1>14. ASSUME NEW data, Send(SIGNAL_FAIL, data) PROVE SendsLeft(stack')
  BY <1>12, <1>14 DEF Send
<1>15. ASSUME NEW sig, AssertHandler(sig) PROVE SendsLeft(stack')
  BY <1>12, <1>15 DEF AssertHandler
<1>16. CASE ThreadCleansUp \/ ThreadUnwindCleanup
  BY <1>16 DEF ThreadCleansUp, ThreadUnwindCleanup, SigCleanup, sigVars
<1>17. \/ UNCHANGED stack
       \/ \E n \in Acts, always \in BOOLEAN : UnwindAction(n, always)
       \/ \E sig \in HandlerSigs : AutopopHandler(sig)
       \/ AutopopNullHandler
       \/ \E mode \in Modes \ {"plain"}, sig \in RestartSigs, rst \in Restarts :
            ProvideRestart(mode, sig, rst)
       \/ ReturnPoint \/ ReprovideRestart
       \/ LeaveScope \/ LeaveExplicitScope \/ LeavePoint \/ ActionReturns
       \/ \E rst \in Restarts \cup {SIG_RESTART_NULL} : HandlerReturns(rst)
       \/ \E p \in DOMAIN stack : Unwind(p)
       \/ \E data \in Datas : Send(SIGNAL_FAIL, data)
       \/ \E sig \in Asserts : AssertHandler(sig)
       \/ ThreadCleansUp \/ ThreadUnwindCleanup
  BY DEF UserStep, PersistentHandler, RmPersistentHandler, UnwindInit, UnwindRelease
<1> QED BY <1>1, <1>3, <1>4, <1>5, <1>6, <1>7, <1>8, <1>9, <1>10, <1>11, <1>13, <1>14, <1>15,
           <1>16, <1>17

(* The catch-all handler accepts everything, so a send finds it.              *)
LEMMA SendFinds ==
  ASSUME SendsLeft(stack), HandlersExact, ScopesInv, Top.k = "send"
  PROVE  /\ Top.i \in Nat /\ 1 \in Candidates(Top)
         /\ Max(Candidates(Top)) \in 1 .. Top.i
<1>1. Top.i \in Nat /\ Top.i >= 1
  BY StackIs DEF SendsLeft, Top
<1>2. Matches(sig_handler_stack.mem[1], Top.sig)
  BY DEF HandlersExact, CatchAll, Matches
<1>3. 1 \in Candidates(Top)
  BY <1>1, <1>2 DEF Candidates
<1>4. Candidates(Top) \subseteq 1 .. Top.i
  BY DEF Candidates
<1>5. Max(Candidates(Top)) \in Candidates(Top)
  BY <1>1, <1>3, <1>4, MaxOf
<1> QED BY <1>1, <1>3, <1>4, <1>5

LEMMA SendNextFrames ==
  ASSUME SendsLeft(stack), HandlersExact, ScopesInv, SendNext
  PROVE  \E j, f, c : /\ Frames2(Len(stack) - 1, f, c)
                      /\ j \in 1 .. Top.i /\ Top.i \in Nat /\ c = CalledFrame(sig_handler_stack.mem[j])
                      /\ f.k = "send" /\ f.i = j - 1 /\ f.called = Top.called
<1>1. Top.k = "send" /\ Candidates(Top) # {} /\ Top.i \in Nat
  BY SendFinds DEF SendNext
<1>2. PICK j : j = Max(Candidates(Top)) /\ j \in 1 .. Top.i
  BY <1>1, SendFinds
<1>3. PICK f, c : f = [Top EXCEPT !.i = j - 1] /\ c = CalledFrame(sig_handler_stack.mem[j])
  OBVIOUS
<1>4. [stack EXCEPT ![Len(stack)].i = j - 1] = WithTop(f)
  BY <1>3, FieldOfTop
<1>5. stack' = Append(WithTop(f), c)
  BY <1>1, <1>2, <1>3, <1>4 DEF SendNext
<1>6. f.k = "send" /\ f.i = j - 1 /\ f.called = Top.called
  BY <1>1, <1>3, TopFields DEF HasFields
<1> QED BY <1>1, <1>2, <1>3, <1>5, <1>6, RewriteCallFrames

LEMMA SendsLibrary ==
  ASSUME SendsLeft(stack), HandlersExact, ScopesInv, sig_stacks = "live", sig_stacks' = "live",
         LibraryStep
  PROVE  SendsLeft(stack')
<1>0. PICK m : m = Len(stack) - 1 /\ m \in Nat
  BY StackIs
<1>1. CASE UnwindNext
  <2>1. PICK f, c : /\ f.k = "unwind" /\ c.k = "action_body"
                    /\ Frames1(m, f) \/ Frames2(m, f, c)
    BY <1>0, <1>1, UnwindNextFrames
  <2>2. LastSends(f) /\ LastSends(c) /\ Sends(f, c)
    BY <2>1 DEF LastSends, Sends
  <2> QED BY <1>0, <2>1, <2>2, SendsPut, SendsPutTwo
<1>2. CASE UnwindDone
  <2>1. PICK f, p : p \in 1 .. Len(stack) - 1 /\ f.k = "point" /\ Frames1(p - 1, f)
    BY <1>2, UnwindDoneFrames
  <2>2. p - 1 \in Nat /\ LastSends(f)
    BY <1>0, <2>1 DEF LastSends
  <2> QED BY <2>1, <2>2, SendsPut
<1>3. CASE SendNext
  <2>1. PICK j, f, c : /\ Frames2(m, f, c)
                       /\ j \in 1 .. Top.i /\ Top.i \in Nat
                       /\ c = CalledFrame(sig_handler_stack.mem[j])
                       /\ f.k = "send" /\ f.i = j - 1
    BY <1>0, <1>3, SendNextFrames
  <2>2. j = 1 => c.k = "catchall"
    BY <2>1 DEF HandlersExact, CatchAll, CalledFrame
  <2>3. Sends(f, c)
    BY <2>1, <2>2 DEF Sends
  <2>4. LastSends(c)
    BY <2>1 DEF LastSends, CalledFrame
  <2> QED BY <1>0, <2>1, <2>3, <2>4, SendsPutTwo
<1>4. CASE ReportFails
  <2>1. Call(SendFrame(SIGNAL_FAIL, "none"))
    BY <1>4 DEF ReportFails
  <2> QED BY <2>1, NewSend, SendsCall
<1>5. ASSUME NEW s, s \in {"raised", "asked"}, Top.k = "catchall", stack' = GoTo(s)
      PROVE  SendsLeft(stack')
  <2>1. PICK f : f = [Top EXCEPT !.stage = s]
    OBVIOUS
  <2>2. stack' = WithTop(f)
    BY <1>5, <2>1, FieldOfTop DEF GoTo
  <2>3. f.k = "catchall"
    BY <1>5, <2>1, TopFields DEF HasFields
  <2>4. Frames1(m, f) /\ LastSends(f)
    BY <1>0, <2>2, <2>3, RewriteFrames DEF LastSends
  <2> QED BY <1>0, <2>3, <2>4, SendsPut
<1>6. CASE ReportAndRaise \/ UnwindAll
  BY <1>5, <1>6 DEF ReportAndRaise, UnwindAll, AtStage
<1>7. CASE CatchallCleansUp
  BY <1>7 DEF CatchallCleansUp, SigCleanup
<1>8. CASE CleanupNext \/ CleanupDone
  <2>1. Top.k = "cleanup"
    BY <1>8 DEF CleanupNext, CleanupDone
  <2>2. Len(stack) \in 1 .. Len(stack)
    BY StackIs
  <2> QED BY <2>1, <2>2 DEF ScopesInv, Top
<1>9. CASE UNCHANGED stack
  BY <1>9, SendsSame
<1>10. \/ UnwindNext \/ UnwindDone \/ SendNext \/ ReportFails \/ ReportAndRaise \/ UnwindAll
       \/ CatchallCleansUp \/ CleanupNext \/ CleanupDone \/ UNCHANGED stack
  BY DEF LibraryStep, ReportOverflows, ExitThread, UseAfterFree, UndefinedBehaviour
<1> QED BY <1>1, <1>2, <1>3, <1>4, <1>6, <1>7, <1>8, <1>9, <1>10

LEMMA SendsNext ==
  ASSUME SendsInv, HandlersInv, ScopesInv, sig_stacks \in {"live", "freed"}, [Next]_vars
  PROVE  SendsInv'
<1> SUFFICES ASSUME sig_stacks' = "live" PROVE SendsLeft(stack')
  BY DEF SendsInv
<1>1. sig_stacks = "live" /\ SendsLeft(stack) /\ HandlersExact
  BY StaysFreed DEF SendsInv, HandlersInv
<1>2. ASSUME UNCHANGED vars PROVE SendsLeft(stack')
  BY <1>1, <1>2, SendsSame DEF vars
<1> QED BY <1>1, <1>2, SendsUser, SendsLibrary DEF Next, Ended

LEMMA SendsInit == Init => SendsInv
<1> SUFFICES ASSUME Init PROVE SendsLeft(stack)
  BY DEF SendsInv
<1>1. stack = <<[k |-> "main"]>>
  BY DEF Init
<1>2. Len(stack) = 1 /\ stack[1].k = "main"
  BY <1>1
<1>3. \A k \in 1 .. Len(stack) : stack[k].k = "main"
  BY <1>2
<1> QED BY <1>3 DEF SendsLeft

(* While _sig_send is running its loop, nothing but the loop goes on.         *)
LEMMA SendSteps ==
  ASSUME ScopesInv, Top.k = "send", Next
  PROVE  SendNext \/ UNCHANGED stack
<1>1. Len(stack) # 1
  <2>1. 1 \in 1 .. Len(stack)
    BY StackIs
  <2> QED BY <2>1 DEF ScopesInv, Shape, Top
<1>2. CASE UserStep
  BY <1>1, <1>2 DEF UserStep, UserCalls, UserRuns, UnwindAction, AutopopHandler,
      AutopopNullHandler, ProvideRestart, ReturnPoint, ReprovideRestart, LeaveScope,
      LeaveExplicitScope, LeavePoint, ActionReturns, HandlerReturns, PersistentHandler,
      RmPersistentHandler, UnwindInit, UnwindRelease, Unwind, Send, AssertHandler,
      ThreadCleansUp, ThreadUnwindCleanup
<1>3. CASE LibraryStep
  BY <1>3 DEF LibraryStep, UnwindNext, UnwindDone, ReportFails, ReportAndRaise, UnwindAll, AtStage,
      CatchallCleansUp, ReportOverflows, ExitThread, CleanupNext, CleanupDone, UseAfterFree, UndefinedBehaviour
<1> QED BY <1>2, <1>3 DEF Next, Ended, vars

(* _sig_send never returns to the code that sent the signal, however many     *)
(* handlers fall through, send, unwind or are removed meanwhile: there is     *)
(* always a handler left to call, down to the catch-all handler (signals.c,   *)
(* _sig_send and catchall_handler).                                           *)
THEOREM SendsDoNotReturn == Spec => SendNeverReturns
<1>1. SendsInv /\ HandlersInv /\ ScopesInv /\ sig_stacks \in {"live", "freed"} /\ [Next]_vars =>
        [Top.k = "send" => Len(stack') >= Len(stack)]_vars
  <2> SUFFICES ASSUME SendsInv, HandlersInv, ScopesInv, sig_stacks \in {"live", "freed"}, Next,
                      Top.k = "send"
               PROVE  Len(stack') >= Len(stack)
    OBVIOUS
  <2>1. PICK n : n = Len(stack) /\ n \in Nat \ {0}
    BY StackIs
  <2>2. CASE UNCHANGED stack
    BY <2>1, <2>2
  <2>3. CASE SendNext
    <3>1. SendsLeft(stack) /\ HandlersExact
      BY <2>3 DEF SendNext, SendsInv, HandlersInv
    <3>2. Len(stack') = n - 1 + 2
      BY <2>1, <2>3, <3>1, SendNextFrames DEF Frames2, Frames
    <3> QED BY <2>1, <3>2
  <2> QED BY <2>2, <2>3, SendSteps
<1>2. ScopesInv => SigStacksOK
  BY DEF ScopesInv
<1>3. Counted => sig_stacks \in {"live", "freed"}
  BY DEF Counted
<1>4. SendsInv /\ HandlersInv /\ ScopesInv /\ Counted /\ [Next]_vars => SendsInv'
  BY <1>3, SendsNext
<1>5. HandlersInv /\ ScopesInv /\ Counted /\ [Next]_vars => HandlersInv'
  BY <1>3, HandlersNext
<1>6. SendsInv /\ HandlersInv /\ ScopesInv /\ Counted /\ [Next]_vars =>
        [Top.k = "send" => Len(stack') >= Len(stack)]_vars
  BY <1>1, <1>3
<1> QED BY <1>2, <1>4, <1>5, <1>6, SendsInit, HandlersInit, CountedInit, CountedNext,
           ScopesInvariant, PTL DEF Spec, SendNeverReturns

-----------------------------------------------------------------------------
(* A send calls no handler twice, unless somebody removes a persistent one  *)

(* Every handler the loop of a _sig_send f has yet to look at is older than  *)
(* the one with id x.                                                        *)
Deeper(f, x) == \A j \in 1 .. f.i : sig_handler_stack.mem[j].id < x

(* So are they than the handlers it has called, the one that runs, and those *)
(* of the scopes that were opened since.                                     *)
SendDown(k, g) ==
  /\ stack[k].i \in 0 .. sig_handler_stack.fill
  /\ \A x \in stack[k].called : Deeper(stack[k], x)
  /\ k < Len(stack) /\ stack[k + 1].k = "handler_body" => Deeper(stack[k], stack[k + 1].id)
  /\ \A x \in 1 .. unwind_stack.fill :
       x > g[k] /\ Removes(x) => Deeper(stack[k], unwind_stack.mem[x].arg)

(* ... as long as no _unwind has come to what is below the send, which then  *)
(* never goes on.                                                            *)
SendsDown(g) ==
  \A k \in 1 .. Len(stack) : stack[k].k = "send" /\ Stays(stack, g, k) => SendDown(k, g)

CallsNew(f, c) == f.k = "send" /\ c.k = "handler_body" => c.id \notin f.called

NoneTwice(st) == \A k \in 1 .. Len(st) - 1 : CallsNew(st[k], st[k + 1])

DownInv ==
  /\ sig_stacks = "live" => unwind_init_ref > 0
  /\ NoneTwice(stack)
  /\ sig_stacks = "live" => \A g : Match(g) => SendsDown(g)

(* Every handler that is there is older than the one with id a.              *)
Newest(a) == \A j \in 1 .. sig_handler_stack.fill : sig_handler_stack.mem[j].id < a

(* What a step does to the handlers: pushes one, or calls the top entry of   *)
(* the unwind stack that removes one.                                        *)
HandlersGrow ==
  /\ sig_handler_stack.fill <= sig_handler_stack'.fill
  /\ \A j \in 1 .. sig_handler_stack.fill : sig_handler_stack'.mem[j] = sig_handler_stack.mem[j]

HandlersShrink ==
  /\ unwind_stack.fill > 0 /\ unwind_stack'.fill = unwind_stack.fill - 1
  /\ Removes(unwind_stack.fill) /\ RmHandler(unwind_stack.mem[unwind_stack.fill].arg)

RemovalsGrow ==
  \A x \in 1 .. unwind_stack'.fill : Removes(x)' =>
    \/ x \in 1 .. unwind_stack.fill /\ Removes(x) /\ unwind_stack'.mem[x] = unwind_stack.mem[x]
    \/ Newest(unwind_stack'.mem[x].arg)

HandlerEffect == RemovalsGrow /\ (HandlersGrow \/ HandlersShrink)

(* Taking out an entry leaves those below it where they are.                 *)
LEMMA BelowRemoved ==
  ASSUME SigStacksOK, NEW id, RmHandler(id), NEW n \in 0 .. sig_handler_stack.fill,
         \A j \in 1 .. n : sig_handler_stack.mem[j].id < id
  PROVE  /\ n <= sig_handler_stack'.fill
         /\ \A j \in 1 .. n : sig_handler_stack'.mem[j] = sig_handler_stack.mem[j]
<1> DEFINE hs == sig_handler_stack
           rm == RemoveId(hs, id)
<1>1. /\ StackOK(hs) /\ hs.fill \in Nat /\ 1 .. hs.fill \subseteq DOMAIN hs.mem
      /\ \A i \in 1 .. hs.fill : hs.mem[i].id \in Nat
  BY DEF SigStacksOK, StackOK, WithinAlloc
<1>2. CASE id = 0
  BY <1>1, <1>2 DEF RmHandler
<1>3. n <= rm.fill /\ \A j \in 1 .. n : rm.mem[j] = hs.mem[j]
  <2>1. CASE SlotsWithId(hs, id) = {}
    BY <1>1, <2>1 DEF RemoveId
  <2>2. CASE SlotsWithId(hs, id) # {}
    <3>1. PICK k \in SlotsWithId(hs, id) : TRUE
      BY <2>2
    <3>2. Max(SlotsWithId(hs, id)) = k /\ k \in 1 .. hs.fill /\ hs.mem[k].id = id
      BY <1>1, <3>1, SlotIsUnique DEF SlotsWithId
    <3>3. k > n
      <4>1. k \notin 1 .. n
        BY <1>1, <3>2
      <4> QED BY <1>1, <3>2, <4>1
    <3>4. rm = [mem   |-> [x \in DOMAIN hs.mem |->
                             IF k <= x /\ x < hs.fill THEN hs.mem[x + 1] ELSE hs.mem[x]],
                fill  |-> hs.fill - 1,
                alloc |-> hs.alloc]
      BY <2>2, <3>2 DEF RemoveId
    <3>5. \A j \in 1 .. n : j \in 1 .. hs.fill /\ ~(k <= j)
      BY <1>1, <3>2, <3>3
    <3> QED BY <1>1, <3>2, <3>3, <3>4, <3>5
  <2> QED BY <2>1, <2>2
<1>4. 1 .. rm.fill \subseteq DOMAIN rm.mem /\ rm.fill \in Nat
  BY <1>1, RemoveOK DEF StackOK, WithinAlloc
<1> HIDE DEF rm, hs
<1>5. CASE id # 0
  <2>1. hs'.fill = rm.fill /\ \A x \in 1 .. rm.fill : hs'.mem[x] = rm.mem[x]
    BY <1>4, <1>5 DEF RmHandler, Reachable, hs, rm
  <2>2. \A j \in 1 .. n : j \in 1 .. rm.fill
    BY <1>3, <1>4 DEF hs
  <2> QED BY <1>3, <2>1, <2>2 DEF hs
<1> QED BY <1>2, <1>5

(* The lowest n entries of the handler stack are the same after a step.      *)
SameLow(n) ==
  /\ n <= sig_handler_stack'.fill
  /\ \A j \in 1 .. n : sig_handler_stack'.mem[j] = sig_handler_stack.mem[j]

(* Every frame below the top has its entries where they are, once the frames *)
(* above it are gone that had given them up.                                 *)
Covers(m) ==
  \A g, h : Match(g) /\ Match(h)' =>
    \E w \in m .. Len(stack') : \A j \in m + 1 .. Len(stack) : g[j] >= h[w]

LEMMA LiveSettles ==
  ASSUME ScopesInv, sig_stacks = "live", unwind_init_ref > 0, unwind_init_ref' > 0,
         NEW m \in 0 .. Len(stack)
  PROVE  Settled(m)
<1> SUFFICES ASSUME m > 0 PROVE stack[m].k # "cleanup"
  BY DEF Settled
<1>1. m \in 1 .. Len(stack)
  BY StackIs
<1> QED BY <1>1 DEF ScopesInv

LEMMA DownKept ==
  ASSUME ScopesInv, ScopesInv', sig_stacks = "live", unwind_init_ref > 0, unwind_init_ref' > 0,
         NEW g, NEW h, Match(g), Match(h)', SendsDown(g), HandlerEffect,
         NEW m, NEW l, Frames(m, l), m <= l, Covers(m),
         m > 0 /\ m < l /\ stack[m].k = "send" => stack'[m + 1].k # "handler_body",
         \A k \in m + 1 .. l : stack'[k].k = "send" => SendDown(k, h)'
  PROVE  SendsDown(h)'
<1>1. /\ m \in 0 .. Len(stack) /\ Len(stack') = l /\ \A k \in 1 .. m : stack'[k] = stack[k]
  BY DEF Frames
<1>2. /\ Len(stack) \in Nat /\ g \in [0 .. Len(stack) -> Nat]
      /\ g[Len(stack)] = unwind_stack.fill /\ unwind_stack.fill \in Nat
  BY OldHeightsAre
<1>3. /\ l \in Nat /\ h \in [0 .. l -> Nat]
      /\ h[l] = unwind_stack'.fill /\ unwind_stack'.fill \in Nat
  BY <1>1, NewHeightsAre
<1>4. \A k \in 0 .. m : h[k] = g[k] /\ g[k] \in Nat
  BY <1>1, LiveSettles, KeptHeights
<1>5. SigStacksOK
  BY DEF ScopesInv
<1> SUFFICES ASSUME NEW k \in 1 .. l, stack'[k].k = "send", Stays(stack', h, k)
             PROVE  SendDown(k, h)'
  BY <1>1 DEF SendsDown
<1>6. CASE k > m
  <2>1. k \in m + 1 .. l
    BY <1>1, <1>6
  <2> QED BY <2>1
<1>7. CASE k <= m
  <2>1. k \in 1 .. m /\ k \in 0 .. m /\ k \in 1 .. Len(stack)
    BY <1>1, <1>7
  <2>2. stack'[k] = stack[k] /\ h[k] = g[k] /\ g[k] \in Nat
    BY <1>1, <1>4, <2>1
  <2>3. \A j \in k .. l : h[j] >= h[k]
    BY <1>1 DEF Stays
  <2>4. Stays(stack, g, k)
    <3> SUFFICES ASSUME NEW j \in k .. Len(stack) PROVE g[j] >= g[k]
      BY DEF Stays
    <3>1. CASE j <= m
      <4>1. j \in 0 .. m /\ j \in k .. l
        BY <1>1, <1>3, <2>1, <3>1
      <4> QED BY <1>4, <2>2, <2>3, <4>1
    <3>2. CASE j > m
      <4>1. PICK w \in m .. Len(stack') : \A i \in m + 1 .. Len(stack) : g[i] >= h[w]
        BY DEF Covers
      <4>2. j \in m + 1 .. Len(stack) /\ w \in k .. l /\ w \in 0 .. l /\ j \in 0 .. Len(stack)
        BY <1>1, <1>2, <1>3, <2>1, <3>2, <4>1
      <4>3. g[j] >= h[w] /\ h[w] >= h[k]
        BY <2>3, <4>1, <4>2
      <4>4. g[j] \in Nat /\ h[w] \in Nat
        BY <1>2, <1>3, <4>2
      <4> QED BY <2>2, <4>3, <4>4
    <3> QED BY <1>1, <1>2, <2>1, <3>1, <3>2
  <2>5. SendDown(k, g)
    BY <2>1, <2>2, <2>4 DEF SendsDown
  <2> DEFINE n == stack[k].i
  <2>6. n \in 0 .. sig_handler_stack.fill
    BY <2>5 DEF SendDown
  <2>7. SameLow(n)
    <3>1. CASE HandlersGrow
      <4>1. sig_handler_stack.fill \in Nat /\ sig_handler_stack'.fill \in Nat
        BY DEF ScopesInv, SigStacksOK, StackOK, WithinAlloc
      <4> QED BY <2>6, <3>1, <4>1 DEF HandlersGrow, SameLow
    <3>2. CASE HandlersShrink
      <4>1. unwind_stack.fill \in 1 .. unwind_stack.fill /\ unwind_stack.fill > g[k]
        <5>1. l \in k .. l
          BY <1>3, <1>1, <2>1
        <5>2. h[l] >= h[k]
          BY <2>3, <5>1
        <5> QED BY <1>2, <1>3, <2>2, <3>2, <5>2 DEF HandlersShrink
      <4>2. Deeper(stack[k], unwind_stack.mem[unwind_stack.fill].arg)
        BY <2>5, <3>2, <4>1 DEF SendDown, HandlersShrink
      <4>3. \A j \in 1 .. n : sig_handler_stack.mem[j].id < unwind_stack.mem[unwind_stack.fill].arg
        BY <4>2 DEF Deeper
      <4>4. RmHandler(unwind_stack.mem[unwind_stack.fill].arg)
        BY <3>2 DEF HandlersShrink
      <4> HIDE DEF n
      <4> QED BY <1>5, <2>6, <4>3, <4>4, BelowRemoved DEF SameLow
    <3> QED BY <3>1, <3>2 DEF HandlerEffect
  <2>8. ASSUME NEW x, Deeper(stack[k], x)
        PROVE  \A j \in 1 .. n : sig_handler_stack'.mem[j].id < x
    BY <2>7, <2>8 DEF Deeper, SameLow
  <2>9. stack'[k].i \in 0 .. sig_handler_stack'.fill
    <3>1. sig_handler_stack'.fill \in Nat
      BY DEF ScopesInv, SigStacksOK, StackOK, WithinAlloc
    <3> QED BY <2>2, <2>6, <2>7, <3>1 DEF SameLow
  <2>10. \A x \in stack'[k].called : \A j \in 1 .. stack'[k].i : sig_handler_stack'.mem[j].id < x
    BY <2>2, <2>5, <2>8 DEF SendDown
  <2>11. ASSUME k < Len(stack'), stack'[k + 1].k = "handler_body"
         PROVE  \A j \in 1 .. stack'[k].i : sig_handler_stack'.mem[j].id < stack'[k + 1].id
    <3>1. k # m
      BY <1>1, <2>1, <2>2, <2>11
    <3>2. k + 1 \in 1 .. m /\ k < Len(stack)
      BY <1>1, <2>1, <3>1
    <3>3. stack'[k + 1] = stack[k + 1]
      BY <1>1, <3>2
    <3>4. Deeper(stack[k], stack[k + 1].id)
      BY <2>5, <2>11, <3>2, <3>3 DEF SendDown
    <3> QED BY <2>2, <2>8, <3>3, <3>4
  <2>12. ASSUME NEW x \in 1 .. unwind_stack'.fill, x > h[k], Removes(x)'
         PROVE  \A j \in 1 .. stack'[k].i : sig_handler_stack'.mem[j].id < unwind_stack'.mem[x].arg
    <3>1. CASE x \in 1 .. unwind_stack.fill /\ Removes(x) /\ unwind_stack'.mem[x] = unwind_stack.mem[x]
      <4>1. Deeper(stack[k], unwind_stack.mem[x].arg)
        BY <2>2, <2>5, <2>12, <3>1 DEF SendDown
      <4> QED BY <2>2, <2>8, <3>1, <4>1
    <3>2. CASE Newest(unwind_stack'.mem[x].arg)
      <4>1. Deeper(stack[k], unwind_stack'.mem[x].arg)
        <5>1. sig_handler_stack.fill \in Nat
          BY DEF ScopesInv, SigStacksOK, StackOK, WithinAlloc
        <5>2. \A j \in 1 .. n : j \in 1 .. sig_handler_stack.fill
          BY <2>6, <5>1
        <5> QED BY <3>2, <5>2 DEF Newest, Deeper
      <4> QED BY <2>2, <2>8, <4>1
    <3> QED BY <2>12, <3>1, <3>2 DEF HandlerEffect, RemovalsGrow
  <2> QED BY <2>9, <2>10, <2>11, <2>12 DEF SendDown, Deeper
<1> QED BY <1>1, <1>3, <1>6, <1>7

-----------------------------------------------------------------------------
(* What a step does to the handlers                                         *)

LEMMA SameHandlersGrow ==
  ASSUME SigStacksOK, UNCHANGED sig_handler_stack
  PROVE  HandlersGrow
<1>1. sig_handler_stack.fill \in Nat
  BY DEF SigStacksOK, StackOK, WithinAlloc
<1> QED BY <1>1 DEF HandlersGrow

LEMMA HandlersUntouched ==
  ASSUME SigStacksOK, UNCHANGED <<sig_handler_stack, unwind_stack>>
  PROVE  HandlerEffect
BY SameHandlersGrow DEF HandlerEffect, RemovalsGrow, Removes

(* An entry that removes no handler is pushed ...                            *)
LEMMA OtherEntryPushed ==
  ASSUME SigStacksOK, UnwindOK(unwind_stack), NEW e, unwind_stack' = Push(unwind_stack, e),
         e.h # "rm_handler" \/ e.arg = 0, sig_handler_stack' = sig_handler_stack
  PROVE  HandlerEffect
<1> DEFINE f == unwind_stack.fill
<1>0. PICK t : t = f + 1
  OBVIOUS
<1>1. /\ \A x \in 1 .. f : unwind_stack'.mem[x] = unwind_stack.mem[x] /\ (Removes(x)' <=> Removes(x))
      /\ unwind_stack'.mem[f + 1] = e
      /\ \A x \in 1 .. unwind_stack'.fill : x \in 1 .. f \/ x = f + 1
  BY RemovalsPushed
<1>2. ~Removes(t)'
  BY <1>0, <1>1 DEF Removes
<1>3. RemovalsGrow
  BY <1>0, <1>1, <1>2 DEF RemovalsGrow
<1>4. HandlersGrow
  BY SameHandlersGrow
<1> QED BY <1>3, <1>4 DEF HandlerEffect

(* ... or a handler, with the entry that removes it, or without.             *)
LEMMA NewHandlerIsNewest ==
  ASSUME SigStacksOK, NEW sig, PushHandler(sig)
  PROVE  HandlersGrow /\ Newest(NextId(sig_handler_stack, 1))
<1> DEFINE hs == sig_handler_stack
<1>1. hs.fill \in Nat /\ 1 .. hs.fill \subseteq DOMAIN hs.mem
  BY DEF SigStacksOK, StackOK, WithinAlloc
<1>2. PICK e : hs' = Push(hs, e)
  BY DEF PushHandler
<1>3. HandlersGrow
  <2>1. hs'.fill = hs.fill + 1
    BY <1>2 DEF Push
  <2>2. ASSUME NEW j \in 1 .. hs.fill PROVE hs'.mem[j] = hs.mem[j]
    <3>1. j \in DOMAIN hs.mem /\ j # hs.fill + 1
      BY <1>1
    <3> HIDE DEF hs
    <3> QED BY <1>2, <3>1 DEF Push
  <2> QED BY <1>1, <2>1, <2>2 DEF HandlersGrow
<1>4. Newest(NextId(hs, 1))
  BY NextIdAbove DEF SigStacksOK, Newest
<1> QED BY <1>3, <1>4

LEMMA HandlerScopePushed ==
  ASSUME SigStacksOK, UnwindOK(unwind_stack), NEW sig, PushHandler(sig),
         unwind_stack' = Push(unwind_stack, [h |-> "rm_handler",
                                             arg |-> NextId(sig_handler_stack, 1)])
  PROVE  HandlerEffect
<1> DEFINE f == unwind_stack.fill
<1>1. PICK e : e = [h |-> "rm_handler", arg |-> NextId(sig_handler_stack, 1)]
  OBVIOUS
<1>2. /\ \A x \in 1 .. f : unwind_stack'.mem[x] = unwind_stack.mem[x] /\ (Removes(x)' <=> Removes(x))
      /\ unwind_stack'.mem[f + 1] = e
      /\ \A x \in 1 .. unwind_stack'.fill : x \in 1 .. f \/ x = f + 1
  BY <1>1, RemovalsPushed
<1>3. HandlersGrow /\ Newest(e.arg)
  BY <1>1, NewHandlerIsNewest
<1>4. RemovalsGrow
  BY <1>2, <1>3 DEF RemovalsGrow
<1> QED BY <1>3, <1>4 DEF HandlerEffect

LEMMA HandlerHeldPushed ==
  ASSUME SigStacksOK, NEW sig, PushHandler(sig), unwind_stack' = unwind_stack
  PROVE  HandlerEffect
BY NewHandlerIsNewest DEF HandlerEffect, RemovalsGrow, Removes

(* The top entry of the unwind stack is called, or dropped.                  *)
LEMMA EntryPopped ==
  ASSUME SigStacksOK, UnwindOK(unwind_stack), unwind_stack.fill > 0,
         unwind_stack' = Pop(unwind_stack),
         \/ sig_handler_stack' = sig_handler_stack
         \/ Removes(unwind_stack.fill) /\ RmHandler(unwind_stack.mem[unwind_stack.fill].arg)
  PROVE  HandlerEffect
<1>1. /\ unwind_stack'.fill = unwind_stack.fill - 1
      /\ \A x \in 1 .. unwind_stack'.fill :
           /\ x \in 1 .. unwind_stack.fill
           /\ unwind_stack'.mem[x] = unwind_stack.mem[x] /\ (Removes(x)' <=> Removes(x))
  BY RemovalsPopped
<1>2. RemovalsGrow
  BY <1>1 DEF RemovalsGrow
<1>3. HandlersGrow \/ HandlersShrink
  BY <1>1, SameHandlersGrow DEF HandlersShrink
<1> QED BY <1>2, <1>3 DEF HandlerEffect

LEMMA EntryCalled ==
  ASSUME SigStacksOK, UnwindOK(unwind_stack), unwind_stack.fill > 0,
         unwind_stack' = Pop(unwind_stack),
         NEW fs, NEW base, CallAction(unwind_stack.mem[unwind_stack.fill], fs, base)
  PROVE  HandlerEffect
<1>1. PICK e : e = unwind_stack.mem[unwind_stack.fill]
  OBVIOUS
<1>2. CallAction(e, fs, base)
  BY <1>1
<1>3. CASE e.h # "rm_handler"
  <2>1. sig_handler_stack' = sig_handler_stack
    BY <1>2, <1>3 DEF CallAction, sigVars
  <2> QED BY <2>1, EntryPopped
<1>4. CASE e.h = "rm_handler"
  <2>1. RmHandler(e.arg)
    BY <1>2, <1>4 DEF CallAction
  <2>2. CASE e.arg = 0
    <3>1. sig_handler_stack' = sig_handler_stack
      BY <2>1, <2>2 DEF RmHandler
    <3> QED BY <3>1, EntryPopped
  <2>3. CASE e.arg # 0
    <3>1. Removes(unwind_stack.fill) /\ RmHandler(unwind_stack.mem[unwind_stack.fill].arg)
      BY <1>1, <1>4, <2>1, <2>3 DEF Removes
    <3> QED BY <3>1, EntryPopped
  <2> QED BY <2>2, <2>3
<1> QED BY <1>3, <1>4

LEMMA UserEffect ==
  ASSUME ScopesInv, sig_stacks = "live", sig_stacks' = "live", UserStep
  PROVE  HandlerEffect \/ \E id \in held : RmPersistentHandler(id)
<1>0. SigStacksOK /\ UnwindOK(unwind_stack)
  BY DEF ScopesInv
<1>1. CASE UNCHANGED <<sig_handler_stack, unwind_stack>>
  BY <1>0, <1>1, HandlersUntouched
<1>2. ASSUME NEW n, NEW always, UnwindAction(n, always) PROVE HandlerEffect
  <2>1. PICK e : e = [h |-> "user", arg |-> n]
    OBVIOUS
  <2>2. unwind_stack' = Push(unwind_stack, e) /\ e.h # "rm_handler"
    BY <1>2, <2>1 DEF UnwindAction
  <2> QED BY <1>0, <1>2, <2>2, OtherEntryPushed DEF UnwindAction, sigVars
<1>3. ASSUME NEW sig, AutopopHandler(sig) PROVE HandlerEffect
  BY <1>0, <1>3, HandlerScopePushed DEF AutopopHandler
<1>4. CASE AutopopNullHandler
  <2>1. PICK e : e = [h |-> "rm_handler", arg |-> 0]
    OBVIOUS
  <2>2. unwind_stack' = Push(unwind_stack, e) /\ e.arg = 0
    BY <1>4, <2>1 DEF AutopopNullHandler
  <2> QED BY <1>0, <1>4, <2>2, OtherEntryPushed DEF AutopopNullHandler, sigVars
<1>5. ASSUME NEW sig, NEW rst, NEW p, PushRestart(sig, rst, p), UNCHANGED sig_handler_stack
      PROVE  HandlerEffect
  <2>1. PICK e : e = [h |-> "rm_restart", arg |-> NextId(sig_restart_stack, 0)]
    OBVIOUS
  <2>2. unwind_stack' = Push(unwind_stack, e) /\ e.h # "rm_handler"
    BY <1>5, <2>1 DEF PushRestart
  <2> QED BY <1>0, <1>5, <2>2, OtherEntryPushed
<1>6. ASSUME NEW mode, NEW sig, NEW rst, ProvideRestart(mode, sig, rst) PROVE HandlerEffect
  BY <1>5, <1>6 DEF ProvideRestart
<1>7. CASE ReprovideRestart
  BY <1>5, <1>7 DEF ReprovideRestart
<1>8. CASE LeaveScope
  <2>1. HasEntry(Top) /\ unwind_stack' = Pop(unwind_stack)
    BY <1>8 DEF LeaveScope
  <2>2. PICK base : CallAction(EntryOf(Top), Below, base)
    BY <1>8 DEF LeaveScope
  <2>3. unwind_stack.fill > 0 /\ CallAction(unwind_stack.mem[unwind_stack.fill], Below, base)
    BY <2>1, <2>2, TopEntry
  <2> QED BY <1>0, <2>1, <2>3, EntryCalled
<1>9. CASE LeaveExplicitScope
  <2>1. Top.k = "action" /\ unwind_stack' = Pop(unwind_stack) /\ UNCHANGED sig_handler_stack
    BY <1>9 DEF LeaveExplicitScope, Explicit, sigVars
  <2>2. unwind_stack.fill > 0
    BY <2>1, TopEntry DEF HasEntry
  <2> QED BY <1>0, <2>1, <2>2, EntryPopped
<1>10. CASE ActionReturns
  <2>1. Top.k = "action_body" /\ UNCHANGED sig_handler_stack
    BY <1>10 DEF ActionReturns, sigVars
  <2>2. Len(stack) > 1
    BY <2>1, NotMain
  <2>3. Len(stack) - 1 \in 1 .. Len(stack)
    BY <2>2, StackIs
  <2>4. stack[Len(stack) - 1].k # "cleanup"
    BY <2>3 DEF ScopesInv
  <2> QED BY <1>0, <1>10, <2>1, <2>4, HandlersUntouched DEF ActionReturns
<1>11. ASSUME NEW sig, PersistentHandler(sig) PROVE HandlerEffect
  BY <1>0, <1>11, HandlerHeldPushed DEF PersistentHandler
<1>13. CASE ThreadCleansUp \/ ThreadUnwindCleanup
  BY <1>13 DEF ThreadCleansUp, ThreadUnwindCleanup, SigCleanup
<1>14. \/ UNCHANGED <<sig_handler_stack, unwind_stack>>
       \/ \E n \in Acts, always \in BOOLEAN : UnwindAction(n, always)
       \/ \E sig \in HandlerSigs : AutopopHandler(sig)
       \/ AutopopNullHandler
       \/ \E mode \in Modes \ {"plain"}, sig \in RestartSigs, rst \in Restarts :
            ProvideRestart(mode, sig, rst)
       \/ ReprovideRestart
       \/ LeaveScope \/ LeaveExplicitScope \/ ActionReturns
       \/ \E sig \in HandlerSigs : PersistentHandler(sig)
       \/ \E id \in held : RmPersistentHandler(id)
       \/ ThreadCleansUp \/ ThreadUnwindCleanup
  BY DEF UserStep, ReturnPoint, LeavePoint, HandlerReturns, UnwindInit, UnwindRelease, Unwind,
         Send, AssertHandler, sigVars
<1> QED BY <1>1, <1>2, <1>3, <1>4, <1>6, <1>7, <1>8, <1>9, <1>10, <1>11, <1>13, <1>14

LEMMA LibraryEffect ==
  ASSUME ScopesInv, unwind_init_ref > 0, sig_stacks = "live", sig_stacks' = "live", LibraryStep
  PROVE  HandlerEffect
<1>0. SigStacksOK /\ UnwindOK(unwind_stack)
  BY DEF ScopesInv
<1>1. CASE UNCHANGED <<sig_handler_stack, unwind_stack>>
  BY <1>0, <1>1, HandlersUntouched
<1>2. CASE UnwindNext
  <2>1. PICK g : Match(g)
    BY DEF ScopesInv
  <2>2. Top.k = "unwind" /\ Top.i > stack[Top.p].to /\ unwind_stack' = Pop(unwind_stack)
    BY <1>2 DEF UnwindNext, UnwindMore
  <2>3. Top.i = unwind_stack.fill /\ stack[Top.p].to \in Nat /\ unwind_stack.fill \in Nat
    BY <2>1, <2>2, TargetIs, TopIs
  <2>4. unwind_stack.fill > 0
    BY <2>2, <2>3
  <2>5. PICK fs, base : CallAction(unwind_stack.mem[Top.i], fs, base)
    BY <1>2 DEF UnwindNext
  <2>6. CallAction(unwind_stack.mem[unwind_stack.fill], fs, base)
    BY <2>3, <2>5
  <2> QED BY <1>0, <2>2, <2>4, <2>6, EntryCalled
<1>3. CASE CleanupNext
  BY <1>3 DEF CleanupNext
<1>4. CASE CatchallCleansUp
  BY <1>4 DEF CatchallCleansUp, SigCleanup
<1>5. \/ UNCHANGED <<sig_handler_stack, unwind_stack>>
      \/ UnwindNext \/ CleanupNext \/ CatchallCleansUp
  BY DEF LibraryStep, UnwindDone, SendNext, ReportFails, ReportAndRaise, UnwindAll,
         ReportOverflows, ExitThread, CleanupDone, UseAfterFree, UndefinedBehaviour, sigVars
<1> QED BY <1>1, <1>2, <1>3, <1>4, <1>5

-----------------------------------------------------------------------------
(* What a step does to the frames                                           *)

(* A step changes nothing in the lowest m frames, and starts neither a send  *)
(* nor a handler.                                                            *)
Plainly(m) ==
  \E l : /\ Frames(m, l) /\ m \in Nat /\ l \in Nat /\ m <= l
         /\ \A k \in m + 1 .. l : stack'[k].k \notin {"send", "handler_body"}

StartsSend ==
  \E f : /\ Frames1(Len(stack), f)
         /\ f.k = "send" /\ f.i = sig_handler_stack.fill /\ f.called = {}
         /\ UNCHANGED <<sig_handler_stack, unwind_stack>>

(* The user leaves a scope or a function; the catch-all handler goes on.     *)
TopMoves ==
  /\ Len(stack) - 1 \in Nat /\ Plainly(Len(stack) - 1)
  /\ Top.k \in {"action", "handler", "point", "action_body", "catchall", "cleanup"}

LEMMA PlainlySame ==
  ASSUME ScopesInv, UNCHANGED stack
  PROVE  Plainly(Len(stack))
<1>1. PICK n : n = Len(stack) /\ n \in Nat \ {0} /\ IsSequence(stack)
  BY StackIs
<1>2. n \in 0 .. n /\ n <= n /\ \A k : k \notin n + 1 .. n
  BY <1>1
<1>3. Frames(n, n)
  BY <1>1, <1>2 DEF Frames
<1> QED BY <1>1, <1>2, <1>3 DEF Plainly

LEMMA PlainlyOne ==
  ASSUME NEW m \in Nat, NEW f, Frames1(m, f), f.k \notin {"send", "handler_body"}
  PROVE  Plainly(m)
<1>1. m + 1 \in Nat /\ m <= m + 1 /\ \A k \in m + 1 .. m + 1 : k = m + 1
  OBVIOUS
<1> QED BY <1>1 DEF Plainly, Frames1

LEMMA PlainlyTwo ==
  ASSUME NEW m \in Nat, NEW f, NEW c, Frames2(m, f, c), f.k \notin {"send", "handler_body"},
         c.k \notin {"send", "handler_body"}
  PROVE  Plainly(m)
<1>1. m + 2 \in Nat /\ m <= m + 2 /\ \A k \in m + 1 .. m + 2 : k = m + 1 \/ k = m + 2
  OBVIOUS
<1> QED BY <1>1 DEF Plainly, Frames2

LEMMA PlainlyCall ==
  ASSUME ScopesInv, NEW f, Call(f), f.k \notin {"send", "handler_body"}
  PROVE  Plainly(Len(stack))
BY StackIs, CallFrames, PlainlyOne DEF Call

LEMMA PlainlyReturn ==
  ASSUME ScopesInv, Len(stack) > 1, stack' = Below
  PROVE  Len(stack) - 1 \in Nat /\ Plainly(Len(stack) - 1)
<1>1. PICK m : m = Len(stack) - 1 /\ m \in Nat
  BY StackIs
<1>2. Frames(m, m) /\ m <= m /\ \A k : k \notin m + 1 .. m
  BY <1>1, ReturnFrames
<1> QED BY <1>1, <1>2 DEF Plainly

LEMMA SendStarts ==
  ASSUME ScopesInv, NEW sig, NEW data, Call(SendFrame(sig, data)),
         UNCHANGED <<sig_handler_stack, unwind_stack>>
  PROVE  StartsSend
<1>1. PICK f : f = SendFrame(sig, data)
  OBVIOUS
<1>2. f.k = "send" /\ f.i = sig_handler_stack.fill /\ f.called = {}
  BY <1>1 DEF SendFrame
<1>3. Frames1(Len(stack), f)
  BY <1>1, CallFrames DEF Call
<1> QED BY <1>2, <1>3 DEF StartsSend

LEMMA UserFrames ==
  ASSUME ScopesInv, UserStep
  PROVE  \/ Plainly(Len(stack)) \/ TopMoves \/ StartsSend
         \/ \E rst \in Restarts \cup {SIG_RESTART_NULL} : HandlerReturns(rst)
<1> DEFINE Goal == Plainly(Len(stack)) \/ TopMoves \/ StartsSend
<1>1. ASSUME NEW n, NEW always, UnwindAction(n, always) PROVE Goal
  <2>1. PICK f : f = [k |-> "action", n |-> n, always |-> always]
    OBVIOUS
  <2>2. Call(f) /\ f.k = "action"
    BY <1>1, <2>1 DEF UnwindAction
  <2> QED BY <2>2, PlainlyCall
<1>2. ASSUME NEW id, Call([k |-> "handler", id |-> id]) PROVE Goal
  <2>1. PICK f : f = [k |-> "handler", id |-> id]
    OBVIOUS
  <2>2. Call(f) /\ f.k = "handler"
    BY <1>2, <2>1
  <2> QED BY <2>2, PlainlyCall
<1>3. ASSUME NEW sig, AutopopHandler(sig) PROVE Goal
  BY <1>2, <1>3 DEF AutopopHandler
<1>4. CASE AutopopNullHandler
  BY <1>2, <1>4 DEF AutopopNullHandler
<1>5. ASSUME NEW mode, NEW sig, NEW rst, ProvideRestart(mode, sig, rst) PROVE Goal
  <2>1. PICK f : f = [k |-> "point", mode |-> mode, sig |-> sig, rst |-> rst, returned |-> FALSE,
                      to |-> unwind_stack.fill, id |-> NextId(sig_restart_stack, 0)]
    OBVIOUS
  <2>2. Call(f) /\ f.k = "point"
    BY <1>5, <2>1 DEF ProvideRestart
  <2> QED BY <2>2, PlainlyCall
<1>6. CASE ReturnPoint
  <2>1. PICK f : f = [k |-> "point", mode |-> "plain", returned |-> FALSE,
                      to |-> unwind_stack.fill, id |-> NoId]
    OBVIOUS
  <2>2. Call(f) /\ f.k = "point"
    BY <1>6, <2>1 DEF ReturnPoint
  <2> QED BY <2>2, PlainlyCall
<1>7. CASE ReprovideRestart
  <2>1. PICK f : f = [Top EXCEPT !.returned = FALSE, !.id = NextId(sig_restart_stack, 0)]
    OBVIOUS
  <2>2. Top.k = "point" /\ stack' = [stack EXCEPT ![Len(stack)].returned = FALSE,
                                                  ![Len(stack)].id = NextId(sig_restart_stack, 0)]
    BY <1>7 DEF ReprovideRestart
  <2>3. Len(stack) \in DOMAIN stack
    BY StackIs DEF IsSequence
  <2>4. stack' = WithTop(f)
    BY <2>1, <2>2, <2>3 DEF WithTop, Top
  <2>5. f.k = "point"
    BY <2>1, <2>2, TopFields DEF HasFields
  <2>6. Frames1(Len(stack) - 1, f) /\ Len(stack) - 1 \in Nat
    BY <2>4, RewriteFrames, StackIs
  <2> QED BY <2>2, <2>5, <2>6, PlainlyOne DEF TopMoves
<1>8. CASE LeaveScope
  <2>1. Top.k \in {"action", "handler", "point"}
    BY <1>8 DEF LeaveScope, HasEntry
  <2>2. Len(stack) > 1
    BY <2>1, UserBelow
  <2>3. CASE stack' = Below
    BY <2>1, <2>2, <2>3, PlainlyReturn DEF TopMoves
  <2>4. ASSUME NEW c, stack' = Append(Below, c), c.k = "action_body" PROVE Goal
    <3>1. Frames1(Len(stack) - 1, c) /\ Len(stack) - 1 \in Nat
      BY <2>2, <2>4, TailCallFrames, StackIs
    <3> QED BY <2>1, <2>4, <3>1, PlainlyOne DEF TopMoves
  <2>5. stack' = Below \/ \E c : stack' = Append(Below, c) /\ c.k = "action_body"
    BY <1>8 DEF LeaveScope, CallAction
  <2> QED BY <2>3, <2>4, <2>5
<1>9. CASE LeaveExplicitScope \/ LeavePoint \/ ActionReturns
  <2>1. stack' = Below /\ Top.k \in {"action", "point", "action_body"}
    BY <1>9 DEF LeaveExplicitScope, Explicit, LeavePoint, ActionReturns, Return
  <2>2. Len(stack) > 1
    BY <2>1, UserBelow
  <2> QED BY <2>1, <2>2, PlainlyReturn DEF TopMoves
<1>10. ASSUME NEW p, Unwind(p) PROVE Goal
  <2>1. PICK f : f = UnwindFrame(p)
    OBVIOUS
  <2>2. Call(f) /\ f.k = "unwind"
    BY <1>10, <2>1 DEF Unwind, UnwindFrame
  <2> QED BY <2>2, PlainlyCall
<1>11. CASE UNCHANGED stack
  BY <1>11, PlainlySame
<1>12. ASSUME NEW data, Send(SIGNAL_FAIL, data) PROVE Goal
  BY <1>12, SendStarts DEF Send, sigVars
<1>13. ASSUME NEW sig, AssertHandler(sig) PROVE Goal
  BY <1>13, SendStarts DEF AssertHandler, sigVars
<1>14. CASE ThreadCleansUp \/ ThreadUnwindCleanup
  <2>1. PICK f : f = [k |-> "cleanup"]
    OBVIOUS
  <2>2. Call(f) /\ f.k = "cleanup"
    BY <1>14, <2>1 DEF ThreadCleansUp, ThreadUnwindCleanup, SigCleanup, Call
  <2> QED BY <2>2, PlainlyCall
<1> HIDE DEF Goal
<1>15. \/ UNCHANGED stack
       \/ \E n \in Acts, always \in BOOLEAN : UnwindAction(n, always)
       \/ \E sig \in HandlerSigs : AutopopHandler(sig)
       \/ AutopopNullHandler
       \/ \E mode \in Modes \ {"plain"}, sig \in RestartSigs, rst \in Restarts :
            ProvideRestart(mode, sig, rst)
       \/ ReturnPoint \/ ReprovideRestart
       \/ LeaveScope \/ LeaveExplicitScope \/ LeavePoint \/ ActionReturns
       \/ \E rst \in Restarts \cup {SIG_RESTART_NULL} : HandlerReturns(rst)
       \/ \E p \in DOMAIN stack : Unwind(p)
       \/ \E data \in Datas : Send(SIGNAL_FAIL, data)
       \/ \E sig \in Asserts : AssertHandler(sig)
       \/ ThreadCleansUp \/ ThreadUnwindCleanup
  BY DEF UserStep, PersistentHandler, RmPersistentHandler, UnwindInit, UnwindRelease
<1>16. Goal \/ \E rst \in Restarts \cup {SIG_RESTART_NULL} : HandlerReturns(rst)
  BY <1>1, <1>3, <1>4, <1>5, <1>6, <1>7, <1>8, <1>9, <1>10, <1>11, <1>12, <1>13, <1>14, <1>15
     DEF Goal
<1> QED BY <1>16 DEF Goal

LEMMA LibraryFrames ==
  ASSUME ScopesInv, LibraryStep
  PROVE  \/ Plainly(Len(stack)) \/ TopMoves \/ StartsSend
         \/ UnwindNext \/ UnwindDone \/ SendNext
<1>0. Len(stack) - 1 \in Nat
  BY StackIs
<1>1. CASE UNCHANGED stack
  BY <1>1, PlainlySame
<1>2. CASE ReportFails
  BY <1>2, SendStarts DEF ReportFails, sigVars
<1>3. ASSUME NEW s, stack' = GoTo(s), Top.k = "catchall" PROVE TopMoves
  <2>1. PICK f : f.k = "catchall" /\ Frames1(Len(stack) - 1, f)
    BY <1>3, StageFrames
  <2> QED BY <1>0, <1>3, <2>1, PlainlyOne DEF TopMoves
<1>4. CASE ReportAndRaise \/ UnwindAll
  BY <1>3, <1>4 DEF ReportAndRaise, UnwindAll, AtStage
<1>5. CASE CatchallCleansUp
  <2>1. PICK f, c : f.k = "catchall" /\ c.k = "cleanup" /\ Frames2(Len(stack) - 1, f, c)
    BY <1>5, CatchallCleansUpFrames
  <2>2. Top.k = "catchall"
    BY <1>5 DEF CatchallCleansUp, AtStage
  <2> QED BY <1>0, <2>1, <2>2, PlainlyTwo DEF TopMoves
<1>6. CASE CleanupNext
  <2>1. PICK e, base : CallAction(e, stack, base)
    BY <1>6 DEF CleanupNext
  <2>2. PICK c : c = [k |-> "action_body", n |-> e.arg, base |-> base]
    OBVIOUS
  <2>3. UNCHANGED stack \/ (Call(c) /\ c.k = "action_body")
    BY <2>1, <2>2 DEF CallAction, Call
  <2> QED BY <1>1, <2>3, PlainlyCall
<1>7. CASE CleanupDone
  <2>1. Top.k = "cleanup" /\ stack' = Below
    BY <1>7 DEF CleanupDone, Return
  <2>2. Len(stack) > 1
    BY <2>1, NotMain
  <2> QED BY <2>1, <2>2, PlainlyReturn DEF TopMoves
<1>8. \/ UnwindNext \/ UnwindDone \/ SendNext \/ ReportFails \/ ReportAndRaise \/ UnwindAll
      \/ CatchallCleansUp \/ CleanupNext \/ CleanupDone \/ UNCHANGED stack
  BY DEF LibraryStep, ReportOverflows, ExitThread, UseAfterFree, UndefinedBehaviour
<1> QED BY <1>1, <1>2, <1>4, <1>5, <1>6, <1>7, <1>8

-----------------------------------------------------------------------------
(* The frames that go had given up nothing below what is left               *)

LEMMA CoversNone ==
  ASSUME ScopesInv, NEW l, Frames(Len(stack), l), Len(stack) <= l
  PROVE  Covers(Len(stack))
<1>1. PICK m : m = Len(stack) /\ m \in Nat
  BY StackIs
<1>2. m \in m .. Len(stack') /\ \A j : j \notin m + 1 .. Len(stack)
  <2>1. Len(stack') = l /\ m <= Len(stack') /\ IsSequence(stack')
    BY <1>1 DEF Frames
  <2>2. Len(stack') \in Nat
    BY <2>1, LengthIs
  <2> QED BY <1>1, <2>1, <2>2
<1> QED BY <1>1, <1>2 DEF Covers

LEMMA CoversTop ==
  ASSUME ScopesInv, ScopesInv', sig_stacks = "live", unwind_init_ref > 0, unwind_init_ref' > 0,
         NEW m, m = Len(stack) - 1, NEW l, Frames(m, l), m <= l, Rises(Top, unwind_init_ref)
  PROVE  Covers(m)
<1> SUFFICES ASSUME NEW g, NEW h, Match(g), Match(h)'
             PROVE  \E w \in m .. Len(stack') : \A j \in m + 1 .. Len(stack) : g[j] >= h[w]
  BY DEF Covers
<1>1. PICK n : n = Len(stack) /\ n \in Nat \ {0} /\ n \in 1 .. Len(stack)
  BY StackIs
<1>2. m \in 0 .. Len(stack) /\ m + 1 = n /\ m = n - 1 /\ m \in 0 .. m /\ \A j \in m + 1 .. n : j = n
  BY <1>1
<1>3. h[m] = g[m]
  BY <1>2, LiveSettles, KeptHeights
<1>4. g[n] >= g[n - 1]
  <2>1. Heights(stack, unwind_init_ref, g) /\ Len(stack) \in Nat
    BY OldHeightsAre
  <2>2. stack[n] = Top
    BY <1>1 DEF Top
  <2> QED BY <1>1, <2>1, <2>2, HeightsRise
<1>5. m \in m .. Len(stack')
  <2>1. Len(stack') = l /\ Len(stack') \in Nat
    BY NewHeightsAre DEF Frames
  <2> QED BY <1>1, <1>2, <2>1
<1>6. \A j \in m + 1 .. n : g[j] >= h[m]
  BY <1>2, <1>3, <1>4
<1> QED BY <1>1, <1>5, <1>6

LEMMA CoversUnwindNext ==
  ASSUME ScopesInv, ScopesInv', UnwindNext, unwind_init_ref' > 0
  PROVE  LET m == Len(stack) - 1 IN m \in Nat /\ Plainly(m) /\ Covers(m)
<1>1. PICK n : n = Len(stack) /\ n \in Nat \ {0}
  BY StackIs
<1>2. PICK m : m = n - 1 /\ m \in Nat /\ m + 1 = n
  BY <1>1
<1>3. PICK f, c : /\ f.k = "unwind" /\ c.k = "action_body"
                  /\ Frames1(m, f) \/ Frames2(m, f, c)
  BY <1>1, <1>2, UnwindNextFrames
<1>4. Plainly(m)
  BY <1>2, <1>3, PlainlyOne, PlainlyTwo
<1>5. ASSUME NEW g, NEW h, Match(g), Match(h)'
      PROVE  /\ m + 1 \in m .. Len(stack')
             /\ \A j \in m + 1 .. n : g[j] >= h[m + 1]
  <2>1. /\ Heights(stack', unwind_init_ref', h) /\ Len(stack') \in Nat \ {0}
        /\ h[Len(stack')] = unwind_stack'.fill
    BY <1>5, NewHeightsAre
  <2>2. g[n] = unwind_stack.fill /\ unwind_stack.fill \in Nat
    BY <1>1, <1>5, OldHeightsAre
  <2>3. unwind_stack'.fill = unwind_stack.fill - 1
    BY DEF UnwindNext, Pop, ScopesInv, UnwindOK
  <2>4. h[m + 1] <= unwind_stack'.fill /\ m + 1 \in m .. Len(stack')
    <3>1. CASE Frames1(m, f)
      <4>1. Len(stack') = m + 1
        BY <3>1 DEF Frames1, Frames
      <4> QED BY <1>2, <2>1, <2>2, <2>3, <4>1
    <3>2. CASE Frames2(m, f, c)
      <4>1. Len(stack') = m + 2 /\ stack'[m + 2] = c
        BY <3>2 DEF Frames2, Frames
      <4>2. PICK k : k = m + 2 /\ k \in 1 .. Len(stack') /\ k - 1 = m + 1
        BY <1>2, <4>1
      <4>3. Rises(stack'[k], unwind_init_ref')
        BY <1>3, <4>1, <4>2 DEF Rises
      <4>4. h[k] >= h[k - 1] /\ h[k] \in Nat /\ h[k - 1] \in Nat
        BY <2>1, <4>2, <4>3, HeightsRise
      <4> QED BY <1>2, <2>1, <4>1, <4>2, <4>4
    <3> QED BY <1>3, <3>1, <3>2
  <2>5. h[m + 1] \in Nat
    <3>1. h \in [0 .. Len(stack') -> Nat]
      BY <2>1 DEF Heights
    <3>2. m + 1 \in 0 .. Len(stack')
      BY <1>2, <2>1, <2>4
    <3> QED BY <3>1, <3>2
  <2>6. g[n] >= h[m + 1]
    BY <2>2, <2>3, <2>4, <2>5
  <2>7. \A j \in m + 1 .. n : j = n
    BY <1>1, <1>2
  <2> QED BY <2>4, <2>6, <2>7
<1>6. Covers(m)
  <2> SUFFICES ASSUME NEW g, NEW h, Match(g), Match(h)'
               PROVE  \E w \in m .. Len(stack') : \A j \in m + 1 .. Len(stack) : g[j] >= h[w]
    BY DEF Covers
  <2>1. m + 1 \in m .. Len(stack') /\ \A j \in m + 1 .. n : g[j] >= h[m + 1]
    BY <1>5
  <2> QED BY <1>1, <2>1
<1> QED BY <1>1, <1>2, <1>4, <1>6

LEMMA CoversUnwindDone ==
  ASSUME ScopesInv, ScopesInv', UnwindDone
  PROVE  LET m == Top.p - 1 IN m \in Nat /\ Plainly(m) /\ Covers(m)
<1>1. PICK p : p = Top.p
  OBVIOUS
<1>2. Top.k = "unwind" /\ ~(Top.i > stack[p].to) /\ UNCHANGED unwind_stack
  BY <1>1 DEF UnwindDone, UnwindMore
<1>3. PICK f : p \in 1 .. Len(stack) - 1 /\ f.k = "point" /\ Frames1(p - 1, f)
  BY <1>1, UnwindDoneFrames
<1>4. PICK m : m = p - 1 /\ m \in Nat /\ m + 1 = p /\ p \in Nat
  BY <1>3, StackIs
<1>5. Plainly(m)
  BY <1>3, <1>4, PlainlyOne
<1>6. Len(stack') = p /\ p \in m .. Len(stack')
  <2>1. Len(stack') = p
    BY <1>3, <1>4 DEF Frames1, Frames
  <2> QED BY <1>4, <2>1
<1>7. ASSUME NEW g, NEW h, Match(g), Match(h)'
      PROVE  \A j \in m + 1 .. Len(stack) : g[j] >= h[p]
  <2>1. h[p] = unwind_stack.fill
    BY <1>2, <1>6, <1>7, NewHeightsAre
  <2>2. /\ \A j \in p .. Len(stack) : g[j] >= stack[p].to
        /\ Top.i = unwind_stack.fill /\ stack[p].to \in Nat
        /\ unwind_stack.fill >= stack[p].to
    BY <1>1, <1>2, <1>7, TargetIs
  <2>3. unwind_stack.fill \in Nat
    BY <1>7, OldHeightsAre
  <2>4. stack[p].to = unwind_stack.fill
    BY <1>2, <2>2, <2>3
  <2> QED BY <1>4, <2>1, <2>2, <2>4
<1>8. Covers(m)
  <2> SUFFICES ASSUME NEW g, NEW h, Match(g), Match(h)'
               PROVE  \E w \in m .. Len(stack') : \A j \in m + 1 .. Len(stack) : g[j] >= h[w]
    BY DEF Covers
  <2> QED BY <1>6, <1>7
<1> QED BY <1>1, <1>4, <1>5, <1>8

(* A send has no entry of its own.                                           *)
LEMMA SendLevel ==
  ASSUME NEW st, NEW ref, NEW g, Heights(st, ref, g), NEW k \in 1 .. Len(st), st[k].k = "send"
  PROVE  g[k] = g[k - 1]
<1>1. PICK top : Level(st[k], g[k - 1], g[k], top, ref)
  BY DEF Heights
<1>2. ~HasEntry(st[k]) /\ st[k].k # "unwind" /\ ~Sinks(st[k], top, ref)
  BY DEF HasEntry, Sinks
<1> QED BY <1>1, <1>2 DEF Level

-----------------------------------------------------------------------------
(* One step goes on down                                                    *)

Down == \A g : Match(g) => SendsDown(g)

LEMMA DownStep ==
  ASSUME ScopesInv, ScopesInv', sig_stacks = "live", unwind_init_ref > 0, unwind_init_ref' > 0,
         Down, HandlerEffect,
         NEW m, NEW l, Frames(m, l), m <= l, Covers(m),
         m < l => stack'[m + 1].k # "handler_body",
         \A h : Match(h)' => \A k \in m + 1 .. l : stack'[k].k = "send" => SendDown(k, h)'
  PROVE  Down'
<1>1. PICK g : Match(g)
  BY DEF ScopesInv
<1>2. SendsDown(g)
  BY <1>1 DEF Down
<1> SUFFICES ASSUME NEW h, Match(h)' PROVE SendsDown(h)'
  BY DEF Down
<1>3. \A k \in m + 1 .. l : stack'[k].k = "send" => SendDown(k, h)'
  OBVIOUS
<1> QED BY <1>1, <1>2, <1>3, DownKept

LEMMA DownPlainly ==
  ASSUME ScopesInv, ScopesInv', sig_stacks = "live", unwind_init_ref > 0, unwind_init_ref' > 0,
         Down, HandlerEffect, NEW m, Plainly(m), Covers(m)
  PROVE  Down'
<1>1. PICK l : /\ Frames(m, l) /\ m \in Nat /\ l \in Nat /\ m <= l
               /\ \A k \in m + 1 .. l : stack'[k].k \notin {"send", "handler_body"}
  BY DEF Plainly
<1>2. ASSUME m < l PROVE stack'[m + 1].k # "handler_body"
  <2>1. m + 1 \in m + 1 .. l
    BY <1>1, <1>2
  <2> QED BY <1>1, <2>1
<1>3. \A h : \A k \in m + 1 .. l : stack'[k].k = "send" => SendDown(k, h)'
  BY <1>1
<1> QED BY <1>1, <1>2, <1>3, DownStep

(* The top frame of a kind that no loop goes down with.                      *)
LEMMA DownTop ==
  ASSUME ScopesInv, ScopesInv', sig_stacks = "live", unwind_init_ref > 0, unwind_init_ref' > 0,
         Down, HandlerEffect, TopMoves
  PROVE  Down'
<1>1. PICK m : m = Len(stack) - 1 /\ Plainly(m)
  BY DEF TopMoves
<1>2. Rises(Top, unwind_init_ref)
  BY DEF TopMoves, Rises, ScopesInv
<1>3. Covers(m)
  BY <1>1, <1>2, CoversTop DEF Plainly
<1> QED BY <1>1, <1>3, DownPlainly

LEMMA DownCall ==
  ASSUME ScopesInv, ScopesInv', sig_stacks = "live", unwind_init_ref > 0, unwind_init_ref' > 0,
         Down, HandlerEffect, Plainly(Len(stack))
  PROVE  Down'
BY CoversNone, DownPlainly DEF Plainly

LEMMA DownStarts ==
  ASSUME ScopesInv, ScopesInv', sig_stacks = "live", unwind_init_ref > 0, unwind_init_ref' > 0,
         Down, HandlerEffect, StartsSend
  PROVE  Down'
<1>1. PICK f : /\ Frames1(Len(stack), f)
               /\ f.k = "send" /\ f.i = sig_handler_stack.fill /\ f.called = {}
               /\ UNCHANGED <<sig_handler_stack, unwind_stack>>
  BY DEF StartsSend
<1>2. PICK m : m = Len(stack) /\ m \in Nat
  BY StackIs
<1>3. PICK l : l = m + 1 /\ l \in Nat /\ m <= l /\ \A k \in m + 1 .. l : k = l
  BY <1>2
<1>4. Frames(m, l) /\ stack'[l] = f /\ Len(stack') = l
  BY <1>1, <1>2, <1>3 DEF Frames1, Frames
<1>5. Covers(m)
  BY <1>2, <1>3, <1>4, CoversNone
<1>6. ASSUME NEW h, Match(h)' PROVE SendDown(l, h)'
  <2>1. h[l] = unwind_stack'.fill /\ unwind_stack'.fill \in Nat
    BY <1>4, <1>6, NewHeightsAre
  <2>2. sig_handler_stack'.fill \in Nat
    BY DEF ScopesInv, SigStacksOK, StackOK, WithinAlloc
  <2>3. stack'[l].i \in 0 .. sig_handler_stack'.fill /\ stack'[l].called = {}
    BY <1>1, <1>4, <2>2
  <2>4. \A x \in 1 .. unwind_stack'.fill : ~(x > h[l])
    BY <2>1
  <2>5. ~(l < Len(stack'))
    BY <1>3, <1>4
  <2> QED BY <2>3, <2>4, <2>5 DEF SendDown
<1>7. stack'[m + 1].k # "handler_body"
  BY <1>1, <1>3, <1>4
<1>8. \A h : Match(h)' => \A k \in m + 1 .. l : stack'[k].k = "send" => SendDown(k, h)'
  BY <1>3, <1>6
<1> QED BY <1>3, <1>4, <1>5, <1>7, <1>8, DownStep

(* The loop looks further down, for a handler that it then calls.            *)
LEMMA DownNext ==
  ASSUME ScopesInv, ScopesInv', sig_stacks = "live", unwind_init_ref > 0, unwind_init_ref' > 0,
         Down, HandlerEffect, SendsLeft(stack), HandlersExact, SendNext, NoneTwice(stack)
  PROVE  Down' /\ NoneTwice(stack')
<1>1. PICK n : n = Len(stack) /\ n \in Nat \ {0} /\ n \in 1 .. Len(stack)
  BY StackIs
<1>2. PICK m, l : m = n - 1 /\ l = m + 2 /\ m \in Nat /\ l \in Nat /\ m + 1 = n /\ m <= l /\ m < l
                  /\ l = n + 1 /\ \A k \in m + 1 .. l : k = n \/ k = l
  BY <1>1
<1>3. PICK j, f, c : /\ Frames2(m, f, c)
                     /\ j \in 1 .. Top.i /\ Top.i \in Nat
                     /\ c = CalledFrame(sig_handler_stack.mem[j])
                     /\ f.k = "send" /\ f.i = j - 1 /\ f.called = Top.called
  BY <1>1, <1>2, SendNextFrames
<1>4. Frames(m, l) /\ stack'[n] = f /\ stack'[l] = c /\ Len(stack') = l
  BY <1>2, <1>3 DEF Frames2, Frames
<1>5. Top = stack[n] /\ Top.k = "send" /\ UNCHANGED <<sig_handler_stack, unwind_stack>>
  BY <1>1 DEF Top, SendNext, sigVars
<1>6. PICK g : Match(g)
  BY DEF ScopesInv
<1>7. /\ Heights(stack, unwind_init_ref, g) /\ Len(stack) \in Nat
      /\ g[n] = unwind_stack.fill /\ unwind_stack.fill \in Nat
  BY <1>1, <1>6, OldHeightsAre
<1>8. SendDown(n, g)
  <2>1. Stays(stack, g, n)
    <3>1. \A k \in n .. Len(stack) : k = n
      BY <1>1
    <3> QED BY <1>7, <3>1 DEF Stays
  <2> QED BY <1>1, <1>5, <1>6, <2>1 DEF Down, SendsDown
<1>9. /\ sig_handler_stack.fill \in Nat
      /\ \A i \in 1 .. sig_handler_stack.fill : sig_handler_stack.mem[i].id \in Nat
      /\ IdsIncrease(sig_handler_stack)
  BY DEF ScopesInv, SigStacksOK, StackOK, WithinAlloc
<1>10. Top.i <= sig_handler_stack.fill /\ \A x \in Top.called : Deeper(Top, x)
  BY <1>5, <1>8 DEF SendDown
<1>11. j \in 1 .. sig_handler_stack.fill /\ \A i \in 1 .. j - 1 : i \in 1 .. Top.i /\ i < j
       /\ i \in 1 .. sig_handler_stack.fill
  BY <1>3, <1>9, <1>10
<1>12. c.k = "handler_body" => c.id = sig_handler_stack.mem[j].id
  BY <1>3 DEF CalledFrame
<1>13. NoneTwice(stack')
  <2>1. CallsNew(f, c)
    BY <1>3, <1>9, <1>10, <1>11, <1>12 DEF CallsNew, Deeper
  <2> SUFFICES ASSUME NEW k \in 1 .. l - 1 PROVE CallsNew(stack'[k], stack'[k + 1])
    BY <1>4 DEF NoneTwice
  <2>2. CASE k + 1 = l
    <3>1. k = n
      BY <1>2, <2>2
    <3> QED BY <1>4, <2>1, <2>2, <3>1
  <2>3. CASE k + 1 = n
    <3>1. stack'[k + 1].k = "send"
      BY <1>3, <1>4, <2>3
    <3> QED BY <3>1 DEF CallsNew
  <2>4. CASE k + 1 # l /\ k + 1 # n
    <3>1. k \in 1 .. m /\ k + 1 \in 1 .. m /\ k \in 1 .. Len(stack) - 1
      BY <1>1, <1>2, <2>4
    <3> QED BY <1>4, <3>1 DEF NoneTwice, Frames
  <2> QED BY <2>2, <2>3, <2>4
<1>14. Covers(m)
  <2>1. Rises(Top, unwind_init_ref)
    BY <1>5 DEF Rises
  <2> QED BY <1>1, <1>2, <1>4, <2>1, CoversTop
<1>15. ASSUME NEW h, Match(h)' PROVE SendDown(n, h)'
  <2>1. Heights(stack', unwind_init_ref', h)
    BY <1>15, NewHeightsAre
  <2>2. n \in 1 .. Len(stack') /\ m \in 0 .. Len(stack) /\ m \in 0 .. m
    BY <1>1, <1>2, <1>4
  <2>3. h[n] = g[n]
    <3>1. h[n] = h[n - 1] /\ g[n] = g[n - 1]
      BY <1>1, <1>3, <1>4, <1>5, <1>7, <2>1, <2>2, SendLevel
    <3>2. h[m] = g[m]
      BY <1>2, <1>4, <1>6, <1>15, <2>2, LiveSettles, KeptHeights
    <3> QED BY <1>2, <3>1, <3>2
  <2>4. stack'[n].i \in 0 .. sig_handler_stack'.fill
    BY <1>3, <1>4, <1>5, <1>9, <1>11
  <2>5. \A x \in stack'[n].called : \A i \in 1 .. stack'[n].i : sig_handler_stack'.mem[i].id < x
    BY <1>3, <1>4, <1>5, <1>10, <1>11 DEF Deeper
  <2>6. stack'[n + 1].k = "handler_body" =>
          \A i \in 1 .. stack'[n].i : sig_handler_stack'.mem[i].id < stack'[n + 1].id
    BY <1>2, <1>3, <1>4, <1>5, <1>9, <1>11, <1>12 DEF IdsIncrease
  <2>7. \A x \in 1 .. unwind_stack'.fill : ~(x > h[n])
    BY <1>5, <1>7, <2>3
  <2> QED BY <2>4, <2>5, <2>6, <2>7 DEF SendDown, Deeper
<1>16. \A k \in m + 1 .. l : stack'[k].k = "send" => k = n
  <2>1. c.k # "send"
    BY <1>3 DEF CalledFrame
  <2> QED BY <1>2, <1>4, <2>1
<1>17. stack'[m + 1].k # "handler_body"
  BY <1>2, <1>3, <1>4
<1>18. \A h : Match(h)' => \A k \in m + 1 .. l : stack'[k].k = "send" => SendDown(k, h)'
  BY <1>15, <1>16
<1>19. Down'
  BY <1>2, <1>4, <1>14, <1>17, <1>18, DownStep
<1> QED BY <1>13, <1>19

(* A handler returns: it is one of those that were called.                   *)
LEMMA DownReturns ==
  ASSUME ScopesInv, ScopesInv', sig_stacks = "live", unwind_init_ref > 0, unwind_init_ref' > 0,
         Down, HandlerEffect, NEW rst, HandlerReturns(rst)
  PROVE  Down'
<1>1. PICK n : n = Len(stack) /\ n \in Nat \ {0} /\ n \in 1 .. Len(stack)
  BY StackIs
<1>2. PICK m : m = n - 2
  OBVIOUS
<1>3. PICK f, c :
        /\ m \in Nat /\ stack[n - 1].k = "send"
        /\ f.k = "send" /\ f.i = stack[n - 1].i
        /\ f.called = stack[n - 1].called \cup {Top.id}
        /\ c.k = "unwind"
        /\ Frames1(m, f) \/ Frames2(m, f, c)
  BY <1>1, <1>2, HandlerReturnsFrames
<1>4. PICK q : q = n - 1 /\ q = m + 1 /\ q \in Nat /\ q + 1 = n /\ q \in 1 .. Len(stack) /\ q < Len(stack)
               /\ m = q - 1 /\ m \in 0 .. Len(stack) /\ q = n - 1 /\ m \in 0 .. m
  BY <1>1, <1>2, <1>3
<1>5. Top = stack[n] /\ Top.k = "handler_body" /\ UNCHANGED <<sig_handler_stack, unwind_stack>>
  BY <1>1 DEF Top, HandlerReturns, sigVars
<1>6. PICK l : /\ Frames(m, l) /\ l \in Nat /\ m < l /\ m <= l /\ q \in 1 .. l /\ Len(stack') = l
               /\ stack'[q] = f
               /\ \A k \in m + 1 .. l : k # q => stack'[k].k = "unwind"
  <2>1. CASE Frames1(m, f)
    <3>1. PICK l : l = m + 1 /\ Frames(m, l) /\ Len(stack') = l /\ stack'[q] = f
      BY <1>4, <2>1 DEF Frames1, Frames
    <3>2. l \in Nat /\ m < l /\ m <= l /\ q \in 1 .. l /\ \A k \in m + 1 .. l : k = q
      BY <1>3, <1>4, <3>1
    <3> QED BY <3>1, <3>2
  <2>2. CASE Frames2(m, f, c)
    <3>1. PICK l : l = m + 2 /\ Frames(m, l) /\ Len(stack') = l /\ stack'[q] = f /\ stack'[l] = c
      BY <1>4, <2>2 DEF Frames2, Frames
    <3>2. l \in Nat /\ m < l /\ m <= l /\ q \in 1 .. l /\ \A k \in m + 1 .. l : k = q \/ k = l
      BY <1>3, <1>4, <3>1
    <3> QED BY <1>3, <3>1, <3>2
  <2> QED BY <1>3, <2>1, <2>2
<1>7. PICK g : Match(g)
  BY DEF ScopesInv
<1>8. /\ Heights(stack, unwind_init_ref, g) /\ Len(stack) \in Nat
      /\ g[n] = unwind_stack.fill /\ unwind_stack.fill \in Nat
  BY <1>1, <1>7, OldHeightsAre
<1>9. g[n] >= g[q] /\ g[q] \in Nat /\ g[n] \in Nat /\ g[q] = g[m]
  <2>1. Rises(stack[n], unwind_init_ref)
    BY <1>5 DEF Rises
  <2>2. g[n] >= g[n - 1] /\ g[n] \in Nat /\ g[n - 1] \in Nat
    BY <1>1, <1>8, <2>1, HeightsRise
  <2>3. g[q] = g[q - 1]
    BY <1>3, <1>4, <1>8, SendLevel
  <2> QED BY <1>4, <2>2, <2>3
<1>10. SendDown(q, g)
  <2>1. \A k \in q .. Len(stack) : k = q \/ k = n
    BY <1>1, <1>4
  <2>2. Stays(stack, g, q)
    BY <1>9, <2>1 DEF Stays
  <2> QED BY <1>3, <1>4, <1>7, <2>2 DEF Down, SendsDown
<1>11. \A h : Match(h)' => h[m] = g[m]
  BY <1>4, <1>6, <1>7, LiveSettles, KeptHeights
<1>12. Covers(m)
  <2> SUFFICES ASSUME NEW e, NEW h, Match(e), Match(h)'
               PROVE  \E w \in m .. Len(stack') : \A j \in m + 1 .. Len(stack) : e[j] >= h[w]
    BY DEF Covers
  <2>1. Heights(stack, unwind_init_ref, e)
    BY OldHeightsAre
  <2>2. Rises(stack[n], unwind_init_ref)
    BY <1>5 DEF Rises
  <2>3. e[n] >= e[n - 1] /\ e[n] \in Nat /\ e[n - 1] \in Nat
    BY <1>1, <1>8, <2>1, <2>2, HeightsRise
  <2>4. e[q] = e[q - 1]
    BY <1>3, <1>4, <2>1, SendLevel
  <2>5. h[m] = e[m]
    BY <1>4, <1>6, LiveSettles, KeptHeights
  <2>6. e[q] = h[m] /\ e[n] >= h[m] /\ h[m] \in Nat
    BY <1>4, <2>3, <2>4, <2>5
  <2>7. m \in m .. Len(stack') /\ \A j \in m + 1 .. Len(stack) : j = q \/ j = n
    BY <1>1, <1>3, <1>4, <1>6
  <2>8. \A j \in m + 1 .. Len(stack) : e[j] >= h[m]
    BY <2>6, <2>7
  <2> QED BY <2>7, <2>8
<1>13. ASSUME NEW h, Match(h)' PROVE SendDown(q, h)'
  <2>1. Heights(stack', unwind_init_ref', h)
    BY <1>13, NewHeightsAre
  <2>2. h[q] = h[q - 1]
    BY <1>3, <1>6, <2>1, SendLevel
  <2>3. h[q] = g[q]
    BY <1>4, <1>9, <1>11, <1>13, <2>2
  <2>4. stack'[q].i \in 0 .. sig_handler_stack'.fill
    BY <1>3, <1>4, <1>5, <1>6, <1>10 DEF SendDown
  <2>5. Deeper(stack[q], Top.id) /\ \A x \in stack[q].called : Deeper(stack[q], x)
    BY <1>4, <1>5, <1>10 DEF SendDown
  <2>6. \A x \in stack'[q].called : \A i \in 1 .. stack'[q].i : sig_handler_stack'.mem[i].id < x
    BY <1>3, <1>4, <1>5, <1>6, <2>5 DEF Deeper
  <2>7. ASSUME q < Len(stack') PROVE stack'[q + 1].k # "handler_body"
    <3>1. q + 1 \in m + 1 .. l /\ q + 1 # q
      BY <1>4, <1>6, <2>7
    <3> QED BY <1>6, <3>1
  <2>8. \A x \in 1 .. unwind_stack'.fill : x > h[q] /\ Removes(x)' =>
          \A i \in 1 .. stack'[q].i : sig_handler_stack'.mem[i].id < unwind_stack'.mem[x].arg
    <3>1. \A x \in 1 .. unwind_stack.fill :
            x > g[q] /\ Removes(x) => Deeper(stack[q], unwind_stack.mem[x].arg)
      BY <1>10 DEF SendDown
    <3>2. \A x : Removes(x)' <=> Removes(x)
      BY <1>5 DEF Removes
    <3> QED BY <1>3, <1>4, <1>5, <1>6, <2>3, <3>1, <3>2 DEF Deeper
  <2> QED BY <2>4, <2>6, <2>7, <2>8 DEF SendDown, Deeper
<1>14. stack'[m + 1].k # "handler_body"
  BY <1>3, <1>4, <1>6
<1>15. \A h : Match(h)' => \A k \in m + 1 .. l : stack'[k].k = "send" => SendDown(k, h)'
  BY <1>6, <1>13
<1> QED BY <1>6, <1>12, <1>14, <1>15, DownStep

LEMMA NoneTwiceKept ==
  ASSUME NoneTwice(stack), NEW m \in Nat, NEW l \in Nat, Frames(m, l), m <= l,
         Len(stack) \in Nat, \A k \in m + 1 .. l : stack'[k].k # "handler_body"
  PROVE  NoneTwice(stack')
<1>1. m \in 0 .. Len(stack) /\ Len(stack') = l /\ \A k \in 1 .. m : stack'[k] = stack[k]
  BY DEF Frames
<1> SUFFICES ASSUME NEW k \in 1 .. l - 1 PROVE CallsNew(stack'[k], stack'[k + 1])
  BY <1>1 DEF NoneTwice
<1>2. CASE k + 1 <= m
  <2>1. k \in 1 .. m /\ k + 1 \in 1 .. m /\ k \in 1 .. Len(stack) - 1
    BY <1>1, <1>2
  <2> QED BY <1>1, <2>1 DEF NoneTwice
<1>3. CASE ~(k + 1 <= m)
  <2>1. k + 1 \in m + 1 .. l
    BY <1>3
  <2> QED BY <2>1 DEF CallsNew
<1> QED BY <1>2, <1>3

(* Whatever step is taken, no handler is called but by the loop.             *)
LEMMA TwicePlainly ==
  ASSUME NoneTwice(stack), ScopesInv, NEW m, Plainly(m)
  PROVE  NoneTwice(stack')
<1>1. PICK l : /\ Frames(m, l) /\ m \in Nat /\ l \in Nat /\ m <= l
               /\ \A k \in m + 1 .. l : stack'[k].k \notin {"send", "handler_body"}
  BY DEF Plainly
<1>2. \A k \in m + 1 .. l : stack'[k].k # "handler_body"
  BY <1>1
<1> QED BY <1>1, <1>2, StackIs, NoneTwiceKept

LEMMA TwicePut ==
  ASSUME NoneTwice(stack), ScopesInv, NEW m \in Nat, NEW f, NEW c,
         Frames1(m, f) \/ Frames2(m, f, c), f.k # "handler_body", c.k # "handler_body"
  PROVE  NoneTwice(stack')
<1>1. CASE Frames1(m, f)
  <2>1. PICK l : l = m + 1 /\ l \in Nat /\ m <= l /\ Frames(m, l) /\ stack'[l] = f
    BY <1>1 DEF Frames1
  <2>2. \A k \in m + 1 .. l : stack'[k].k # "handler_body"
    BY <2>1
  <2> QED BY <2>1, <2>2, StackIs, NoneTwiceKept
<1>2. CASE Frames2(m, f, c)
  <2>1. PICK l : /\ l = m + 2 /\ l \in Nat /\ m <= l /\ Frames(m, l)
                 /\ stack'[l] = c /\ stack'[m + 1] = f
    BY <1>2 DEF Frames2
  <2>2. \A k \in m + 1 .. l : k = l \/ k = m + 1
    BY <2>1
  <2>3. \A k \in m + 1 .. l : stack'[k].k # "handler_body"
    BY <2>1, <2>2
  <2> QED BY <2>1, <2>3, StackIs, NoneTwiceKept
<1> QED BY <1>1, <1>2

LEMMA TwiceOther ==
  ASSUME NoneTwice(stack), ScopesInv, [Next]_vars, ~SendNext
  PROVE  NoneTwice(stack')
<1>0. Len(stack) \in Nat /\ Len(stack) - 1 \in Nat
  BY StackIs
<1>1. CASE UNCHANGED vars
  BY <1>1, PlainlySame, TwicePlainly DEF vars
<1>2. CASE StartsSend
  <2>1. PICK f : Frames1(Len(stack), f) /\ f.k = "send"
    BY <1>2 DEF StartsSend
  <2> QED BY <1>0, <2>1, TwicePut
<1>3. ASSUME NEW rst, HandlerReturns(rst) PROVE NoneTwice(stack')
  <2>1. PICK f, c : /\ Len(stack) - 2 \in Nat /\ f.k = "send" /\ c.k = "unwind"
                    /\ Frames1(Len(stack) - 2, f) \/ Frames2(Len(stack) - 2, f, c)
    BY <1>3, HandlerReturnsFrames
  <2> QED BY <2>1, TwicePut
<1>4. CASE UnwindNext
  <2>1. PICK f, c : /\ f.k = "unwind" /\ c.k = "action_body"
                    /\ Frames1(Len(stack) - 1, f) \/ Frames2(Len(stack) - 1, f, c)
    BY <1>4, UnwindNextFrames
  <2> QED BY <1>0, <2>1, TwicePut
<1>5. CASE UnwindDone
  <2>1. PICK f, p : p \in 1 .. Len(stack) - 1 /\ f.k = "point" /\ Frames1(p - 1, f)
    BY <1>5, UnwindDoneFrames
  <2>2. p - 1 \in Nat
    BY <1>0, <2>1
  <2> QED BY <2>1, <2>2, TwicePut
<1>6. CASE Plainly(Len(stack)) \/ TopMoves
  BY <1>6, TwicePlainly DEF TopMoves
<1> QED BY <1>1, <1>2, <1>3, <1>4, <1>5, <1>6, UserFrames, LibraryFrames DEF Next, Ended

(* While no send is in progress, there is nothing to go down with.           *)
LEMMA DownWithoutSends ==
  ASSUME ScopesInv, UNCHANGED stack, FramesOf("send") = {}
  PROVE  Down'
<1>1. DOMAIN stack = 1 .. Len(stack)
  BY StackIs DEF IsSequence
<1>2. \A k \in 1 .. Len(stack) : stack[k].k # "send"
  BY <1>1 DEF FramesOf
<1> QED BY <1>2 DEF Down, SendsDown

KeepsHeld == FramesOf("send") # {} => held \subseteq held'

LEMMA DownAfter ==
  ASSUME ScopesInv, ScopesInv', DownInv, HandlersInv, SendsInv, sig_stacks \in {"live", "freed"},
         [Next]_vars, [KeepsHeld]_vars, sig_stacks' = "live"
  PROVE  Down'
<1>1. /\ sig_stacks = "live" /\ unwind_init_ref > 0 /\ Down /\ NoneTwice(stack)
      /\ HandlersExact /\ SendsLeft(stack)
  BY StaysFreed DEF DownInv, Down, HandlersInv, SendsInv
<1>2. unwind_init_ref' > 0
  BY <1>1, LiveIsReferenced DEF ScopesInv
<1>3. CASE UNCHANGED vars
  <2>1. HandlerEffect
    BY <1>3, HandlersUntouched DEF vars, ScopesInv
  <2> QED BY <1>1, <1>2, <1>3, <2>1, PlainlySame, DownCall DEF vars
<1>4. ASSUME HandlerEffect, Plainly(Len(stack)) \/ TopMoves \/ StartsSend PROVE Down'
  BY <1>1, <1>2, <1>4, DownCall, DownTop, DownStarts
<1>5. CASE UserStep /\ HandlerEffect
  BY <1>1, <1>2, <1>4, <1>5, UserFrames, DownReturns
<1>6. ASSUME NEW id \in held, RmPersistentHandler(id) PROVE Down'
  <2>1. id \notin held' /\ UNCHANGED stack
    BY <1>6 DEF RmPersistentHandler
  <2>2. FramesOf("send") = {}
    BY <2>1 DEF KeepsHeld, vars
  <2> QED BY <2>1, <2>2, DownWithoutSends
<1>7. CASE LibraryStep
  <2>1. HandlerEffect
    BY <1>1, <1>7, LibraryEffect
  <2>2. CASE UnwindNext
    BY <1>1, <1>2, <2>1, <2>2, CoversUnwindNext, DownPlainly
  <2>3. CASE UnwindDone
    BY <1>1, <1>2, <2>1, <2>3, CoversUnwindDone, DownPlainly
  <2>4. CASE SendNext
    BY <1>1, <1>2, <2>1, <2>4, DownNext
  <2> QED BY <1>4, <1>7, <2>1, <2>2, <2>3, <2>4, LibraryFrames
<1> QED BY <1>1, <1>3, <1>5, <1>6, <1>7, UserEffect DEF Next, Ended

LEMMA TwiceAfter ==
  ASSUME ScopesInv, ScopesInv', DownInv, HandlersInv, SendsInv, [Next]_vars
  PROVE  NoneTwice(stack')
<1>1. NoneTwice(stack)
  BY DEF DownInv
<1>2. CASE SendNext
  <2>1. /\ sig_stacks = "live" /\ sig_stacks' = "live"
        /\ UNCHANGED <<sig_handler_stack, unwind_stack, unwind_init_ref>>
    BY <1>2 DEF SendNext, sigVars, exitVars
  <2>2. unwind_init_ref > 0 /\ unwind_init_ref' > 0 /\ Down /\ HandlersExact /\ SendsLeft(stack)
    BY <2>1 DEF DownInv, Down, HandlersInv, SendsInv
  <2>3. HandlerEffect
    BY <2>1, HandlersUntouched DEF ScopesInv
  <2> QED BY <1>1, <1>2, <2>1, <2>2, <2>3, DownNext
<1> QED BY <1>1, <1>2, TwiceOther

LEMMA DownInvNext ==
  ASSUME ScopesInv, ScopesInv', DownInv, HandlersInv, SendsInv, sig_stacks \in {"live", "freed"},
         [Next]_vars, [KeepsHeld]_vars
  PROVE  DownInv'
<1>1. sig_stacks' = "live" => unwind_init_ref' > 0
  BY LiveIsReferenced DEF DownInv, ScopesInv
<1>2. sig_stacks' = "live" => Down'
  BY DownAfter
<1> QED BY <1>1, <1>2, TwiceAfter DEF DownInv, Down

LEMMA DownInit == Init => DownInv
<1> SUFFICES ASSUME Init PROVE DownInv
  OBVIOUS
<1>1. Len(stack) = 1 /\ stack[1].k = "main"
  BY DEF Init
<1>2. \A k \in 1 .. Len(stack) : stack[k].k # "send"
  BY <1>1
<1>3. \A k : k \notin 1 .. Len(stack) - 1
  BY <1>1
<1>4. unwind_init_ref > 0
  BY DEF Init
<1> QED BY <1>2, <1>3, <1>4 DEF DownInv, NoneTwice, SendsDown

LEMMA OnceHolds ==
  ASSUME ScopesInv, NoneTwice(stack)
  PROVE  HandlersCalledOnce
<1>1. PICK n : n = Len(stack) /\ n \in Nat \ {0} /\ DOMAIN stack = 1 .. n
  BY StackIs DEF IsSequence
<1> SUFFICES ASSUME NEW k \in 1 .. n, stack[k].k = "handler_body"
             PROVE  stack[k].id \notin stack[k - 1].called
  BY <1>1 DEF HandlersCalledOnce, FramesOf
<1>2. k # 1
  BY <1>1 DEF ScopesInv, Shape
<1>3. PICK j : j = k - 1 /\ j + 1 = k /\ j \in 1 .. Len(stack) - 1
  BY <1>1, <1>2
<1>4. Above(stack[j], stack[j + 1]) /\ CallsNew(stack[j], stack[j + 1])
  BY <1>3 DEF ScopesInv, Shape, NoneTwice
<1> QED BY <1>3, <1>4 DEF Above, CallsNew

(* A send walks down the handler stack: it calls no handler twice, however   *)
(* handlers open and leave scopes, push handlers, send and unwind meanwhile  *)
(* (signals.c, _sig_send) - as long as no SIG_PERSISTENT_HANDLER is removed  *)
(* while a send is in progress.  A handler that removes one below itself is  *)
(* called again by the same send.                                            *)
THEOREM HandlersRunOnce == Spec /\ [][KeepsHeld]_vars => []HandlersCalledOnce
<1>1. ScopesInv /\ DownInv => HandlersCalledOnce
  BY OnceHolds DEF DownInv
<1>0. Counted => sig_stacks \in {"live", "freed"}
  BY DEF Counted
<1>2. ScopesInv /\ ScopesInv' /\ DownInv /\ HandlersInv /\ SendsInv /\ Counted
        /\ [Next]_vars /\ [KeepsHeld]_vars => DownInv'
  BY <1>0, DownInvNext
<1>3. HandlersInv /\ ScopesInv /\ Counted /\ [Next]_vars => HandlersInv'
  BY <1>0, HandlersNext
<1>4. SendsInv /\ HandlersInv /\ ScopesInv /\ Counted /\ [Next]_vars => SendsInv'
  BY <1>0, SendsNext
<1>5. ScopesInv => SigStacksOK
  BY DEF ScopesInv
<1> QED BY <1>1, <1>2, <1>3, <1>4, <1>5, DownInit, SendsInit, HandlersInit, CountedInit, CountedNext,
           ScopesInvariant, PTL DEF Spec

(* It does so in every thread that pushes no persistent handlers.            *)
THEOREM ScopedHandlersRunOnce ==
  ASSUME MaxPersistent = 0
  PROVE  Spec => []HandlersCalledOnce
<1>1. Init => held = {}
  BY DEF Init
<1>2. held = {} /\ [Next]_vars => (held = {})'
  <2> SUFFICES ASSUME held = {}, [Next]_vars PROVE held' = {}
    OBVIOUS
  <2>1. Cardinality(held) = 0
    BY FS_EmptySet
  <2>2. \A sig : ~PersistentHandler(sig)
    BY <2>1 DEF PersistentHandler
  <2>3. CASE UserStep
    BY <2>2, <2>3 DEF UserStep, UnwindAction, AutopopHandler, AutopopNullHandler, ProvideRestart,
      ReturnPoint, ReprovideRestart, LeaveScope, CallAction, LeaveExplicitScope, LeavePoint,
      ActionReturns, HandlerReturns, RmPersistentHandler, UnwindInit,
      UnwindRelease, Unwind, Send, AssertHandler, ThreadCleansUp, SigCleanup,
      ThreadUnwindCleanup, sigVars
  <2>4. CASE LibraryStep
    BY <2>4 DEF LibraryStep, UnwindNext, CallAction, UnwindDone, SendNext, ReportFails,
      ReportAndRaise, UnwindAll, CatchallCleansUp, SigCleanup, ReportOverflows, ExitThread, CleanupNext,
      CleanupDone, UseAfterFree, UndefinedBehaviour, sigVars
  <2> QED BY <2>3, <2>4 DEF Next, Ended, vars
<1>3. held = {} => [KeepsHeld]_vars
  BY DEF KeepsHeld
<1>4. Spec => [][KeepsHeld]_vars
  BY <1>1, <1>2, <1>3, PTL DEF Spec
<1> QED BY <1>4, HandlersRunOnce, PTL
=================================================================================
