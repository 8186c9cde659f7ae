--------------------------- MODULE ModulesProofs ---------------------------
(***************************************************************************)
(* The module loader initialises modules in the order of what they need,   *)
(* binds names consistently and stops only with a reason, for any set of   *)
(* modules, any dependencies and symbols, and any order of the files.      *)
(***************************************************************************)
EXTENDS Modules, FiniteSetTheorems, TLAPS

Deps(m) == Range(image[m].deps)

Loaded == {m \in Module : status[m] = "LOADED"}

TypeInv ==
    /\ image \in Images
    /\ files \in Seq(Module)
    /\ queue \in Seq(Module)
    /\ at \in Nat \ {0}
    /\ status \in [Module -> {"READY", "LOADING", "LOADED"}]
    /\ stack \in Seq(Module)
    /\ todo \in [Module -> Seq(Module)]
    /\ linked \in SUBSET Module
    /\ DOMAIN bound = Module
    /\ order \in Seq(Module)

\* The stack is a path in the dependencies, without repetition, and holds just
\* the modules that are being loaded.
StackInv ==
    /\ \A j, k \in DOMAIN stack : stack[j] = stack[k] => j = k
    /\ \A m \in Module : status[m] = "LOADING" <=> m \in Range(stack)
    /\ \A k \in DOMAIN stack :
          k + 1 \in DOMAIN stack => stack[k + 1] \in Deps(stack[k])

\* what a dependency d of the activation at k is: loaded, still to be run, or
\* the one that is running
Handled(k, d) ==
    \/ d \in Loaded
    \/ d \in Range(todo[stack[k]])
    \/ k + 1 \in DOMAIN stack /\ d = stack[k + 1]

TodoInv ==
    /\ \A m \in Module : Range(todo[m]) \subseteq Deps(m)
    /\ \A k \in DOMAIN stack : \A d \in Deps(stack[k]) : Handled(k, d)
    /\ \A k \in DOMAIN stack : Deps(stack[k]) \subseteq Range(queue)

\* The loaded modules are those whose init was called, with all they depend on;
\* besides them only the one at the top may be linked.
LoadedInv ==
    /\ Loaded = Range(order)
    /\ \A m \in Loaded : Deps(m) \subseteq Loaded
    /\ Loaded \subseteq linked
    /\ \A m \in linked : m \in Loaded \/ (stack # << >> /\ m = Top /\ todo[m] = << >>)
    /\ dev <=> \E m \in Loaded : image[m].init = "mkdir"

\* A linked module's names have the value the table still has for them.
LinkInv ==
    /\ \A m \in linked : DOMAIN bound[m] = image[m].undef
    /\ \A m \in linked : \A n \in image[m].undef :
          n \in DOMAIN symtab /\ bound[m][n] = symtab[n]
    /\ \A m \in linked : Range(bound[m]) \subseteq Loaded \cup {"kernel"}
    /\ \A n \in DOMAIN symtab : symtab[n] \in linked \cup {"kernel"}

RunInv == StackInv /\ TodoInv /\ LoadedInv /\ LinkInv

\* The inductive invariant: the four parts hold as long as the kernel runs, the
\* properties also when it has stopped.
ModulesInv ==
    /\ TypeInv
    /\ InitOrder
    /\ SymbolsAgree
    /\ PanicJustified
    /\ Running => RunInv

-----------------------------------------------------------------------------
(* Sequences                                                               *)

\* What Append does to the queue, the stack and the order of the inits.
LEMMA AppendFacts ==
    ASSUME NEW S, NEW s \in Seq(S), NEW x \in S
    PROVE  /\ Append(s, x) \in Seq(S)
           /\ Append(s, x) # << >>
           /\ DOMAIN s = 1 .. Len(s)
           /\ DOMAIN Append(s, x) = 1 .. Len(s) + 1
           /\ Len(s) \in Nat
           /\ Len(Append(s, x)) = Len(s) + 1
           /\ \A i \in 1 .. Len(s) : Append(s, x)[i] = s[i]
           /\ Append(s, x)[Len(s) + 1] = x
           /\ Range(Append(s, x)) = Range(s) \cup {x}
<1>1. /\ Append(s, x) \in Seq(S)
      /\ Append(s, x) # << >>
      /\ DOMAIN s = 1 .. Len(s)
      /\ DOMAIN Append(s, x) = 1 .. Len(s) + 1
      /\ Len(s) \in Nat
      /\ Len(Append(s, x)) = Len(s) + 1
      /\ \A i \in 1 .. Len(s) : Append(s, x)[i] = s[i]
      /\ Append(s, x)[Len(s) + 1] = x
  OBVIOUS
<1>2. Range(Append(s, x)) = Range(s) \cup {x}
  BY <1>1 DEF Range
<1> QED
  BY <1>1, <1>2, Zenon

\* What is left of the stack, or of the dependencies still to run, without
\* its last element.
LEMMA FrontFacts ==
    ASSUME NEW S, NEW s \in Seq(S), s # << >>
    PROVE  /\ SubSeq(s, 1, Len(s) - 1) \in Seq(S)
           /\ DOMAIN s = 1 .. Len(s)
           /\ Len(s) \in Nat \ {0}
           /\ Len(SubSeq(s, 1, Len(s) - 1)) = Len(s) - 1
           /\ DOMAIN SubSeq(s, 1, Len(s) - 1) = 1 .. Len(s) - 1
           /\ \A i \in 1 .. Len(s) - 1 : SubSeq(s, 1, Len(s) - 1)[i] = s[i]
           /\ s[Len(s)] \in S
           /\ s[Len(s)] \in Range(s)
           /\ Range(s) = Range(SubSeq(s, 1, Len(s) - 1)) \cup {s[Len(s)]}
<1> DEFINE f == SubSeq(s, 1, Len(s) - 1)
<1>1. DOMAIN s = 1 .. Len(s) /\ Len(s) \in Nat \ {0}
  OBVIOUS
<1>2. /\ f \in Seq(S)
      /\ Len(f) = Len(s) - 1
      /\ DOMAIN f = 1 .. Len(s) - 1
      /\ \A i \in 1 .. Len(s) - 1 : f[i] = s[i]
  BY <1>1
<1>3. s[Len(s)] \in S /\ s[Len(s)] \in Range(s)
  BY <1>1 DEF Range
<1>4. Range(s) = Range(f) \cup {s[Len(s)]}
  <2> HIDE DEF f
  <2> QED
    BY <1>1, <1>2, SMTT(30) DEF Range
<1> QED
  BY <1>1, <1>2, <1>3, <1>4, Zenon

\* What the members of a sequence are.
LEMMA RangeFacts ==
    ASSUME NEW S, NEW s \in Seq(S)
    PROVE  /\ Range(s) \subseteq S
           /\ DOMAIN s = 1 .. Len(s)
           /\ Len(s) \in Nat
           /\ Range(<< >>) = {}
           /\ \A x \in Range(s) : \E i \in 1 .. Len(s) : s[i] = x
           /\ \A i \in 1 .. Len(s) : s[i] \in Range(s)
BY DEF Range

-----------------------------------------------------------------------------
(* The types                                                               *)

\* A module's file is what the constants say it is.
LEMMA ImageFacts ==
    ASSUME image \in Images, NEW m \in Module
    PROVE  /\ image[m].deps \in Seq(Module)
           /\ Deps(m) \subseteq Module
           /\ image[m].init \in {"plain", "mkdir", "mkdev"}
<1>1. image[m].deps \in Seq(Module) /\ image[m].init \in {"plain", "mkdir", "mkdev"}
  BY ModuleAssumption, Zenon
<1> QED
  BY <1>1, RangeFacts, Zenon DEF Deps

\* Entering module_run keeps the types.
LEMMA EnterType ==
    ASSUME TypeInv, NEW m \in Module, NEW s \in [Module -> Seq(Module)],
           Enter(m, s)
    PROVE  /\ status' \in [Module -> {"READY", "LOADING", "LOADED"}]
           /\ stack' \in Seq(Module)
           /\ todo' \in [Module -> Seq(Module)]
<1>1. image[m].deps \in Seq(Module)
  BY ImageFacts, Zenon DEF TypeInv
<1>2. CASE AlreadyLoaded(m, s)
  BY <1>2, Zenon DEF AlreadyLoaded, TypeInv
<1>3. CASE DependencyLoop(m, s)
  BY <1>3, Zenon DEF DependencyLoop, TypeInv
<1>4. CASE Unresolved(m, s)
  BY <1>4, Zenon DEF Unresolved, TypeInv
<1>5. CASE DepsOverrun(m, s)
  BY <1>5, Zenon DEF DepsOverrun, TypeInv
<1>6. CASE Start(m, s)
  BY <1>1, <1>6 DEF Start, TypeInv
<1> QED
  BY <1>2, <1>3, <1>4, <1>5, <1>6, Zenon DEF Enter

\* The dependencies still to run, without the one that RunDep takes.
LEMMA PoppedType ==
    ASSUME TypeInv, stack # << >>, todo[Top] # << >>
    PROVE  /\ Top \in Module
           /\ NextDep(Top) \in Module
           /\ [todo EXCEPT ![Top] = SubSeq(todo[Top], 1, Len(todo[Top]) - 1)]
                 \in [Module -> Seq(Module)]
<1>1. Top \in Module
  BY FrontFacts, Zenon DEF TypeInv, Top
<1>2. todo[Top] \in Seq(Module)
  BY <1>1, Zenon DEF TypeInv
<1>3. NextDep(Top) \in Module /\ SubSeq(todo[Top], 1, Len(todo[Top]) - 1) \in Seq(Module)
  BY <1>2, FrontFacts, Zenon DEF NextDep
<1> QED
  BY <1>1, <1>3, Zenon DEF TypeInv

\* Every step keeps the types.
LEMMA TypeStep == TypeInv /\ [Next]_vars => TypeInv'
<1> SUFFICES ASSUME TypeInv, [Next]_vars PROVE TypeInv'
  BY Zenon
<1>1. CASE Enqueue
  <2>1. Head(files) \in Module /\ Tail(files) \in Seq(Module)
    BY <1>1 DEF Enqueue, TypeInv
  <2>2. queue' = queue \/ queue' = Append(queue, Head(files))
    BY <1>1, Zenon DEF Enqueue
  <2>3. queue' \in Seq(Module)
    <3>1. queue \in Seq(Module)
      BY Zenon DEF TypeInv
    <3>2. Append(queue, Head(files)) \in Seq(Module)
      BY <2>1, <3>1, AppendFacts, Zenon
    <3> QED
      BY <2>2, <3>1, <3>2, Zenon
  <2> QED
    BY <1>1, <2>1, <2>3, Zenon DEF Enqueue, TypeInv
<1>2. CASE RunNext
  <2>1. queue[at] \in Module /\ todo \in [Module -> Seq(Module)]
    BY <1>2 DEF RunNext, TypeInv
  <2>2. Enter(queue[at], todo)
    BY <1>2, Zenon DEF RunNext
  <2>3. /\ status' \in [Module -> {"READY", "LOADING", "LOADED"}]
        /\ stack' \in Seq(Module)
        /\ todo' \in [Module -> Seq(Module)]
    BY <2>1, <2>2, EnterType, Zenon
  <2> QED
    BY <1>2, <2>3, SMTT(30) DEF RunNext, TypeInv
<1>3. CASE RunDep
  <2> DEFINE s == [todo EXCEPT ![Top] = SubSeq(todo[Top], 1, Len(todo[Top]) - 1)]
  <2>1. NextDep(Top) \in Module /\ s \in [Module -> Seq(Module)]
    BY <1>3, PoppedType, Zenon DEF RunDep
  <2>2. Enter(NextDep(Top), s)
    BY <1>3, Zenon DEF RunDep
  <2> HIDE DEF s
  <2>3. /\ status' \in [Module -> {"READY", "LOADING", "LOADED"}]
        /\ stack' \in Seq(Module)
        /\ todo' \in [Module -> Seq(Module)]
    BY <2>1, <2>2, EnterType, Zenon
  <2> QED
    BY <1>3, <2>3, Zenon DEF RunDep, TypeInv
<1>4. ASSUME NEW m \in Module, Link(m) PROVE TypeInv'
  <2>1. linked' \in SUBSET Module /\ DOMAIN bound' = Module
    BY <1>4, Zenon DEF Link, TypeInv
  <2> QED
    BY <1>4, <2>1, Zenon DEF Link, TypeInv
<1>5. ASSUME NEW m \in Module, CallInit(m) PROVE TypeInv'
  <2>1. order' \in Seq(Module) /\ stack # << >>
    BY <1>5 DEF CallInit, Ready, TypeInv
  <2>2. status' \in [Module -> {"READY", "LOADING", "LOADED"}]
    BY <1>5, Zenon DEF CallInit, TypeInv
  <2>3. SubSeq(stack, 1, Len(stack) - 1) \in Seq(Module)
    BY <2>1, FrontFacts, Zenon DEF TypeInv
  <2>4. stack' \in Seq(Module)
    BY <1>5, <2>3, Zenon DEF CallInit, TypeInv
  <2> QED
    BY <1>5, <2>1, <2>2, <2>4, Zenon DEF CallInit, TypeInv
<1>6. CASE UNCHANGED vars
  BY <1>6, Zenon DEF TypeInv, vars
<1> QED
  BY <1>1, <1>2, <1>3, <1>4, <1>5, <1>6, Zenon DEF Next, Step, Stopped

-----------------------------------------------------------------------------
(* module_run begins                                                       *)

\* A kernel that runs has no stop to justify.
LEMMA RunningJustified == Running => PanicJustified
BY Zenon DEF Running, PanicJustified

\* A place on the stack that is not the last has a next one.
LEMMA NextPlace ==
    ASSUME NEW n \in Nat, NEW k \in 1 .. n, NEW j \in k .. n, j # n
    PROVE  j + 1 \in k .. n /\ j \in 1 .. n /\ j + 1 \in 1 .. n
OBVIOUS

\* The stack from an activation of m on is a loop when its top depends on m.
LEMMA StackLoop ==
    ASSUME TypeInv, StackInv, NEW m \in Range(stack), m \in Deps(Top)
    PROVE  Cyclic
<1> USE DEF TypeInv
<1>1. PICK k \in 1 .. Len(stack) : stack[k] = m
  BY RangeFacts, Zenon
<1>2. DOMAIN stack = 1 .. Len(stack) /\ Len(stack) \in Nat
  OBVIOUS
<1> DEFINE S == {stack[j] : j \in k .. Len(stack)}
<1>3. S \in SUBSET Module /\ m \in S
  BY <1>1, <1>2
<1>4. ASSUME NEW x \in S PROVE Range(image[x].deps) \cap S # {}
  <2>1. PICK j \in k .. Len(stack) : stack[j] = x
    BY Zenon
  <2>2. CASE j = Len(stack)
    <3>1. m \in Range(image[x].deps)
      BY <2>1, <2>2, Zenon DEF Top, Deps
    <3> QED
      BY <3>1, <1>3, Zenon
  <2>3. CASE j # Len(stack)
    <3>1. j + 1 \in k .. Len(stack) /\ j \in DOMAIN stack /\ j + 1 \in DOMAIN stack
      BY <1>2, <2>3, NextPlace, Zenon
    <3>2. stack[j + 1] \in Range(image[x].deps)
      BY <2>1, <3>1, Zenon DEF StackInv, Deps
    <3>3. stack[j + 1] \in S
      BY <3>1, Zenon
    <3> QED
      BY <3>2, <3>3, Zenon
  <2> QED
    BY <2>2, <2>3, Zenon
<1> HIDE DEF S
<1> QED
  BY <1>3, <1>4, Zenon DEF Cyclic

\* What RunNext and RunDep know of the module m they are about to run, s being
\* what todo becomes with the entry for m taken off.
Entering(m, s) ==
    /\ m \in Range(queue)
    /\ linked \subseteq Loaded
    /\ stack # << >> => m \in Deps(Top)
    /\ \A k \in Module : Range(s[k]) \subseteq Range(todo[k])
    /\ \A k \in DOMAIN stack : \A d \in Deps(stack[k]) :
          \/ d \in Loaded
          \/ d \in Range(s[stack[k]])
          \/ k + 1 \in DOMAIN stack /\ d = stack[k + 1]
          \/ k = Len(stack) /\ d = m

\* module_run of a loaded module returns at once.
LEMMA EnterLoaded ==
    ASSUME TypeInv, RunInv, NEW m \in Module, NEW s \in [Module -> Seq(Module)],
           Entering(m, s), AlreadyLoaded(m, s),
           UNCHANGED <<image, queue, symtab, linked, bound, order, dev>>
    PROVE  RunInv'
<1>1. Loaded' = Loaded /\ m \in Loaded /\ UNCHANGED <<status, stack>> /\ todo' = s
  BY Zenon DEF AlreadyLoaded, Loaded
<1>2. StackInv'
  BY <1>1, Zenon DEF RunInv, StackInv, Deps
<1>3. TodoInv'
  <2>1. \A k \in Module : Range(todo'[k]) \subseteq Deps(k)'
    BY <1>1, Zenon DEF RunInv, TodoInv, Entering, Deps
  <2>2. \A k \in DOMAIN stack' : Deps(stack[k])' \subseteq Range(queue)'
    BY <1>1, Zenon DEF RunInv, TodoInv, Deps
  <2>3. ASSUME NEW k \in DOMAIN stack', NEW d \in Deps(stack[k])' PROVE Handled(k, d)'
    BY <1>1, Zenon DEF Entering, Handled, Deps
  <2> QED
    BY <2>1, <2>2, <2>3, Zenon DEF TodoInv
<1>4. LoadedInv'
  BY <1>1, Zenon DEF RunInv, LoadedInv, Entering, Deps
<1>5. LinkInv'
  BY <1>1, Zenon DEF RunInv, LinkInv
<1> QED
  BY <1>2, <1>3, <1>4, <1>5, Zenon DEF RunInv

\* module_run of a new module puts it on the stack, all it depends on still to
\* be run.
LEMMA EnterStart ==
    ASSUME TypeInv, RunInv, NEW m \in Module, NEW s \in [Module -> Seq(Module)],
           Entering(m, s), Start(m, s),
           UNCHANGED <<image, queue, symtab, linked, bound, order, dev>>
    PROVE  RunInv'
<1> DEFINE n == Len(stack)
<1>1. /\ stack' = Append(stack, m)
      /\ todo' = [s EXCEPT ![m] = image[m].deps]
      /\ status' = [status EXCEPT ![m] = "LOADING"]
      /\ status[m] = "READY"
      /\ Missing(m) = {}
  BY Zenon DEF Start
<1>2. /\ DOMAIN stack = 1 .. n
      /\ DOMAIN stack' = 1 .. n + 1
      /\ n \in Nat
      /\ \A i \in 1 .. n : stack'[i] = stack[i] /\ stack[i] \in Range(stack) /\ stack[i] \in Module
      /\ stack'[n + 1] = m
      /\ Range(stack') = Range(stack) \cup {m}
  BY <1>1, AppendFacts, RangeFacts, SMTT(30) DEF TypeInv
<1>3. m \notin Range(stack) /\ m \notin Loaded
  BY <1>1, Zenon DEF RunInv, StackInv, Loaded
<1>4. Loaded' = Loaded
  BY <1>1, Zenon DEF Loaded, TypeInv
<1>5. \A k \in Module : Deps(k)' = Deps(k)
  BY Zenon DEF Deps
<1>6. n # 0 => stack # << >> /\ Top = stack[n]
  BY <1>2 DEF Top
<1> HIDE DEF n
<1>7. StackInv'
  <2>1. ASSUME NEW j \in DOMAIN stack', NEW k \in DOMAIN stack', stack'[j] = stack'[k]
        PROVE  j = k
    <3>1. CASE j \in 1 .. n /\ k \in 1 .. n
      BY <1>2, <2>1, <3>1, Zenon DEF RunInv, StackInv
    <3>2. CASE j = n + 1 \/ k = n + 1
      BY <1>2, <1>3, <2>1, <3>2, SMTT(30)
    <3> QED
      BY <1>2, <3>1, <3>2
  <2>2. ASSUME NEW x \in Module PROVE status'[x] = "LOADING" <=> x \in Range(stack')
    BY <1>1, <1>2, Zenon DEF RunInv, StackInv, TypeInv
  <2>3. ASSUME NEW k \in DOMAIN stack', k + 1 \in DOMAIN stack'
        PROVE  stack'[k + 1] \in Deps(stack[k])'
    <3>1. k \in 1 .. n /\ Deps(stack[k])' = Deps(stack[k])
      BY <1>2, <1>5, <2>3 DEF Deps
    <3>2. CASE k = n
      BY <1>2, <1>6, <3>1, <3>2 DEF Entering
    <3>3. CASE k # n
      <4>1. k \in DOMAIN stack /\ k + 1 \in DOMAIN stack
        BY <1>2, <3>1, <3>3
      <4>2. stack[k + 1] \in Deps(stack[k])
        BY <4>1, Zenon DEF RunInv, StackInv
      <4> QED
        BY <1>2, <3>1, <4>1, <4>2, Zenon
    <3> QED
      BY <3>2, <3>3, Zenon
  <2> QED
    BY <2>1, <2>2, <2>3, Zenon DEF StackInv
<1>8. TodoInv'
  <2>1. ASSUME NEW k \in Module PROVE Range(todo'[k]) \subseteq Deps(k)'
    <3>1. CASE k = m
      BY <1>1, <3>1, Zenon DEF Deps
    <3>2. CASE k # m
      BY <1>1, <1>5, <3>2 DEF RunInv, TodoInv, Entering
    <3> QED
      BY <3>1, <3>2, Zenon
  <2>2. ASSUME NEW k \in DOMAIN stack', NEW d \in Deps(stack[k])' PROVE Handled(k, d)'
    <3>1. CASE k = n + 1
      <4>1. d \in Range(todo'[m])
        BY <1>1, <1>2, <2>2, <3>1, Zenon DEF Deps
      <4> QED
        BY <1>2, <3>1, <4>1, Zenon DEF Handled
    <3>2. CASE k \in 1 .. n
      <4>1. stack'[k] = stack[k] /\ stack[k] # m /\ todo'[stack[k]] = s[stack[k]]
        BY <1>1, <1>2, <1>3, <3>2, Zenon
      <4>2. d \in Deps(stack[k])
        BY <2>2, <4>1, Zenon DEF Deps
      <4>3. \/ d \in Loaded
            \/ d \in Range(s[stack[k]])
            \/ k + 1 \in DOMAIN stack /\ d = stack[k + 1]
            \/ k = n /\ d = m
        BY <1>2, <3>2, <4>2, Zenon DEF Entering, n
      <4>4. k + 1 \in DOMAIN stack /\ d = stack[k + 1]
               => k + 1 \in DOMAIN stack' /\ d = stack'[k + 1]
        BY <1>2
      <4>5. k = n /\ d = m => k + 1 \in DOMAIN stack' /\ d = stack'[k + 1]
        BY <1>2
      <4> QED
        BY <1>4, <4>1, <4>3, <4>4, <4>5, Zenon DEF Handled
    <3> QED
      BY <1>2, <3>1, <3>2
  <2>3. ASSUME NEW k \in DOMAIN stack' PROVE Deps(stack[k])' \subseteq Range(queue)'
    <3>1. CASE k = n + 1
      BY <1>1, <1>2, <3>1, Zenon DEF Missing, Deps
    <3>2. CASE k \in 1 .. n
      BY <1>2, <3>2, Zenon DEF RunInv, TodoInv, Deps
    <3> QED
      BY <1>2, <3>1, <3>2
  <2> QED
    BY <2>1, <2>2, <2>3, Zenon DEF TodoInv
<1>9. LoadedInv'
  <2>1. \A k \in Loaded : Deps(k)' = Deps(k)
    BY Zenon DEF Deps
  <2> QED
    BY <1>4, <2>1 DEF RunInv, LoadedInv, Entering
<1>10. LinkInv'
  BY <1>4, Zenon DEF RunInv, LinkInv
<1> QED
  BY <1>7, <1>8, <1>9, <1>10, Zenon DEF RunInv

\* Whatever module_run finds of the module, the invariant is kept, and if it
\* stops the kernel it has a reason.
LEMMA EnterInv ==
    ASSUME TypeInv, RunInv, Running,
           NEW m \in Module, NEW s \in [Module -> Seq(Module)],
           Entering(m, s), Enter(m, s),
           UNCHANGED <<image, queue, symtab, linked, bound, order, dev>>
    PROVE  PanicJustified' /\ (Running' => RunInv')
<1>1. CASE AlreadyLoaded(m, s)
  <2>1. Running'
    BY <1>1, Zenon DEF AlreadyLoaded, Running
  <2> QED
    BY <1>1, <2>1, EnterLoaded, Zenon DEF Running, PanicJustified
<1>2. CASE DependencyLoop(m, s)
  <2>1. panic' = "loop" /\ status[m] = "LOADING"
    BY <1>2, Zenon DEF DependencyLoop, kpanic
  <2>2. m \in Range(stack)
    BY <2>1, Zenon DEF RunInv, StackInv
  <2>3. stack # << >>
    BY <2>2 DEF Range
  <2>4. Cyclic
    BY <2>2, <2>3, StackLoop, Zenon DEF Entering, RunInv
  <2>5. Cyclic'
    BY <2>4, Zenon DEF Cyclic
  <2> QED
    BY <2>1, <2>5, Zenon DEF PanicJustified, Running
<1>3. CASE Unresolved(m, s)
  <2>1. panic' = "unresolved" /\ Missing(m) # {}
    BY <1>3, Zenon DEF Unresolved, kpanic
  <2>2. \E x \in Range(queue') : Missing(x)' # {}
    BY <2>1, Zenon DEF Missing, Entering
  <2> QED
    BY <2>1, <2>2, Zenon DEF PanicJustified, Running
<1>4. CASE DepsOverrun(m, s)
  BY <1>4, Zenon DEF DepsOverrun, kpanic, PanicJustified, Running
<1>5. CASE Start(m, s)
  <2>1. Running'
    BY <1>5, Zenon DEF Start, Running
  <2> QED
    BY <1>5, <2>1, EnterStart, Zenon DEF Running, PanicJustified
<1> QED
  BY <1>1, <1>2, <1>3, <1>4, <1>5, Zenon DEF Enter

\* A step that calls no init and links nothing leaves both properties alone.
LEMMA KeepProperties ==
    ASSUME InitOrder, SymbolsAgree, UNCHANGED <<image, order, linked, bound>>
    PROVE  InitOrder' /\ SymbolsAgree'
BY DEF InitOrder, Before, SymbolsAgree

\* Queueing a file keeps the invariant.
LEMMA EnqueueInv ==
    ASSUME ModulesInv, Enqueue
    PROVE  PanicJustified' /\ (Running' => RunInv')
<1> USE DEF ModulesInv
<1>1. UNCHANGED <<image, status, stack, todo, symtab, linked, bound, order, dev>>
  BY Zenon DEF Enqueue
<1>2. CASE Head(files) \in Range(queue)
  BY <1>2, Zenon DEF Enqueue, kpanic, PanicJustified, Running
<1>3. CASE Head(files) \notin Range(queue)
  <2>1. queue' = Append(queue, Head(files)) /\ Running /\ Running'
    BY <1>3, Zenon DEF Enqueue, Running
  <2>2. Head(files) \in Module /\ queue \in Seq(Module)
    BY DEF Enqueue, TypeInv
  <2>3. Range(queue) \subseteq Range(queue')
    BY <2>1, <2>2, AppendFacts
  <2>4. Loaded' = Loaded
    BY <1>1, Zenon DEF Loaded
  <2>5. StackInv'
    BY <1>1, <2>1, Zenon DEF RunInv, StackInv, Deps
  <2>6. TodoInv'
    <3>1. ASSUME NEW k \in DOMAIN stack', NEW d \in Deps(stack[k])' PROVE Handled(k, d)'
      BY <1>1, <2>1, <2>4, Zenon DEF RunInv, TodoInv, Handled, Deps
    <3>2. \A k \in DOMAIN stack' : Deps(stack[k])' \subseteq Range(queue)'
      BY <1>1, <2>1, <2>3, Zenon DEF RunInv, TodoInv, Deps
    <3>3. \A m \in Module : Range(todo'[m]) \subseteq Deps(m)'
      BY <1>1, <2>1, Zenon DEF RunInv, TodoInv, Deps
    <3> QED
      BY <3>1, <3>2, <3>3, Zenon DEF TodoInv
  <2>7. LoadedInv'
    BY <1>1, <2>1, <2>4, Zenon DEF RunInv, LoadedInv, Deps, Top
  <2>8. LinkInv'
    BY <1>1, <2>1, <2>4, Zenon DEF RunInv, LinkInv
  <2> QED
    BY <2>1, <2>5, <2>6, <2>7, <2>8, Zenon DEF RunInv, Running, PanicJustified
<1> QED
  BY <1>2, <1>3, Zenon

\* Running the next module of the queue keeps the invariant.
LEMMA RunNextInv ==
    ASSUME ModulesInv, RunNext
    PROVE  PanicJustified' /\ (Running' => RunInv')
<1> USE DEF ModulesInv
<1>1. TypeInv /\ RunInv /\ Running
  BY Zenon DEF RunNext
<1>2. queue[at] \in Module /\ queue[at] \in Range(queue)
  <2>1. at \in 1 .. Len(queue) /\ queue \in Seq(Module)
    BY <1>1 DEF RunNext, TypeInv
  <2> QED
    BY <2>1, RangeFacts, Zenon
<1>3. stack = << >> /\ DOMAIN stack = {}
  BY DEF RunNext
<1>4. Entering(queue[at], todo)
  BY <1>1, <1>2, <1>3, Zenon DEF Entering, RunInv, LoadedInv
<1>5. Enter(queue[at], todo) /\ todo \in [Module -> Seq(Module)]
  BY <1>1, Zenon DEF RunNext, TypeInv
<1>6. UNCHANGED <<image, queue, symtab, linked, bound, order, dev>>
  BY Zenon DEF RunNext
<1> QED
  BY <1>1, <1>2, <1>4, <1>5, <1>6, EnterInv, Zenon

\* Running the next dependency of the module at the top keeps the invariant.
LEMMA RunDepInv ==
    ASSUME ModulesInv, RunDep
    PROVE  PanicJustified' /\ (Running' => RunInv')
<1> USE DEF ModulesInv
<1> DEFINE s == [todo EXCEPT ![Top] = SubSeq(todo[Top], 1, Len(todo[Top]) - 1)]
           m == NextDep(Top)
<1>1. TypeInv /\ RunInv /\ Running /\ stack # << >> /\ todo[Top] # << >>
  BY Zenon DEF RunDep
<1>2. Top \in Module /\ m \in Module /\ s \in [Module -> Seq(Module)]
  BY <1>1, PoppedType, Zenon
<1>3. Enter(m, s) /\ UNCHANGED <<image, queue, symtab, linked, bound, order, dev>>
  BY Zenon DEF RunDep
<1>4. /\ Len(stack) \in DOMAIN stack
      /\ Top = stack[Len(stack)]
      /\ \A k \in DOMAIN stack : stack[k] \in Module
  BY <1>1, FrontFacts, RangeFacts, SMTT(30) DEF TypeInv, Top
<1>5. todo[Top] \in Seq(Module)
  BY <1>1, <1>2, Zenon DEF TypeInv
<1>6. m \in Range(todo[Top]) /\ Range(todo[Top]) = Range(s[Top]) \cup {m}
  <2>1. s[Top] = SubSeq(todo[Top], 1, Len(todo[Top]) - 1)
    BY <1>1, <1>2, Zenon DEF TypeInv
  <2> QED
    BY <1>1, <1>5, <2>1, FrontFacts, Zenon DEF NextDep
<1>7. \A k \in Module : k # Top => s[k] = todo[k]
  BY <1>1, Zenon DEF TypeInv
<1> HIDE DEF s, m
<1>8. m \in Deps(Top) /\ m \in Range(queue)
  BY <1>1, <1>2, <1>4, <1>6, Zenon DEF RunInv, TodoInv
<1>9. linked \subseteq Loaded
  BY <1>1, Zenon DEF RunInv, LoadedInv
<1>10. \A k \in Module : Range(s[k]) \subseteq Range(todo[k])
  BY <1>6, <1>7, Zenon
<1>11. ASSUME NEW k \in DOMAIN stack, NEW d \in Deps(stack[k])
       PROVE  \/ d \in Loaded
              \/ d \in Range(s[stack[k]])
              \/ k + 1 \in DOMAIN stack /\ d = stack[k + 1]
              \/ k = Len(stack) /\ d = m
  <2>1. Handled(k, d)
    BY <1>1, <1>11, Zenon DEF RunInv, TodoInv
  <2>2. CASE stack[k] = Top
    <3>1. k = Len(stack)
      BY <1>1, <1>4, <2>2, Zenon DEF RunInv, StackInv
    <3> QED
      BY <1>6, <2>1, <2>2, <3>1, Zenon DEF Handled
  <2>3. CASE stack[k] # Top
    BY <1>4, <1>7, <2>1, <2>3, Zenon DEF Handled
  <2> QED
    BY <2>2, <2>3, Zenon
<1>12. Entering(m, s)
  BY <1>8, <1>9, <1>10, <1>11, Zenon DEF Entering
<1> QED
  BY <1>1, <1>2, <1>3, <1>12, EnterInv, Zenon

-----------------------------------------------------------------------------
(* Linking                                                                 *)

\* A module is linked with what the table has, and the table keeps it.
LEMMA LinkedTable ==
    ASSUME NEW m \in Module, Undefined(m) = {}, Clashes(m) = {},
           symtab' = Linked(m)
    PROVE  /\ DOMAIN symtab \subseteq DOMAIN symtab'
           /\ image[m].undef \subseteq DOMAIN symtab'
           /\ \A n \in DOMAIN symtab : symtab'[n] = symtab[n]
           /\ \A n \in image[m].undef : symtab'[n] = Resolve(n)
           /\ \A n \in DOMAIN symtab' \ DOMAIN symtab : symtab'[n] \in {m, "kernel"}
<1>1. DOMAIN symtab' = DOMAIN symtab \cup FromKernel(m) \cup image[m].defs
  BY Zenon DEF Linked, Exported
<1>2. \A n \in DOMAIN symtab' :
         symtab'[n] = IF n \in DOMAIN symtab THEN symtab[n]
                      ELSE IF n \in image[m].defs THEN m ELSE "kernel"
  BY Zenon DEF Linked
<1>3. ASSUME NEW n \in image[m].undef
      PROVE  n \in DOMAIN symtab' /\ symtab'[n] = Resolve(n)
  <2>1. CASE n \in DOMAIN symtab
    BY <1>1, <1>2, <2>1, Zenon DEF Resolve
  <2>2. CASE n \notin DOMAIN symtab
    <3>1. n \in FromKernel(m)
      BY <2>2, Zenon DEF Undefined, FromKernel
    <3>2. n \notin image[m].defs
      BY <3>1, Zenon DEF Clashes
    <3> QED
      BY <1>1, <1>2, <2>2, <3>1, <3>2, Zenon DEF Resolve
  <2> QED
    BY <2>1, <2>2, Zenon
<1> QED
  BY <1>1, <1>2, <1>3, Zenon

\* Linking the module at the top keeps the invariant and both properties.
LEMMA LinkStep ==
    ASSUME ModulesInv, NEW m \in Module, Link(m)
    PROVE  InitOrder' /\ SymbolsAgree' /\ PanicJustified' /\ (Running' => RunInv')
<1> USE DEF ModulesInv
<1>1. TypeInv /\ RunInv /\ Running /\ stack # << >> /\ m = Top /\ todo[m] = << >>
      /\ m \notin linked
  BY Zenon DEF Link, Ready
<1>2. UNCHANGED <<image, queue, status, stack, todo, order, dev>>
  BY Zenon DEF Link
<1>3. CASE UNCHANGED <<symtab, linked, bound>> /\ kpanic("undefined")
  <2>1. PanicJustified' /\ ~Running'
    BY <1>3, Zenon DEF kpanic, PanicJustified, Running
  <2> QED
    BY <1>2, <1>3, <2>1, KeepProperties, Zenon
<1>4. CASE UNCHANGED <<symtab, linked, bound>> /\ kpanic("already defined")
  <2>1. PanicJustified' /\ ~Running'
    BY <1>4, Zenon DEF kpanic, PanicJustified, Running
  <2> QED
    BY <1>2, <1>4, <2>1, KeepProperties, Zenon
<1>5. CASE /\ Undefined(m) = {}
           /\ Clashes(m) = {}
           /\ symtab' = Linked(m)
           /\ linked' = linked \cup {m}
           /\ bound' = [bound EXCEPT ![m] = [n \in image[m].undef |-> Resolve(n)]]
           /\ UNCHANGED panic
  <2>1. Loaded' = Loaded
    BY <1>2, Zenon DEF Loaded
  <2>2. linked \subseteq Loaded
    BY <1>1, Zenon DEF RunInv, LoadedInv
  <2>3. /\ DOMAIN symtab \subseteq DOMAIN symtab'
        /\ image[m].undef \subseteq DOMAIN symtab'
        /\ \A n \in DOMAIN symtab : symtab'[n] = symtab[n]
        /\ \A n \in image[m].undef : symtab'[n] = Resolve(n)
        /\ \A n \in DOMAIN symtab' \ DOMAIN symtab : symtab'[n] \in {m, "kernel"}
    BY <1>5, LinkedTable, Zenon
  <2>4. /\ bound'[m] = [n \in image[m].undef |-> Resolve(n)]
        /\ \A k \in linked : bound'[k] = bound[k]
    <3>1. DOMAIN bound = Module /\ linked \subseteq Module
      BY <1>1, Zenon DEF TypeInv
    <3>2. bound' = [bound EXCEPT ![m] = [n \in image[m].undef |-> Resolve(n)]]
      BY <1>5, Zenon
    <3>3. m \notin linked
      BY <1>1, Zenon
    <3> QED
      BY <3>1, <3>2, <3>3, Zenon
  <2>5. LinkInv'
    <3>1. ASSUME NEW k \in linked' PROVE DOMAIN bound'[k] = image'[k].undef
      <4>1. CASE k = m
        BY <1>2, <2>4, <4>1, Zenon
      <4>2. CASE k \in linked
        <5>1. DOMAIN bound[k] = image[k].undef
          BY <1>1, <4>2, Zenon DEF RunInv, LinkInv
        <5> QED
          BY <1>2, <2>4, <4>2, <5>1, Zenon
      <4> QED
        BY <1>5, <4>1, <4>2, Zenon
    <3>2. ASSUME NEW k \in linked', NEW n \in image'[k].undef
          PROVE  n \in DOMAIN symtab' /\ bound'[k][n] = symtab'[n]
      <4>1. CASE k = m
        <5>1. n \in image[m].undef
          BY <1>2, <4>1, Zenon
        <5>2. bound'[m][n] = Resolve(n)
          BY <2>4, <5>1, Zenon
        <5>3. n \in DOMAIN symtab' /\ symtab'[n] = Resolve(n)
          BY <2>3, <5>1, Zenon
        <5> QED
          BY <4>1, <5>2, <5>3, Zenon
      <4>2. CASE k \in linked
        <5>1. n \in image[k].undef
          BY <1>2, Zenon
        <5>2. n \in DOMAIN symtab /\ bound[k][n] = symtab[n]
          BY <1>1, <4>2, <5>1, Zenon DEF RunInv, LinkInv
        <5>3. n \in DOMAIN symtab' /\ symtab'[n] = symtab[n]
          BY <2>3, <5>2, Zenon
        <5> QED
          BY <2>4, <4>2, <5>2, <5>3, Zenon
      <4> QED
        BY <1>5, <4>1, <4>2, Zenon
    <3>3. ASSUME NEW k \in linked' PROVE Range(bound'[k]) \subseteq Loaded' \cup {"kernel"}
      <4>1. CASE k = m
        <5>1. ASSUME NEW n \in image[m].undef PROVE Resolve(n) \in Loaded \cup {"kernel"}
          BY <1>1, <2>2, Zenon DEF RunInv, LinkInv, Resolve
        <5> QED
          BY <2>1, <2>4, <4>1, <5>1 DEF Range
      <4>2. CASE k \in linked
        BY <1>1, <2>1, <2>4, <4>2, Zenon DEF RunInv, LinkInv
      <4> QED
        BY <1>5, <4>1, <4>2, Zenon
    <3>4. ASSUME NEW n \in DOMAIN symtab' PROVE symtab'[n] \in linked' \cup {"kernel"}
      BY <1>1, <1>5, <2>3, Zenon DEF RunInv, LinkInv
    <3> QED
      BY <3>1, <3>2, <3>3, <3>4, Zenon DEF LinkInv
  <2>6. StackInv'
    BY <1>1, <1>2, Zenon DEF RunInv, StackInv, Deps
  <2>7. TodoInv'
    <3>1. ASSUME NEW k \in DOMAIN stack', NEW d \in Deps(stack[k])' PROVE Handled(k, d)'
      BY <1>1, <1>2, <2>1, Zenon DEF RunInv, TodoInv, Handled, Deps
    <3>2. \A k \in DOMAIN stack' : Deps(stack[k])' \subseteq Range(queue)'
      BY <1>1, <1>2, Zenon DEF RunInv, TodoInv, Deps
    <3>3. \A k \in Module : Range(todo'[k]) \subseteq Deps(k)'
      BY <1>1, <1>2, Zenon DEF RunInv, TodoInv, Deps
    <3> QED
      BY <3>1, <3>2, <3>3, Zenon DEF TodoInv
  <2>8. LoadedInv'
    <3>1. \A k \in linked' : k \in Loaded' \/ (stack' # << >> /\ k = Top' /\ todo'[k] = << >>)
      BY <1>1, <1>2, <1>5, <2>1, <2>2, Zenon DEF Top
    <3> QED
      BY <1>1, <1>2, <1>5, <2>1, <3>1, Zenon DEF RunInv, LoadedInv, Deps
  <2>9. SymbolsAgree'
    BY <2>5 DEF LinkInv, SymbolsAgree
  <2>10. InitOrder'
    <3>1. \A i \in DOMAIN order : order[i] \in linked
      BY <1>1, Zenon DEF RunInv, LoadedInv, Range
    <3>2. \A i \in DOMAIN order : bound'[order[i]] = bound[order[i]]
      BY <2>4, <3>1, Zenon
    <3> QED
      BY <1>2, <3>2 DEF InitOrder, Before
  <2> QED
    BY <1>1, <1>5, <2>5, <2>6, <2>7, <2>8, <2>9, <2>10, Zenon DEF RunInv, Running, PanicJustified
<1> QED
  BY <1>3, <1>4, <1>5, Zenon DEF Link

-----------------------------------------------------------------------------
(* The call of init                                                        *)

\* When the init of the module at the top is called, all it depends on and all
\* it is bound to has been initialised, and it itself has not.
LEMMA AtInit ==
    ASSUME TypeInv, RunInv, NEW m \in Module, Ready(m), m \in linked
    PROVE  /\ m \notin Loaded
           /\ Deps(m) \subseteq Loaded
           /\ Range(bound[m]) \subseteq Loaded \cup {"kernel"}
           /\ m \in Range(stack)
<1>1. stack # << >> /\ m = stack[Len(stack)] /\ todo[m] = << >>
  BY Zenon DEF Ready, Top
<1>2. Len(stack) \in DOMAIN stack /\ Len(stack) + 1 \notin DOMAIN stack /\ m \in Range(stack)
  BY <1>1, FrontFacts DEF TypeInv
<1>3. m \notin Loaded
  BY <1>2, Zenon DEF RunInv, StackInv, Loaded
<1>4. Range(todo[m]) = {}
  BY <1>1 DEF Range
<1>5. ASSUME NEW d \in Deps(m) PROVE d \in Loaded
  <2>1. Handled(Len(stack), d)
    BY <1>1, <1>2, Zenon DEF RunInv, TodoInv
  <2> QED
    BY <1>1, <1>2, <1>4, <2>1, Zenon DEF Handled
<1> QED
  BY <1>2, <1>3, <1>5, Zenon DEF RunInv, LinkInv

\* The init is the last in the order, after all the loaded modules.
LEMMA InitOrderStep ==
    ASSUME TypeInv, RunInv, InitOrder, NEW m \in Module, CallInit(m)
    PROVE  InitOrder'
<1>1. Ready(m) /\ m \in linked /\ order' = Append(order, m) /\ UNCHANGED <<image, bound>>
  BY Zenon DEF CallInit
<1>2. /\ m \notin Loaded
      /\ Deps(m) \subseteq Loaded
      /\ Range(bound[m]) \subseteq Loaded \cup {"kernel"}
  BY <1>1, AtInit, Zenon
<1>3. /\ DOMAIN order = 1 .. Len(order)
      /\ DOMAIN order' = 1 .. Len(order) + 1
      /\ Len(order) \in Nat
      /\ \A i \in 1 .. Len(order) : order'[i] = order[i]
      /\ order'[Len(order) + 1] = m
  BY <1>1, AppendFacts DEF TypeInv
<1>4. \A i \in 1 .. Len(order) + 1 : Before(i)' = Before(i)
  BY <1>3 DEF Before
<1>5. Before(Len(order) + 1) = Loaded
  BY <1>3, SMTT(30) DEF Before, RunInv, LoadedInv, Range
<1>6. ASSUME NEW i \in DOMAIN order'
      PROVE  /\ order'[i] \notin Before(i)'
             /\ Range(image'[order'[i]].deps) \subseteq Before(i)'
             /\ Range(bound'[order'[i]]) \subseteq Before(i)' \cup {"kernel"}
  <2>1. CASE i = Len(order) + 1
    BY <1>1, <1>2, <1>3, <1>4, <1>5, <2>1, Zenon DEF Deps
  <2>2. CASE i \in 1 .. Len(order)
    BY <1>1, <1>3, <1>4, <2>2, SMTT(30) DEF InitOrder
  <2> QED
    BY <1>3, <2>1, <2>2
<1> QED
  BY <1>6, Zenon DEF InitOrder

\* A set with two members has more than one.
LEMMA TwoMembers ==
    ASSUME NEW S, IsFiniteSet(S), NEW x \in S, NEW y \in S, x # y
    PROVE  Cardinality(S) > 1
<1>1. IsFiniteSet({x}) /\ Cardinality({x}) = 1
  BY FS_Singleton, Zenon
<1> DEFINE T == {x}
<1>2. IsFiniteSet(T) /\ Cardinality(T) = 1 /\ y \notin T
  BY <1>1, Zenon
<1> HIDE DEF T
<1>3. IsFiniteSet(T \cup {y}) /\ Cardinality(T \cup {y}) = Cardinality(T) + 1
  BY <1>2, FS_AddElement, Zenon
<1>4. T \cup {y} \in SUBSET S
  BY Zenon DEF T
<1>5. Cardinality(T \cup {y}) <= Cardinality(S) /\ Cardinality(S) \in Nat
  BY <1>4, FS_Subset, FS_CardinalityType, Zenon
<1> QED
  BY <1>2, <1>3, <1>5, SMTT(30)

\* An init that stops the kernel does so because two modules make /dev, or
\* because none that the driver needs does, or because its device failed.
LEMMA InitJustified ==
    ASSUME TypeInv, RunInv, Running, NEW m \in Module, CallInit(m)
    PROVE  PanicJustified'
<1>1. Ready(m) /\ m \in linked /\ UNCHANGED <<image, queue>>
  BY Zenon DEF CallInit
<1>2. m \notin Loaded /\ Deps(m) \subseteq Loaded
  BY <1>1, AtInit, Zenon
<1>3. CASE panic' = "/dev"
  <2>1. image[m].init = "mkdir" /\ dev
    BY <1>3, Zenon DEF CallInit, MakeDev, MakeNode, OtherInit, Returns, kpanic, Running
  <2>2. PICK x \in Loaded : image[x].init = "mkdir"
    BY <2>1, Zenon DEF RunInv, LoadedInv
  <2>3. x \in Interface /\ m \in Interface /\ x # m
    BY <1>2, <2>1, <2>2, Zenon DEF Interface, Loaded
  <2>4. IsFiniteSet(Interface)
    <3>1. Interface \in SUBSET Module
      BY Zenon DEF Interface
    <3> QED
      BY <3>1, FS_Subset, ModuleAssumption, Zenon
  <2>5. Cardinality(Interface) > 1
    BY <2>3, <2>4, TwoMembers, Zenon
  <2>6. Interface' = Interface
    BY <1>1, Zenon DEF Interface
  <2> QED
    BY <1>3, <2>5, <2>6, Zenon DEF PanicJustified
<1>4. CASE panic' = "no node"
  <2>1. image[m].init = "mkdev" /\ ~dev
    BY <1>4, Zenon DEF CallInit, MakeDev, MakeNode, OtherInit, Returns, kpanic, Running
  <2>2. Top' = m /\ Needs(m)' = Needs(m) /\ Interface' = Interface
    BY <1>1, <1>4, Zenon DEF CallInit, Ready, Top, Needs, Interface
  <2> DEFINE S == Loaded \cup {m}
  <2>3. S \in SUBSET Module /\ m \in S
    BY Zenon DEF Loaded
  <2>4. \A x \in S : Range(image[x].deps) \subseteq S
    BY <1>2, Zenon DEF RunInv, LoadedInv, Deps
  <2>5. Needs(m) \subseteq S
    <3> HIDE DEF S
    <3> QED
      BY <2>3, <2>4, Zenon DEF Needs
  <2>6. \A x \in S : image[x].init # "mkdir"
    BY <2>1, Zenon DEF RunInv, LoadedInv
  <2>7. Needs(m) \cap Interface = {}
    BY <2>5, <2>6, Zenon DEF Interface
  <2> QED
    BY <1>4, <2>2, <2>7, Zenon DEF PanicJustified
<1>5. panic' \in {"no", "/dev", "no node", "device failed"}
  <2>1. panic = "no"
    BY Zenon DEF Running
  <2>2. CASE MakeDev(m)
    BY <2>1, <2>2, Zenon DEF MakeDev, Returns, kpanic
  <2>3. CASE MakeNode(m)
    BY <2>1, <2>3, Zenon DEF MakeNode, Returns, kpanic
  <2>4. CASE OtherInit(m)
    BY <2>1, <2>4, Zenon DEF OtherInit, Returns
  <2> QED
    BY <2>2, <2>3, <2>4, Zenon DEF CallInit
<1> QED
  BY <1>3, <1>4, <1>5, Zenon DEF PanicJustified

\* An init that returns takes its module off the stack.
LEMMA InitReturns ==
    ASSUME TypeInv, RunInv, NEW m \in Module, CallInit(m), Running, Running'
    PROVE  RunInv'
<1> DEFINE n == Len(stack)
<1>1. /\ Ready(m) /\ m \in linked
      /\ status' = [status EXCEPT ![m] = "LOADED"]
      /\ stack' = SubSeq(stack, 1, n - 1)
      /\ order' = Append(order, m)
      /\ UNCHANGED <<image, queue, todo, symtab, linked, bound>>
  BY Zenon DEF CallInit, Running
<1>2. /\ m \notin Loaded
      /\ Deps(m) \subseteq Loaded
      /\ m \in Range(stack)
  BY <1>1, AtInit, Zenon
<1>3. stack # << >> /\ m = Top /\ m = stack[n] /\ todo[m] = << >>
  BY <1>1, Zenon DEF Ready, Top
<1>4. /\ DOMAIN stack = 1 .. n
      /\ DOMAIN stack' = 1 .. n - 1
      /\ n \in Nat \ {0}
      /\ \A i \in 1 .. n - 1 : stack'[i] = stack[i] /\ stack[i] \in Module
      /\ Range(stack) = Range(stack') \cup {m}
  BY <1>1, <1>3, FrontFacts, RangeFacts, SMTT(30) DEF TypeInv
<1>5. Loaded' = Loaded \cup {m}
  BY <1>1, Zenon DEF Loaded, TypeInv
<1>6. Range(order') = Range(order) \cup {m}
  BY <1>1, AppendFacts DEF TypeInv
<1> HIDE DEF n
<1>7. m \notin Range(stack')
  <2>1. ASSUME NEW i \in 1 .. n - 1, stack[i] = m PROVE FALSE
    BY <1>3, <1>4, <2>1 DEF RunInv, StackInv
  <2> QED
    BY <1>4, <2>1, Zenon DEF Range
<1>8. StackInv'
  <2>1. \A j, k \in DOMAIN stack' : stack'[j] = stack'[k] => j = k
    BY <1>4 DEF RunInv, StackInv
  <2>2. ASSUME NEW x \in Module PROVE status'[x] = "LOADING" <=> x \in Range(stack')
    BY <1>1, <1>4, <1>7, Zenon DEF RunInv, StackInv, TypeInv
  <2>3. ASSUME NEW k \in DOMAIN stack', k + 1 \in DOMAIN stack'
        PROVE  stack'[k + 1] \in Deps(stack[k])'
    <3>1. stack[k + 1] \in Deps(stack[k])
      BY <1>4, <2>3 DEF RunInv, StackInv
    <3> QED
      BY <1>1, <1>4, <2>3, <3>1, Zenon DEF Deps
  <2> QED
    BY <2>1, <2>2, <2>3, Zenon DEF StackInv
<1>9. TodoInv'
  <2>1. ASSUME NEW k \in DOMAIN stack', NEW d \in Deps(stack[k])' PROVE Handled(k, d)'
    <3>1. k \in DOMAIN stack /\ stack'[k] = stack[k] /\ d \in Deps(stack[k])
      BY <1>1, <1>4, <2>1, SMTT(30) DEF Deps
    <3>2. Handled(k, d)
      BY <3>1, Zenon DEF RunInv, TodoInv
    <3>3. CASE k + 1 \in DOMAIN stack /\ d = stack[k + 1]
      <4>1. CASE k + 1 = n
        BY <1>3, <1>5, <3>3, <4>1, Zenon DEF Handled
      <4>2. CASE k + 1 # n
        BY <1>4, <3>1, <3>3, <4>2, SMTT(30) DEF Handled
      <4> QED
        BY <4>1, <4>2, Zenon
    <3> QED
      BY <1>1, <1>5, <3>1, <3>2, <3>3, Zenon DEF Handled
  <2>2. \A k \in DOMAIN stack' : Deps(stack[k])' \subseteq Range(queue)'
    BY <1>1, <1>4 DEF RunInv, TodoInv, Deps
  <2>3. \A k \in Module : Range(todo'[k]) \subseteq Deps(k)'
    BY <1>1, Zenon DEF RunInv, TodoInv, Deps
  <2> QED
    BY <2>1, <2>2, <2>3, Zenon DEF TodoInv
<1>10. LoadedInv'
  <2>1. Loaded' = Range(order')
    BY <1>5, <1>6, Zenon DEF RunInv, LoadedInv
  <2>2. \A k \in Loaded' : Deps(k)' \subseteq Loaded'
    BY <1>1, <1>2, <1>5, Zenon DEF RunInv, LoadedInv, Deps
  <2>3. Loaded' \subseteq linked' /\ linked' \subseteq Loaded'
    BY <1>1, <1>3, <1>5, Zenon DEF RunInv, LoadedInv
  <2>4. dev' <=> \E k \in Loaded' : image'[k].init = "mkdir"
    <3>1. CASE MakeDev(m)
      BY <1>1, <1>5, <3>1, Zenon DEF MakeDev
    <3>2. CASE MakeNode(m) \/ OtherInit(m)
      <4>1. image[m].init # "mkdir" /\ dev' = dev
        BY <3>2, Zenon DEF MakeNode, OtherInit
      <4> QED
        BY <1>1, <1>5, <4>1, Zenon DEF RunInv, LoadedInv
    <3> QED
      BY <3>1, <3>2, Zenon DEF CallInit
  <2> QED
    BY <2>1, <2>2, <2>3, <2>4, Zenon DEF LoadedInv
<1>11. LinkInv'
  BY <1>1, <1>5 DEF RunInv, LinkInv
<1> QED
  BY <1>8, <1>9, <1>10, <1>11, Zenon DEF RunInv

-----------------------------------------------------------------------------
(* The theorems                                                            *)

\* The invariant holds before the first file is read.
LEMMA InvInit == Init => ModulesInv
<1> SUFFICES ASSUME Init PROVE ModulesInv
  BY Zenon
<1>1. /\ stack = << >> /\ DOMAIN stack = {} /\ Range(stack) = {}
      /\ order = << >> /\ DOMAIN order = {} /\ Range(order) = {}
      /\ linked = {} /\ DOMAIN symtab = {} /\ panic = "no" /\ dev = FALSE
      /\ todo = [m \in Module |-> << >>] /\ Range(<< >>) = {}
  BY DEF Init, Range
<1>2. Loaded = {} /\ \A m \in Module : status[m] # "LOADING"
  BY Zenon DEF Init, Loaded
<1>3. TypeInv
  BY ModuleAssumption DEF Init, TypeInv
<1>4. StackInv
  BY <1>1, <1>2, Zenon DEF StackInv
<1>5. TodoInv
  BY <1>1, Zenon DEF TodoInv
<1>6. LoadedInv
  BY <1>1, <1>2, Zenon DEF LoadedInv
<1>7. LinkInv
  BY <1>1, Zenon DEF LinkInv
<1>8. InitOrder /\ SymbolsAgree /\ PanicJustified
  BY <1>1, Zenon DEF InitOrder, SymbolsAgree, PanicJustified
<1> QED
  BY <1>3, <1>4, <1>5, <1>6, <1>7, <1>8, Zenon DEF ModulesInv, RunInv

\* Every step of the loader keeps the invariant.
LEMMA InvStep == ModulesInv /\ [Next]_vars => ModulesInv'
<1> SUFFICES ASSUME ModulesInv, [Next]_vars PROVE ModulesInv'
  BY Zenon
<1>1. TypeInv'
  BY TypeStep, Zenon DEF ModulesInv
<1>2. CASE Enqueue
  <2>1. UNCHANGED <<image, order, linked, bound>>
    BY <1>2, Zenon DEF Enqueue
  <2> QED
    BY <1>1, <1>2, <2>1, KeepProperties, EnqueueInv, Zenon DEF ModulesInv
<1>3. CASE RunNext
  <2>1. UNCHANGED <<image, order, linked, bound>>
    BY <1>3, Zenon DEF RunNext
  <2> QED
    BY <1>1, <1>3, <2>1, KeepProperties, RunNextInv, Zenon DEF ModulesInv
<1>4. CASE RunDep
  <2>1. UNCHANGED <<image, order, linked, bound>>
    BY <1>4, Zenon DEF RunDep
  <2> QED
    BY <1>1, <1>4, <2>1, KeepProperties, RunDepInv, Zenon DEF ModulesInv
<1>5. ASSUME NEW m \in Module, Link(m) PROVE ModulesInv'
  BY <1>1, <1>5, LinkStep, Zenon DEF ModulesInv
<1>6. ASSUME NEW m \in Module, CallInit(m) PROVE ModulesInv'
  <2>1. Running /\ TypeInv /\ RunInv /\ InitOrder /\ SymbolsAgree
    BY <1>6, Zenon DEF CallInit, Ready, ModulesInv
  <2>2. InitOrder' /\ PanicJustified'
    BY <1>6, <2>1, InitOrderStep, InitJustified, Zenon
  <2>3. SymbolsAgree'
    BY <1>6, <2>1 DEF CallInit, SymbolsAgree
  <2>4. Running' => RunInv'
    BY <1>6, <2>1, InitReturns, Zenon
  <2> QED
    BY <1>1, <2>2, <2>3, <2>4, Zenon DEF ModulesInv
<1>7. CASE UNCHANGED vars
  <2>1. InitOrder' /\ SymbolsAgree'
    BY <1>7, KeepProperties, Zenon DEF vars, ModulesInv
  <2>2. PanicJustified'
    BY <1>7, Zenon DEF vars, ModulesInv, PanicJustified, Cyclic, Missing, Needs, Interface, Top
  <2>3. /\ Running' = Running
        /\ Loaded' = Loaded
        /\ \A m : Deps(m)' = Deps(m)
        /\ Top' = Top
    BY <1>7, Zenon DEF vars, Running, Loaded, Deps, Top
  <2>4. StackInv => StackInv'
    BY <1>7, <2>3, Zenon DEF vars, StackInv
  <2>5. TodoInv => TodoInv'
    BY <1>7, <2>3, Zenon DEF vars, TodoInv, Handled, Deps
  <2>6. LoadedInv => LoadedInv'
    BY <1>7, <2>3, Zenon DEF vars, LoadedInv, Deps
  <2>7. LinkInv => LinkInv'
    BY <1>7, <2>3, Zenon DEF vars, LinkInv
  <2> QED
    BY <1>1, <2>1, <2>2, <2>3, <2>4, <2>5, <2>6, <2>7, Zenon DEF ModulesInv, RunInv
<1> QED
  BY <1>2, <1>3, <1>4, <1>5, <1>6, <1>7, Zenon DEF Next, Step, Stopped

\* The inductive invariant of module_init and module_run holds, for any finite
\* set of modules, any files and any order of them.
THEOREM ModulesSafe == Spec => []ModulesInv
<1>1. Init => ModulesInv
  BY InvInit, Zenon
<1>2. ModulesInv /\ [Next]_vars => ModulesInv'
  BY InvStep, Zenon
<1> QED
  BY <1>1, <1>2, PTL DEF Spec

\* No module's init is called twice, nor before the inits of all the modules it
\* depends on or has a symbol of.
THEOREM InitsInOrder == Spec => []InitOrder
<1>1. ModulesInv => InitOrder
  BY Zenon DEF ModulesInv
<1> QED
  BY <1>1, ModulesSafe, PTL

\* Modules that refer to one name are bound to one function.
THEOREM OneBindingPerName == Spec => []SymbolsAgree
<1>1. ModulesInv => SymbolsAgree
  BY Zenon DEF ModulesInv
<1> QED
  BY <1>1, ModulesSafe, PTL

\* The loader stops the kernel only for a reason that lies in the modules.
THEOREM StopsHaveReasons == Spec => []PanicJustified
<1>1. ModulesInv => PanicJustified
  BY Zenon DEF ModulesInv
<1> QED
  BY <1>1, ModulesSafe, PTL
=============================================================================
