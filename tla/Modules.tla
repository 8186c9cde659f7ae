------------------------------ MODULE Modules ------------------------------
(***************************************************************************)
(* The module loader of kernel/init/module.c with the part of the device   *)
(* interface (drivers/dev/interface/main.c) that runs inside it.           *)
(*                                                                         *)
(* module_init queues the modules the boot loader brought and runs each.   *)
(* module_run is recursive: it runs what a module depends on, links its    *)
(* symbols against one table shared by all modules, and calls its init.    *)
(* The recursion is an explicit stack here.                                *)
(***************************************************************************)
EXTENDS Naturals, Sequences, FiniteSets, Functions

CONSTANTS
    Module,     \* names of modules, the text of their .module_name section
    Name,       \* names of global functions
    Kernel,     \* the names core_get_address finds in the kernel itself
    Images,     \* the module files considered: functions from Module
    Orders      \* the sequences of modules a boot loader may bring

ASSUME ModuleAssumption ==
    /\ IsFiniteSet(Module)
    /\ Kernel \subseteq Name
    /\ \A i \in Images : \A m \in Module :
          /\ i[m].deps \in Seq(Module)
          /\ i[m].undef \subseteq Name
          /\ i[m].defs \subseteq Name
          /\ i[m].init \in {"plain", "mkdir", "mkdev"}
    /\ Orders \subseteq Seq(Module)
    /\ "kernel" \notin Module

VARIABLES
    image,      \* the files: [deps, undef, defs, init] of every module
    files,      \* modules the boot loader brought and module_init has not read
    queue,      \* m_queue
    at,         \* position of list_each in m_queue
    status,     \* module_t.status
    stack,      \* the activations of module_run, outermost first
    todo,       \* deps[0 .. i-1]: what an activation has still to run
    symtab,     \* m_symtab: name -> the module that defines it, or "kernel"
    linked,     \* the modules whose symbols have been visited
    bound,      \* what the undefined symbols of a linked module were bound to
    order,      \* the modules in the order their init was called
    dev,        \* whether /dev exists
    nodes,      \* modules whose device node is in /dev
    panic       \* why the kernel stopped, or "no"

vars == <<image, files, queue, at, status, stack, todo, symtab, linked, bound,
          order, dev, nodes, panic>>

Init ==
    /\ image \in Images
    /\ files \in Orders
    /\ queue = << >>
    /\ at = 1
    /\ status = [m \in Module |-> "READY"]
    /\ stack = << >>
    /\ todo = [m \in Module |-> << >>]
    /\ symtab = [n \in {} |-> "kernel"]
    /\ linked = {}
    /\ bound = [m \in Module |-> [n \in {} |-> "kernel"]]
    /\ order = << >>
    /\ dev = FALSE
    /\ nodes = {}
    /\ panic = "no"

Running == panic = "no"

Top == stack[Len(stack)]

kpanic(why) == panic' = why

-----------------------------------------------------------------------------
(* module_init: the queue                                                  *)

\* One module is read in; a second one of the same name stops the kernel.
Enqueue ==
    /\ Running
    /\ files # << >>
    /\ files' = Tail(files)
    /\ IF Head(files) \in Range(queue)
         THEN kpanic("duplicate") /\ UNCHANGED queue
         ELSE queue' = Append(queue, Head(files)) /\ UNCHANGED panic
    /\ UNCHANGED <<image, at, status, stack, todo, symtab, linked, bound, order,
                   dev, nodes>>

-----------------------------------------------------------------------------
(* module_run                                                              *)

\* find() for every name in m->deps, before any of them is run
Missing(m) == Range(image[m].deps) \ Range(queue)

\* The beginning of module_run(m), up to where its dependencies are known.
\* s is todo with the caller's entry for m taken off.
AlreadyLoaded(m, s) ==
    /\ status[m] = "LOADED"
    /\ todo' = s
    /\ UNCHANGED <<status, stack, panic>>

\* A loaded module taken for one that is still being loaded
LoopIfNotReady(m, s) ==
    /\ status[m] # "READY"
    /\ kpanic("loop")
    /\ UNCHANGED <<status, stack, todo>>

\* A module that is being loaded taken for a loaded one
LoopUnnoticed(m, s) ==
    /\ status[m] = "LOADING"
    /\ todo' = s
    /\ UNCHANGED <<status, stack, panic>>

DependencyLoop(m, s) ==
    /\ status[m] = "LOADING"
    /\ kpanic("loop")
    /\ UNCHANGED <<status, stack, todo>>

Unresolved(m, s) ==
    /\ status[m] = "READY"
    /\ Missing(m) # {}
    /\ status' = [status EXCEPT ![m] = "LOADING"]
    /\ kpanic("unresolved")
    /\ UNCHANGED <<stack, todo>>

\* The array deps has one slot per comma, one too few for two or more names.
\* The last one is stored behind its end: either nothing of use is there, and
\* module_run goes on in Start, or what follows is undefined.
DepsOverrun(m, s) ==
    /\ status[m] = "READY"
    /\ Missing(m) = {}
    /\ Len(image[m].deps) > 1
    /\ kpanic("overrun")
    /\ UNCHANGED <<status, stack, todo>>

\* The last of several dependencies forgotten
StartWithout(m, s) ==
    /\ status[m] = "READY"
    /\ Missing(m) = {}
    /\ status' = [status EXCEPT ![m] = "LOADING"]
    /\ stack' = Append(stack, m)
    /\ todo' = [s EXCEPT ![m] = IF Len(image[m].deps) < 2 THEN image[m].deps
                                ELSE SubSeq(image[m].deps, 1, Len(image[m].deps) - 1)]
    /\ UNCHANGED panic

Start(m, s) ==
    /\ status[m] = "READY"
    /\ Missing(m) = {}
    /\ status' = [status EXCEPT ![m] = "LOADING"]
    /\ stack' = Append(stack, m)
    /\ todo' = [s EXCEPT ![m] = image[m].deps]
    /\ UNCHANGED panic

Enter(m, s) ==
    \/ AlreadyLoaded(m, s)
    \/ DependencyLoop(m, s)
    \/ Unresolved(m, s)
    \/ DepsOverrun(m, s)
    \/ Start(m, s)

\* list_each(m_queue, m) module_run(m)
RunNext ==
    /\ Running
    /\ files = << >>
    /\ stack = << >>
    /\ at <= Len(queue)
    /\ Enter(queue[at], todo)
    /\ at' = at + 1
    /\ UNCHANGED <<image, files, queue, symtab, linked, bound, order, dev,
                   nodes>>

\* while(i) module_run(deps[--i])
NextDep(m) == todo[m][Len(todo[m])]

RunDep ==
    /\ Running
    /\ stack # << >>
    /\ todo[Top] # << >>
    /\ Enter(NextDep(Top),
             [todo EXCEPT ![Top] = SubSeq(todo[Top], 1, Len(todo[Top]) - 1)])
    /\ UNCHANGED <<image, files, queue, at, symtab, linked, bound, order, dev,
                   nodes>>

-----------------------------------------------------------------------------
(* Linking                                                                 *)

\* module_resolve: the table first, then the kernel, whose symbol is entered
\* in the table under its name
Resolve(n) == IF n \in DOMAIN symtab THEN symtab[n] ELSE "kernel"

\* The kernel's symbol not entered
NotEntered(m) == {n \in image[m].undef : n \notin Name}

FromKernel(m) == {n \in image[m].undef \ DOMAIN symtab : n \in Kernel}

Undefined(m) == image[m].undef \ (DOMAIN symtab \cup Kernel)

\* module_export of a name that is in the table already
Clashes(m) == image[m].defs \cap (DOMAIN symtab \cup FromKernel(m))

\* the table after the symbols of m have been visited
Exported(m) == DOMAIN symtab \cup FromKernel(m) \cup image[m].defs

Linked(m) ==
    [n \in Exported(m) |->
        IF n \in DOMAIN symtab THEN symtab[n]
        ELSE IF n \in image[m].defs THEN m ELSE "kernel"]

Ready(m) ==
    /\ Running
    /\ stack # << >>
    /\ m = Top
    /\ todo[m] = << >>

\* The loop over the symbol table of the module. An undefined name and a name
\* defined twice both stop the kernel; whichever comes first in the file is
\* reported.
Link(m) ==
    /\ Ready(m)
    /\ m \notin linked
    /\ \/ /\ Undefined(m) # {}
          /\ kpanic("undefined")
          /\ UNCHANGED <<symtab, linked, bound>>
       \/ /\ Clashes(m) # {}
          /\ kpanic("already defined")
          /\ UNCHANGED <<symtab, linked, bound>>
       \/ /\ Undefined(m) = {}
          /\ Clashes(m) = {}
          /\ symtab' = Linked(m)
          /\ linked' = linked \cup {m}
          /\ bound' =
                [bound EXCEPT ![m] = [n \in image[m].undef |-> Resolve(n)]]
          /\ UNCHANGED panic
    /\ UNCHANGED <<image, files, queue, at, status, stack, todo, order, dev,
                   nodes>>

-----------------------------------------------------------------------------
(* m->init(args)                                                           *)

Returns == UNCHANGED panic

\* init() of the device interface: sys_mkdir("/dev")
MakeDev(m) ==
    /\ image[m].init = "mkdir"
    /\ dev' = TRUE
    /\ IF dev THEN kpanic("/dev") ELSE Returns
    /\ UNCHANGED nodes

\* init() of a driver: device_mkdev, whose sys_creat("/dev/name") needs /dev
\* and whose device may fail to come up
MakeNode(m) ==
    /\ image[m].init = "mkdev"
    /\ \/ kpanic("device failed") /\ UNCHANGED nodes
       \/ dev /\ nodes' = nodes \cup {m} /\ Returns
       \/ ~dev /\ kpanic("no node") /\ UNCHANGED nodes
    /\ UNCHANGED dev

\* any other init(): nothing that the loader or /dev shows
OtherInit(m) ==
    /\ image[m].init = "plain"
    /\ Returns
    /\ UNCHANGED <<dev, nodes>>

\* the call of init and, when it returns, the change of status and the return
\* of module_run
CallInit(m) ==
    /\ Ready(m)
    /\ m \in linked
    /\ MakeDev(m) \/ MakeNode(m) \/ OtherInit(m)
    /\ order' = Append(order, m)
    /\ IF panic' = "no"
         THEN /\ status' = [status EXCEPT ![m] = "LOADED"]
              /\ stack' = SubSeq(stack, 1, Len(stack) - 1)
         ELSE UNCHANGED <<status, stack>>
    /\ UNCHANGED <<image, files, queue, at, todo, symtab, linked, bound>>

Done == files = << >> /\ stack = << >> /\ at > Len(queue)

\* module_init has returned, or the kernel has stopped
Stopped ==
    /\ Done \/ ~Running
    /\ UNCHANGED vars

Step == Enqueue \/ RunNext \/ RunDep \/ \E m \in Module : Link(m) \/ CallInit(m)

Next == Step \/ Stopped

Spec == Init /\ [][Next]_vars /\ WF_vars(Step)

-----------------------------------------------------------------------------
(* Properties                                                              *)

Before(i) == {order[j] : j \in 1 .. i - 1}

\* A module's init is called once, after the init of every module it depends
\* on and of every module one of its symbols was bound to has returned, also
\* when the symbol's module is not among its dependencies.
InitOrder ==
    \A i \in DOMAIN order :
       /\ order[i] \notin Before(i)
       /\ Range(image[order[i]].deps) \subseteq Before(i)
       /\ Range(bound[order[i]]) \subseteq Before(i) \cup {"kernel"}

\* Two modules that refer to the same name are bound to the same function,
\* whatever was loaded between them: a module that defines a name of the kernel
\* is refused once the kernel's function has been handed out.
SymbolsAgree ==
    \A m1, m2 \in linked :
       \A n \in image[m1].undef \cap image[m2].undef :
          bound[m1][n] = bound[m2][n]

\* a set of modules each of which depends on one of them
Cyclic == \E S \in SUBSET Module \ {{}} :
             \A m \in S : Range(image[m].deps) \cap S # {}

\* what a module needs, itself included: the least set closed under deps
Needs(m) ==
    {k \in Module :
        \A S \in SUBSET Module :
           m \in S /\ (\A x \in S : Range(image[x].deps) \subseteq S) => k \in S}

Interface == {m \in Module : image[m].init = "mkdir"}

\* The loader stops only for a reason that lies in the modules: a loop is
\* reported only when the dependencies have one, and a driver fails to make its
\* node only when nothing it depends on makes /dev.
PanicJustified ==
    /\ panic = "loop" => Cyclic
    /\ panic = "unresolved" => \E m \in Range(queue) : Missing(m) # {}
    /\ panic = "no node" => Needs(Top) \cap Interface = {}
    /\ panic = "/dev" => Cardinality(Interface) > 1

\* module_init always comes to an end, loops and missing modules included, and
\* when the kernel has not stopped every module is loaded, its dependencies
\* have no loop and every driver has its node.
LoadEnds ==
    <>[](\/ ~Running
         \/ /\ Done
            /\ ~(\E S \in SUBSET Range(queue) \ {{}} :
                    \A m \in S : Range(image[m].deps) \cap S # {})
            /\ \A m \in Range(queue) :
                  /\ status[m] = "LOADED"
                  /\ image[m].init = "mkdev" => m \in nodes)
=============================================================================
