----------------------------- MODULE MCModules -----------------------------
(* Every dependency graph over three modules, in every order of the files   *)
EXTENDS Modules

CONSTANTS a, b, c

\* at most two dependencies, in either order, a module on itself included
DepLists == {<< >>} \cup {<<m>> : m \in Module}
                    \cup {p \in Module \X Module : p[1] # p[2]}

\* every module defines a function of its own name and uses the ones of its
\* dependencies and the kernel's; c may define one the kernel also has, and a
\* may use b's without listing b
Image(deps, shadow, sneak) ==
    [m \in Module |->
        [deps  |-> deps[m],
         undef |-> (Range(deps[m]) \cup (IF sneak /\ m = a THEN {b} ELSE {})
                                  \cup (IF m = c THEN {} ELSE {"printf"})) \ {m},
         defs  |-> {m} \cup (IF shadow /\ m = c THEN {"printf"} ELSE {}),
         init  |-> CASE m = a -> "mkdev" [] m = b -> "mkdir" [] OTHER -> "plain"]]

MCImages ==
    {Image(d, shadow, sneak) : d \in [Module -> DepLists], shadow, sneak \in BOOLEAN}

MCName == Module \cup {"printf"}

MCKernel == {"printf"}

\* every order of the three, one of them missing, one brought twice
MCOrders == {s \in [1 .. 3 -> Module] : Cardinality(Range(s)) = 3}
              \cup {<<a, b>>, <<c, a>>, <<b, c, b>>}
=============================================================================
