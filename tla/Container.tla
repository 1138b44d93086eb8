------------------------------ MODULE Container ------------------------------
(***************************************************************************)
(* The dependency injection container, pkg/di: registrations, and the      *)
(* resolution of the start function.  The recursion of                     *)
(* getDependencyConstructorArgs is a stack of frames, one per constructor  *)
(* whose arguments are being collected.                                    *)
(***************************************************************************)
EXTENDS Naturals, Sequences, SequencesExt

CONSTANTS
    Constructors,   \* the constructors an application may register
    StartFunc,      \* the function StartApp receives
    Types,          \* the types of their parameters
    ParamLists,     \* bound: the parameter lists considered
    Lists,          \* bound: the lists of constructors considered
    MaxDepth        \* bound: the depth at which the Go stack overflows

Funcs == Constructors \cup {StartFunc}

ASSUME ContainerAssumption ==
    /\ StartFunc \notin Constructors /\ MaxDepth \in Nat \ {0}
    /\ ParamLists \subseteq Seq(Types) /\ Lists \subseteq Seq(Constructors)

VARIABLES
    provides,   \* per constructor, the type it returns and the interfaces that implements
    needs,      \* per function, its parameters
    variadic,   \* the functions whose last parameter is variadic
    tags,       \* per function, the constructors the di tags of the struct it returns name
    dependencies, \* per registered constructor, whether the bean is a function or an object
    global,     \* whether the beans are global
    order,      \* the names in registration order
    stack,      \* the functions being resolved, the start function first
    built,      \* per constructor, how often it was called
    app         \* the application: registering, resolving, running, or how it ended

containerVars == <<provides, needs, variadic, tags, dependencies, global, order, stack, built, app>>
worldVars == <<provides, needs, variadic, tags>>

Absent == [c \in Constructors |-> "absent"]

ContainerInit ==
    /\ provides \in [Constructors -> SUBSET Types \ {{}}] /\ needs \in [Funcs -> ParamLists]
    /\ variadic \in SUBSET {f \in Funcs : needs[f] # <<>>}
    /\ tags \in [Funcs -> SUBSET Constructors]
    /\ dependencies = Absent /\ global = FALSE /\ order = <<>> /\ stack = <<>>
    /\ built = [c \in Constructors |-> 0] /\ app = "registering"

CheckingNameUnit(list) == \A c \in ToSet(list) : dependencies[c] = "absent"

\* AddDependencies and AddGlobalDependencies: the new beans replace the registered ones,
\* after checkingNameUnit has refused a name that is registered already.  A constructor
\* that is twice in one list is one bean, and twice in the order.
Register(list, isGlobal) ==
    /\ app = "registering" /\ UNCHANGED <<worldVars, stack, built>>
    /\ IF ~CheckingNameUnit(list)
       THEN app' = "panicked" /\ UNCHANGED <<dependencies, global, order>>
       ELSE /\ dependencies' = [c \in Constructors |-> IF c \in ToSet(list) THEN "function" ELSE "absent"]
            /\ global' = isGlobal /\ order' = list /\ UNCHANGED app

\* Resolving a function: the parameters left, the beans found for the first of them and
\* not injected yet (copies, as they were when found), and the arguments collected.
Frame(f) == [fn |-> f, params |-> needs[f], found |-> <<>>, args |-> <<>>]
Top == stack[Len(stack)]
SetTop(frame) == [stack EXCEPT ![Len(stack)] = frame]

StartApp ==
    /\ app = "registering" /\ app' = "resolving" /\ stack' = <<Frame(StartFunc)>>
    /\ UNCHANGED <<worldVars, dependencies, global, order, built>>

\* Defect: the beans are taken in the order of the map.
CandidatesUnordered(type) == SelectSeq(Reverse(order), LAMBDA c : type \in provides[c])

\* searchTypes and searchImplementations: one pass over the names in registration order.
Candidates(type) ==
    LET upTo[i \in 0..Len(order)] ==
            IF i = 0 THEN <<>>
            ELSE IF type \in provides[order[i]] THEN Append(upTo[i - 1], order[i])
            ELSE upTo[i - 1]
    IN upTo[Len(order)]

\* The places of those beans in the registration order.
Matching(type) == {i \in DOMAIN order : type \in provides[order[i]]}

\* searchDisambiguation reads the struct that f returns: which of two matching tags comes
\* first is up to their map.
Disambiguated(f, places) == {<<order[i]>> : i \in {j \in places : order[j] \in tags[f]}}

\* searchInjectableDependencies: several candidates are all injected in a variadic
\* function, whichever parameter they are for, and need a tag in any other.
Injectable(f, type) ==
    IF f \in variadic THEN {Candidates(type)} \ {<<>>}
    ELSE IF \A i, j \in Matching(type) : i = j THEN {<<order[i]>> : i \in Matching(type)}
         ELSE Disambiguated(f, Matching(type))

Copies(names) == [i \in DOMAIN names |-> [name |-> names[i], is |-> dependencies[names[i]]]]

Search ==
    /\ app = "resolving" /\ Top.found = <<>> /\ Top.params # <<>>
    /\ IF Injectable(Top.fn, Head(Top.params)) = {}
       THEN app' = "panicked" /\ UNCHANGED stack
       ELSE \E names \in Injectable(Top.fn, Head(Top.params)) :
               /\ stack' = SetTop([Top EXCEPT !.found = Copies(names), !.params = Tail(@)])
               /\ UNCHANGED app
    /\ UNCHANGED <<worldVars, dependencies, global, order, built>>

\* A bean that is an object already is an argument as it is.
InjectObject ==
    /\ app = "resolving" /\ Top.found # <<>> /\ Head(Top.found).is = "object"
    /\ stack' = SetTop([Top EXCEPT !.found = Tail(@), !.args = Append(@, Head(Top.found).name)])
    /\ UNCHANGED <<worldVars, dependencies, global, order, built, app>>

\* A bean that is a function is resolved first; a cycle of constructors never ends.
ResolveConstructor ==
    /\ app = "resolving" /\ Top.found # <<>> /\ Head(Top.found).is = "function"
    /\ IF Len(stack) = MaxDepth THEN app' = "overflow" /\ UNCHANGED stack
       ELSE stack' = Append(stack, Frame(Head(Top.found).name)) /\ UNCHANGED app
    /\ UNCHANGED <<worldVars, dependencies, global, order, built>>

\* What reflect accepts: an argument of its type for every parameter, and any number of
\* them for the variadic one.
Accepts(f, args) ==
    LET fixed == IF f \in variadic THEN Len(needs[f]) - 1 ELSE Len(needs[f])
    IN /\ Len(args) >= fixed /\ (f \notin variadic => Len(args) = fixed)
       /\ \A i \in DOMAIN args : needs[f][IF i <= fixed THEN i ELSE Len(needs[f])] \in provides[args[i]]

\* Defect: the object is kept in the copy only.
KeepInCopy(c) == dependencies

\* The bean of a global constructor becomes the object it returned.
Keep(c) == IF global THEN [dependencies EXCEPT ![c] = "object"] ELSE dependencies

\* The arguments are complete: the function is called, and its result is an argument of
\* the frame below.
CallConstructor ==
    /\ app = "resolving" /\ Top.params = <<>> /\ Top.found = <<>>
    /\ LET f == Top.fn
           below == stack[Len(stack) - 1]
       IN IF ~Accepts(f, Top.args) THEN app' = "panicked" /\ UNCHANGED <<dependencies, stack, built>>
          ELSE IF f = StartFunc THEN app' = "running" /\ UNCHANGED <<dependencies, stack, built>>
          ELSE /\ built' = [built EXCEPT ![f] = @ + 1] /\ dependencies' = Keep(f)
               /\ stack' = [Front(stack) EXCEPT ![Len(stack) - 1] =
                              [below EXCEPT !.found = Tail(@), !.args = Append(@, f)]]
               /\ UNCHANGED app
    /\ UNCHANGED <<worldVars, global, order>>

ContainerNext ==
    \/ \E list \in Lists, isGlobal \in BOOLEAN : Register(list, isGlobal)
    \/ StartApp \/ Search \/ InjectObject \/ ResolveConstructor \/ CallConstructor

ContainerSpec == ContainerInit /\ [][ContainerNext]_containerVars

-----------------------------------------------------------------------------
(* Properties. *)

ContainerTypeOK ==
    /\ provides \in [Constructors -> SUBSET Types \ {{}}] /\ needs \in [Funcs -> ParamLists]
    /\ variadic \subseteq Funcs /\ tags \in [Funcs -> SUBSET Constructors] /\ global \in BOOLEAN
    /\ dependencies \in [Constructors -> {"absent", "function", "object"}]
    /\ order \in Lists \cup {<<>>} /\ Len(stack) <= MaxDepth
    /\ \A i \in DOMAIN stack : /\ stack[i].fn = StartFunc <=> i = 1
                               /\ ToSet(stack[i].args) \subseteq ToSet(order)
    /\ built \in [Constructors -> Nat]
    /\ app \in {"registering", "resolving", "running", "panicked", "overflow"}

\* The tags of no function name two beans that are of one type.
SingleTags ==
    \A f \in Funcs : \A c, d \in tags[f] : provides[c] \cap provides[d] # {} => c = d

\* "Global beans are beans created once" (pkg/di/README.md:55): however many constructors
\* share one, and however deep, it is built once, in an application without variadic
\* constructors whose tags leave no choice (container.go:68-83).
GlobalBuiltOnce ==
    global /\ variadic = {} /\ SingleTags => \A c \in Constructors : built[c] <= 1

\* The arguments are what the list has at those places, each once, from left to right.
Enumerates(args, list, places) ==
    \E at \in [1..Len(args) -> places] :
        /\ \A j, k \in 1..Len(args) : j < k => at[j] < at[k]
        /\ \A p \in places : \E k \in 1..Len(args) : at[k] = p
        /\ \A k \in 1..Len(args) : args[k] = list[at[k]]

\* A variadic function whose only parameter has several beans receives all of them, and
\* in registration order, whatever their own resolution built (variadic_test.go:41-53).
VariadicInOrder ==
    \A i \in DOMAIN stack :
        LET frame == stack[i]
        IN frame.fn \in variadic /\ Len(needs[frame.fn]) = 1 /\ frame.params = <<>>
           /\ frame.found = <<>> =>
              Enumerates(frame.args, order, Matching(needs[frame.fn][1]))

\* Without variadic functions a call is never refused for its arguments: the resolution
\* panics only for a missing bean or an ambiguous one (container.go:89-112).
ArgumentsFit ==
    app = "resolving" /\ variadic = {} /\ Top.params = <<>> /\ Top.found = <<>> =>
        Accepts(Top.fn, Top.args)

\* A function is called with what its parameters ask for, in their order.
CallsFit == VariadicInOrder /\ ArgumentsFit

=============================================================================
