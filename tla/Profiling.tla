----------------------------- MODULE Profiling -----------------------------
(***************************************************************************)
(* The profiling data of a request (pkg/profiling): a tree that the         *)
(* request's goroutines grow by calling the functions below with the        *)
(* context of the component they are in, and that the server cleans and     *)
(* flattens, before it sends it, into the list from which totals are taken. *)
(* The tree has no lock: an append to a component's list of components is   *)
(* a read of the list and a later write of the longer one.                  *)
(***************************************************************************)
EXTENDS Integers, Sequences, SequencesExt, FiniteSetsExt

CONSTANTS
    Nil,        \* no value
    Handler,    \* the goroutine of the request's handler
    Threads,    \* the goroutines of the request
    MaxCalls,   \* bound on the calls that add a component
    MaxBytes,   \* bound on the bytes moved through a component
    Times       \* how long a measurement may take

VARIABLES
    node,      \* the components made so far; node[1] is the root
    comps,     \* comps[n]: the components of n, in order
    stack,     \* stack[t]: the calls that goroutine t is in, innermost last
    reading,   \* reading[t]: the append that t is in the middle of, or Nil
    moved,     \* moved[n]: the bytes moved through component n
    lost,      \* an append was overwritten by another
    result     \* the flattened data once the server has attached it, else Nil

vars == <<node, comps, stack, reading, moved, lost, result>>

Top == 1
Category == "category"

\* A component of the tree.
Data(name, kind) == [name |-> name, kind |-> kind, dur |-> 0, io |-> 0, ioRedundant |-> FALSE]

\* What a function of the package does: whether its component goes under the
\* category, its kind, whether it wraps a stream to measure I/O, what the end of
\* a measurement does to the component's duration, and whether the category's
\* duration grows too.
Function(category, kind, io, own, total) ==
    [category |-> category, kind |-> kind, io |-> io, own |-> own, total |-> total]

StartTimingComponent         == Function(FALSE, "serial", FALSE, "set", FALSE)
StartTimingParallelComponent == Function(FALSE, "parallel", FALSE, "set", FALSE)
StartTimingCategory          == Function(TRUE, "serial", FALSE, "set", TRUE)
StartTimingParallelCategory  == Function(TRUE, "parallel", FALSE, "set", FALSE)
AddTimingComponent           == Function(FALSE, "serial", FALSE, "set", FALSE)
AddTimingParallelComponent   == Function(FALSE, "parallel", FALSE, "set", FALSE)
IOComponent                  == Function(FALSE, "serial", TRUE, "add", FALSE)
IOParallelComponent          == Function(FALSE, "parallel", TRUE, "add", FALSE)
IORedundantComponent         == Function(FALSE, "redundant", TRUE, "add", FALSE)
IOCategory                   == Function(TRUE, "serial", TRUE, "add", TRUE)
IOParallelCategory           == Function(TRUE, "parallel", TRUE, "set", FALSE)
IORedundantCategory          == Function(TRUE, "redundant", TRUE, "set", FALSE)
AddIOComponent               == Function(FALSE, "serial", TRUE, "none", FALSE)
AddIOCategory                == Function(TRUE, "serial", TRUE, "none", FALSE)

Calls ==
    {StartTimingComponent, StartTimingParallelComponent, StartTimingCategory,
     StartTimingParallelCategory, AddTimingComponent, AddTimingParallelComponent, IOComponent,
     IOParallelComponent, IORedundantComponent, IOCategory, IOParallelCategory,
     IORedundantCategory, AddIOComponent, AddIOCategory}

\* The server's interceptor makes the root (StartTiming).
Init ==
    /\ node = <<Data("root", "serial")>> /\ comps = <<(<<>>)>> /\ moved = <<0>>
    /\ stack = [t \in Threads |-> <<>>] /\ reading = [t \in Threads |-> Nil]
    /\ lost = FALSE /\ result = Nil

-----------------------------------------------------------------------------
(* Growing the tree *)

\* The component whose context goroutine t has.
Ctx(t) == IF stack[t] = <<>> THEN Top ELSE Last(stack[t]).self

\* A wrapper of a stream hands out no context.
Calling(t) ==
    /\ result = Nil /\ reading[t] = Nil
    /\ stack[t] # <<>> => ~Last(stack[t]).f.io

\* A call of f reads the list of components of the context's component.
Begin(t, f) ==
    /\ Calling(t)
    /\ Cardinality({n \in DOMAIN node : node[n].name = "f"}) + Cardinality({u \in Threads : reading[u] # Nil}) < MaxCalls
    /\ reading' = [reading EXCEPT ![t] = [f |-> f, parent |-> Ctx(t), list |-> comps[Ctx(t)], category |-> Nil]]
    /\ UNCHANGED <<node, comps, stack, moved, lost, result>>

\* The category's component in the list that was read.
Found(r) == {n \in ToSet(r.list) : node[n].name = Category}

\* The call must still find the category's component or make it.
Looking(r) == r # Nil /\ r.f.category /\ r.category = Nil

\* The longer list is written to component p, over what is there now.
Overwrites(p, list) == comps[p] # list

Entered(t, n, category) ==
    /\ stack' = [stack EXCEPT ![t] = Append(@, [f |-> reading[t].f, self |-> n, category |-> category])]
    /\ UNCHANGED result

\* The new component goes directly into the list.
AppendComponent(t) ==
    LET r == reading[t]  n == Len(node) + 1 IN
    /\ r # Nil /\ ~Looking(r)
    /\ node' = Append(node, Data("f", r.f.kind)) /\ moved' = Append(moved, 0)
    /\ comps' = Append([comps EXCEPT ![r.parent] = Append(r.list, n)], <<>>)
    /\ lost' = (lost \/ Overwrites(r.parent, r.list))
    /\ reading' = [reading EXCEPT ![t] = Nil]
    /\ Entered(t, n, r.category)

\* The category is not there: it is appended, and the component to it.
AppendCategory(t) ==
    LET r == reading[t]  n == Len(node) + 1 IN
    /\ Looking(r) /\ Found(r) = {}
    /\ node' = node \o <<Data(Category, "serial"), Data("f", r.f.kind)>> /\ moved' = moved \o <<0, 0>>
    /\ comps' = [comps EXCEPT ![r.parent] = Append(r.list, n)] \o <<(<<n + 1>>), <<>>>>
    /\ lost' = (lost \/ Overwrites(r.parent, r.list))
    /\ reading' = [reading EXCEPT ![t] = Nil]
    /\ Entered(t, n + 1, n)

\* The category is there: its own list is read, to be appended to.
FindCategory(t) ==
    LET r == reading[t] IN
    /\ Looking(r) /\ Found(r) # {}
    /\ \E c \in Found(r) : reading' = [reading EXCEPT ![t] = [f |-> r.f, parent |-> c, list |-> comps[c], category |-> c]]
    /\ UNCHANGED <<node, comps, stack, moved, lost, result>>
\* A measurement of n bytes and d time ends: a Read or a Write of a wrapped stream,
\* or, for the functions that time, the call of the end function.
Measure(call, n, d) ==
    LET own(c) == [c EXCEPT !.dur = CASE call.f.own = "set" -> d [] call.f.own = "add" -> @ + d
                                      [] call.f.own = "none" -> @,
                            !.io = @ + n]
    IN /\ node' = [i \in DOMAIN node |->
            CASE i = call.self -> own(node[i])
              [] i = call.category /\ call.f.total -> [node[i] EXCEPT !.dur = @ + d]
              [] OTHER -> node[i]]
       /\ moved' = [moved EXCEPT ![call.self] = @ + n]

\* A wrapped stream moves a byte.
Transfer(t) ==
    /\ result = Nil /\ reading[t] = Nil /\ stack[t] # <<>>
    /\ LET call == Last(stack[t]) IN
       /\ call.f.io /\ moved[call.self] < MaxBytes
       /\ \E d \in Times : Measure(call, 1, d)
    /\ UNCHANGED <<comps, stack, reading, lost, result>>

\* The call ends: a timer stops, or a stream is closed.
End(t) ==
    /\ result = Nil /\ reading[t] = Nil /\ stack[t] # <<>>
    /\ LET call == Last(stack[t]) IN
       IF call.f.io THEN UNCHANGED <<node, moved>> ELSE \E d \in Times : Measure(call, 0, d)
    /\ stack' = [stack EXCEPT ![t] = Front(@)]
    /\ UNCHANGED <<comps, reading, lost, result>>

\* Bytes are counted to the component of the context.
AddIO(t) ==
    /\ Calling(t) /\ moved[Ctx(t)] < MaxBytes
    /\ node' = [node EXCEPT ![Ctx(t)].io = @ + 1] /\ moved' = [moved EXCEPT ![Ctx(t)] = @ + 1]
    /\ UNCHANGED <<comps, stack, reading, lost, result>>

MarkRedundant(t) ==
    /\ Calling(t) /\ Ctx(t) # Top
    /\ node' = [node EXCEPT ![Ctx(t)].kind = "redundant"]
    /\ UNCHANGED <<comps, stack, reading, moved, lost, result>>

MarkIORedundant(t) ==
    /\ Calling(t) /\ Ctx(t) # Top
    /\ node' = [node EXCEPT ![Ctx(t)].ioRedundant = TRUE]
    /\ UNCHANGED <<comps, stack, reading, moved, lost, result>>

-----------------------------------------------------------------------------
(* Reporting *)

TotalOf(list, Counts(_), Value(_)) ==
    FoldLeft(LAMBDA sum, c : sum + (IF Counts(c) THEN Value(c) ELSE 0), 0, list)

Serial(c) == c.kind = "serial"

\* Mutant: parallel components are subtracted as well.
Remainder_Parallel(c, list) == c.dur - TotalOf(list, LAMBDA d : d.kind # "redundant", LAMBDA d : d.dur)

\* What is left of a component's duration without its serial components'.
Remainder(c, list) == c.dur - TotalOf(list, Serial, LAMBDA d : d.dur)

\* The components below n as one list, each before its own components.
RECURSIVE Flatten(_)
Flatten(n) ==
    LET below(c) == [node[c] EXCEPT !.dur = Remainder(node[c], [i \in DOMAIN comps[c] |-> node[comps[c][i]]])]
    IN FlattenSeq([i \in DOMAIN comps[n] |-> <<below(comps[n][i])>> \o Flatten(comps[n][i])])

\* The handler has returned in d time: the interceptor cleans and flattens the data
\* and attaches it to the answer. Every component has a name, so that cleaning has nothing to remove.
AttachTrailer(d) ==
    /\ result = Nil /\ reading[Handler] = Nil /\ stack[Handler] = <<>>
    /\ result' = [total |-> d, components |-> Flatten(Top),
                  dur |-> Remainder([dur |-> d], [i \in DOMAIN comps[Top] |-> node[comps[Top][i]]])]
    /\ UNCHANGED <<node, comps, stack, reading, moved, lost>>

\* The totals that are published with a checkpoint.
TotalDuration(list) == TotalOf(list, Serial, LAMBDA c : c.dur)
TotalIO(list) == TotalOf(list, LAMBDA c : c.kind # "redundant", LAMBDA c : c.io)

\* The total that is printed leaves out the components whose I/O alone is redundant.
PrintedIO(list) == TotalOf(list, LAMBDA c : c.kind # "redundant" /\ ~c.ioRedundant, LAMBDA c : c.io)

Next ==
    \/ \E t \in Threads :
        \/ \E f \in Calls : Begin(t, f)
        \/ AppendComponent(t) \/ AppendCategory(t) \/ FindCategory(t)
        \/ Transfer(t) \/ End(t) \/ AddIO(t) \/ MarkRedundant(t) \/ MarkIORedundant(t)
    \/ \E d \in Times : AttachTrailer(d)

Spec == Init /\ [][Next]_vars

-----------------------------------------------------------------------------

\* Whatever goroutines added at the same time, as long as no append was lost, the
\* published I/O total is the bytes that were moved through the components that are
\* not redundant, whether serial, parallel or in a category.
IOKept ==
    result # Nil /\ ~lost =>
        TotalIO(result.components) =
            MapThenSumSet(LAMBDA n : moved[n], {n \in DOMAIN node \ {Top} : node[n].kind # "redundant"})

\* No serial component is below one that is parallel or redundant.
Layered ==
    \A n \in DOMAIN node \ {Top} :
        node[n].kind # "serial" => \A c \in ToSet(comps[n]) : node[c].kind # "serial"

\* Flattening divides the request's time without loss: what remains of the root's
\* duration and the durations of the serial components in the list, the published
\* total, add up to it.
DurationKept ==
    result # Nil /\ Layered => result.dur + TotalDuration(result.components) = result.total

\* Neither bytes nor time get lost on the way from the components to the published
\* profile (Flatten and publishCheckpoint).
ProfileKept == IOKept /\ DurationKept
=============================================================================
