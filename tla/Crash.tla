------------------------------- MODULE Crash -------------------------------
(***************************************************************************)
(* SignalHandling of backward.h, whose static object sh is in every        *)
(* program linked to the runtime: a thread that gets a signal prints its   *)
(* stack and raises the signal again.  Dispositions are of the process, a  *)
(* signal mask and an alternate stack of a thread; the handler allocates,  *)
(* so it waits for the allocator's lock, which the code it interrupted may *)
(* hold.  This is the build without libdw and libbfd, where the resolver   *)
(* is the one over backtrace_symbols().                                    *)
(***************************************************************************)
EXTENDS StackTrace

CONSTANTS
  Threads,
  Initial,      \* the thread that runs static initialisation and main()
  Signals,      \* make_default_signals(), in its order
  Stacks,       \* of a thread when a signal comes: [pc, function, callers,
                \* overflow], the callers [ip, function]
  Above,        \* the ips of the handler's frames, which are above them
  FunctionOf(_) \* the name backtrace_symbols() finds for an address, or NoName

None   == "none"
NoName == "no name"

ASSUME CrashAssumption == Initial \in Threads /\ Len(Above) <= Slack /\ Depth \in Nat \ {0}

(* An address is in the function that FunctionOf says, a return address    *)
(* after one.  The handler is none of the code a signal stops.             *)
ASSUME StacksAssumption ==
  /\ Above \in Seq(Nat) /\ Above # <<>> /\ Slack \in Nat /\ MaxAddress \in Nat
  /\ \A on \in Stacks :
       /\ on.pc \in Nat /\ on.function = FunctionOf(on.pc)
       /\ on.callers \in Seq(Range(on.callers))
       /\ \A i \in DOMAIN on.callers :
            /\ on.callers[i].ip \in Nat \ {0}
            /\ on.callers[i].function = FunctionOf(on.callers[i].ip - 1)
       /\ \A i \in DOMAIN Above : on.pc # 0 => Recorded([ip |-> Above[i], exact |-> FALSE]) # on.pc

VARIABLES
  init,         \* whether the process is its container's pid 1
  process,      \* "up", or how it ended: "killed", "exited" or "_exited"
  installed,    \* the signals the constructor of sh has come to
  disposition,  \* of each signal: "handler" or "default"
  altstack,     \* sh's _stack_content: "none", "live" or "freed"
  leaving,      \* whether exit() has run sh's destructor
  heap,         \* the thread that holds the allocator's lock, or None
  at,           \* where each thread is: "run", or a step of the handler
  signo,        \* the signal it handles, or None
  stack,        \* its stack when the signal came
  st,           \* the handler's StackTrace
  symbols,      \* its resolver's _symbols
  trace_idx,    \* print_stacktrace()'s loop variable
  printed,      \* the lines it has printed for traces
  signals,      \* history: the signals that came
  told          \* history: the traces that were printed to the end

handlerVars == <<at, signo, stack, st, symbols, trace_idx, printed>>
history     == <<signals, told>>
vars == <<init, process, installed, disposition, altstack, leaving, heap, handlerVars, history>>

NoStack == [pc |-> 0, function |-> NoName, callers |-> <<>>, overflow |-> FALSE]

Init ==
  /\ init \in BOOLEAN
  /\ process = "up" /\ installed = 0 /\ altstack = "none" /\ leaving = FALSE /\ heap = None
  /\ disposition = [s \in Range(Signals) |-> "default"]
  /\ at        = [t \in Threads |-> IF t = Initial THEN "construct" ELSE "run"]
  /\ signo     = [t \in Threads |-> None]
  /\ stack     = [t \in Threads |-> NoStack]
  /\ st        = [t \in Threads |-> Empty]
  /\ symbols   = [t \in Threads |-> <<>>]
  /\ trace_idx = [t \in Threads |-> 0]
  /\ printed   = [t \in Threads |-> <<>>]
  /\ signals   = <<>> /\ told = {}

InHandler(t) == at[t] \notin {"run", "construct"}
HeapIsFree   == heap = None
Goto(t, l)   == at' = [at EXCEPT ![t] = l]

(* The constructor of sh: the stack, if malloc() has it, then the handler  *)
(* of one signal after the other.                                          *)
Allocated ==
  /\ process = "up" /\ at[Initial] = "construct" /\ installed = 0 /\ altstack = "none"
  /\ HeapIsFree
  /\ altstack' = "live"
  /\ UNCHANGED <<init, process, installed, disposition, leaving, heap, handlerVars, history>>

Install ==
  /\ process = "up" /\ at[Initial] = "construct"
  /\ installed' = installed + 1
  /\ disposition' = [disposition EXCEPT ![Signals[installed']] = "handler"]
  /\ at' = [at EXCEPT ![Initial] = IF installed' = Len(Signals) THEN "run" ELSE "construct"]
  /\ UNCHANGED <<init, process, altstack, leaving, heap, signo, stack, st, symbols, trace_idx,
                 printed, history>>

(* The program's own use of the heap.                                      *)
Lock(t) ==
  /\ process = "up" /\ at[t] = "run" /\ HeapIsFree /\ heap' = t
  /\ UNCHANGED <<init, process, installed, disposition, altstack, leaving, handlerVars, history>>

Unlock(t) ==
  /\ process = "up" /\ at[t] = "run" /\ heap = t /\ heap' = None
  /\ UNCHANGED <<init, process, installed, disposition, altstack, leaving, handlerVars, history>>

(* main() returns: sh is destroyed, and its stack with it; the handlers    *)
(* and the registration of the stack stay.  Then the process ends.         *)
Destructor ==
  /\ process = "up" /\ at[Initial] = "run" /\ ~leaving /\ HeapIsFree
  /\ leaving' = TRUE
  /\ altstack' = IF altstack = "live" THEN "freed" ELSE altstack
  /\ UNCHANGED <<init, process, installed, disposition, heap, handlerVars, history>>

Ends(how) == /\ process' = how
             /\ UNCHANGED <<init, installed, disposition, altstack, leaving, heap, handlerVars, history>>

Exited == process = "up" /\ leaving /\ at[Initial] = "run" /\ Ends("exited")

-----------------------------------------------------------------------------
(* sa_mask: while a signal is handled, every other one is blocked, and it  *)
(* itself is not (SA_NODEFER).  The mutant leaves the mask empty.          *)
EmptyMask(t) == {}
Blocked(t)   == IF InHandler(t) THEN Range(Signals) \ {signo[t]} ELSE {}

(* SA_RESETHAND.  The mutant keeps the handler.                            *)
KeepHandler(s) == disposition
ResetHand(s)   == [disposition EXCEPT ![s] = "default"]

(* SA_ONSTACK: the handler runs on the alternate stack of the initial      *)
(* thread, on its own stack in the others.  Where there is none left the   *)
(* kernel ends the process; a freed one may still be there, or not.        *)
CanHandle(t, s, on) ==
  disposition[s] = "handler" /\ (on.overflow => t = Initial /\ altstack = "live")

sig_handler(t, s, on) ==
  /\ CanHandle(t, s, on)
  /\ disposition' = ResetHand(s)
  /\ signo' = [signo EXCEPT ![t] = s] /\ stack' = [stack EXCEPT ![t] = on]
  /\ st' = [st EXCEPT ![t] = Empty] /\ symbols' = [symbols EXCEPT ![t] = <<>>]
  /\ printed' = [printed EXCEPT ![t] = <<>>]
  /\ Goto(t, "load")
  /\ UNCHANGED <<init, process, installed, altstack, leaving, heap, trace_idx, told>>

Kill(t, s, on) ==
  /\ ~CanHandle(t, s, on) \/ (t = Initial /\ altstack = "freed")
  /\ process' = "killed"
  /\ UNCHANGED <<init, installed, disposition, altstack, leaving, heap, handlerVars, told>>

Comes(t, s) == \E on \in Stacks, handled \in BOOLEAN :
  /\ signals' = Append(signals, [thread |-> t, signal |-> s, stack |-> on, handled |-> handled])
  /\ IF handled THEN sig_handler(t, s, on) ELSE Kill(t, s, on)

(* A thread makes a fault, or calls abort().                               *)
Fault(t, s) == process = "up" /\ at[t] = "run" /\ Comes(t, s)

(* A signal from elsewhere, to a thread that does not block it; pid 1 does *)
(* not get one it has no handler for.                                      *)
Interrupt(t, s) ==
  /\ process = "up" /\ at[t] # "construct" /\ s \notin Blocked(t)
  /\ init => disposition[s] = "handler"
  /\ Comes(t, s)

-----------------------------------------------------------------------------
(* handleSignal().  The unwinder cannot go on from a null pc.              *)
Frames(on) ==
  LET Exact(ip)  == [ip |-> ip, exact |-> TRUE]
      Return(ip) == [ip |-> ip, exact |-> FALSE]
      callers    == IF on.pc = 0 THEN <<>> ELSE on.callers
  IN  <<Return(Above[1])>> \o [i \in DOMAIN Above |-> Return(Above[i])]
        \o <<Exact(on.pc)>> \o [i \in DOMAIN callers |-> Return(callers[i].ip)]

Step(t, from) == process = "up" /\ at[t] = from
Quiet == UNCHANGED <<init, process, installed, disposition, altstack, leaving, heap, signo, stack, signals, told>>

Load(t) ==
  LET error_addr == stack[t].pc IN
  /\ Step(t, "load") /\ HeapIsFree
  /\ st' = [st EXCEPT ![t] = IF error_addr # 0 THEN load_from(Frames(stack[t]), error_addr, Depth)
                                               ELSE load_here(Frames(stack[t]), Depth)]
  /\ Goto(t, "print") /\ UNCHANGED <<symbols, trace_idx, printed>> /\ Quiet

(* handle::reset(): the old value is freed, the new one owned.             *)
reset(t, new) == symbols' = [symbols EXCEPT ![t] = new]

load_addresses(t, addresses) ==
  IF addresses = <<>> THEN UNCHANGED symbols
                      ELSE reset(t, [i \in DOMAIN addresses |-> FunctionOf(addresses[i])])

(* Printer::print(): the symbols of all addresses, then a line for each.   *)
PrintStack(t) ==
  /\ Step(t, "print") /\ HeapIsFree
  /\ load_addresses(t, begin(st[t]))
  /\ trace_idx' = [trace_idx EXCEPT ![t] = size(st[t])]
  /\ Goto(t, "traces") /\ UNCHANGED <<st, printed>> /\ Quiet

(* The symbol is looked up by the trace's idx.                             *)
resolve(t, trace) == [idx |-> trace.idx, addr |-> trace.addr, function |-> symbols[t][trace.idx + 1]]

PrintTrace(t) ==
  /\ Step(t, "traces") /\ trace_idx[t] > 0 /\ HeapIsFree
  /\ printed' = [printed EXCEPT ![t] = Append(@, resolve(t, Trace(st[t], trace_idx[t] - 1)))]
  /\ trace_idx' = [trace_idx EXCEPT ![t] = @ - 1]
  /\ UNCHANGED <<at, st, symbols>> /\ Quiet

(* The end of handleSignal(): psiginfo(), and the printer and the trace    *)
(* are destroyed, which frees what they own.                               *)
Destroyed(t) ==
  /\ Step(t, "traces") /\ trace_idx[t] = 0 /\ HeapIsFree
  /\ st' = [st EXCEPT ![t] = Empty] /\ symbols' = [symbols EXCEPT ![t] = <<>>]
  /\ told' = told \cup {[thread |-> t, stack |-> stack[t], lines |-> printed[t]]}
  /\ Goto(t, "raise")
  /\ UNCHANGED <<init, process, installed, disposition, altstack, leaving, heap, signo, stack,
                 trace_idx, printed, signals>>

(* raise(): the signal is not blocked.  Its default action ends every      *)
(* process but pid 1, where nothing happens and _exit() comes next.        *)
Raise(t) ==
  /\ Step(t, "raise")
  /\ \/ \E on \in Stacks : sig_handler(t, signo[t], on) /\ UNCHANGED signals
     \/ disposition[signo[t]] = "default" /\ ~init /\ Ends("killed")
     \/ /\ disposition[signo[t]] = "default" /\ init
        /\ Goto(t, "watf") /\ UNCHANGED <<st, symbols, trace_idx, printed>> /\ Quiet

_exit(t) == Step(t, "watf") /\ Ends("_exited")

Handle(t) == Load(t) \/ PrintStack(t) \/ PrintTrace(t) \/ Destroyed(t) \/ Raise(t) \/ _exit(t)

CONSTANT MaxSignals   \* bounds the signals that come

Signal(t) == /\ Len(signals) < MaxSignals
             /\ \E s \in Range(Signals) : Fault(t, s) \/ Interrupt(t, s)

Next == \/ Allocated \/ Install \/ Destructor \/ Exited
        \/ \E t \in Threads : Lock(t) \/ Unlock(t) \/ Signal(t) \/ Handle(t)

(* Threads run, and a lock that is free again and again is got.            *)
Spec == Init /\ [][Next]_vars /\ \A t \in Threads : SF_vars(Handle(t)) /\ WF_vars(Unlock(t))

-----------------------------------------------------------------------------
(* What a trace is to say of a stack: the Depth frames nearest to where    *)
(* the signal came, that one last, each with the function it is in.        *)
Whole(on) ==
  LET functions == <<on.function>> \o [i \in DOMAIN on.callers |-> on.callers[i].function]
      shown     == Min({Len(functions), Depth})
  IN  [i \in 1 .. shown |-> [idx |-> shown - i, function |-> functions[shown - i + 1]]]

Says(lines) == [i \in DOMAIN lines |-> [idx |-> lines[i].idx, function |-> lines[i].function]]

(* Every trace that is printed is the one of the stack the signal found    *)
(* (load_from, Unwinder, TraceResolverLinuxImpl, print_stacktrace), and    *)
(* has none of the handler's own frames.  A null pc is the exception.      *)
TraceIsWhole == \A trace \in told : trace.stack.pc # 0 => Says(trace.lines) = Whole(trace.stack)

(* Where the signals of a process come to one thread, each once, the trace *)
(* of the first one it handles is printed to the end before a signal ends  *)
(* the process: the others wait until then (sig_handler, sa_mask).         *)
FirstCrashIsTold ==
  LET handled == {i \in DOMAIN signals : signals[i].handled}
      first   == signals[Min(handled)]
  IN  /\ process \in {"killed", "_exited"} /\ handled # {}
      /\ \A i, j \in DOMAIN signals :
           /\ signals[i].thread = signals[j].thread
           /\ signals[i].signal = signals[j].signal => i = j
      => \E trace \in told : trace.thread = first.thread /\ trace.stack = first.stack

(* A signal that is handled ends the process: the handler gets through and *)
(* what it raises is not handled again.  Only a signal that stopped the    *)
(* allocator under its lock leaves the process hanging (sig_handler).      *)
CrashEnds == \A t \in Threads :
  InHandler(t) ~> (process # "up" \/ \E u \in Threads : heap = u /\ InHandler(u))
=============================================================================
