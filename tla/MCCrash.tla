------------------------------ MODULE MCCrash ------------------------------
(* Three functions of two addresses each, from 4 on; 2 and 3 are of the    *)
(* handler.  The first two functions end with a call, so that the return   *)
(* address is in the next one.                                             *)
EXTENDS Crash

CONSTANTS t1, t2

f(addr) == IF addr \in 4 .. 9 THEN <<"f", "g", "h">>[(addr - 2) \div 2]
           ELSE IF addr \in 2 .. 3 THEN "handler" ELSE NoName

From(function) == [ip       |-> CASE function = "f" -> 6 [] function = "g" -> 8 [] OTHER -> 9,
                   function |-> function]

On(pc, callers) == [pc |-> pc, function |-> f(pc), callers |-> callers, overflow |-> FALSE]

MCThreads == {t1, t2}
MCAbove   == <<3>>
MCSignals == <<"SIGABRT", "SIGABRT", "SIGSEGV">>   \* SIGABRT, SIGIOT, SIGSEGV
MCStacks  == {On(0, <<From("h")>>),
              On(4, <<>>),
              On(7, <<From("f"), From("g"), From("h")>>),
              [On(4, <<From("f"), From("f"), From("f")>>) EXCEPT !.overflow = TRUE]}
=============================================================================
