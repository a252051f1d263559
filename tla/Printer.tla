------------------------------ MODULE Printer ------------------------------
(***************************************************************************)
(* How Printer of backward.h writes a trace that is resolved: the calls    *)
(* from the outermost on, inlined ones in between, each with its source if *)
(* that is known, and in a snippet of it the line of the call in a colour. *)
(* Crash has the printer's part of a crash, Snippet what a snippet is.     *)
(***************************************************************************)
EXTENDS Naturals, Sequences, SequencesExt

CONSTANTS
  Backtraces,    \* sequences of resolved traces [object_function, source,
                 \* inliners], the last call first; a source is a [function,
                 \* line], with the line 0 if there is no file
  SnippetOf(_)   \* the lines of the snippet around a line, or none

(* The debug information that has inlined calls has the source as well.    *)
ASSUME BacktracesAssumption ==
  \A b \in Backtraces :
    /\ b \in Seq(ToSet(b))
    /\ \A trace \in ToSet(b) : /\ trace.inliners \in Seq(ToSet(trace.inliners))
                               /\ trace.source.line = 0 => trace.inliners = <<>>

Modes == {"automatic", "never", "always"}

VARIABLES
  st, printer_object, color_mode, isatty,   \* the trace, the options (object is one) and the sink
  _enabled, _reset,                 \* of its Colorize
  stage, trace_idx, inliner_idx,    \* of print_stacktrace() and print_trace()
  source_loc, rest,                 \* of print_snippet(): the place, its color, and the lines to come
  os,                               \* what is printed: for every "#" the functions it names
  color, stained                    \* history: of the terminal, and what is printed in a color

callVars  == <<st, printer_object, color_mode, isatty, _enabled>>
whereVars == <<stage, trace_idx, inliner_idx, source_loc, rest>>
colorVars == <<_reset, color, stained>>
printVars == <<callVars, whereVars, os, colorVars>>

PrintInit ==
  /\ st \in Backtraces /\ printer_object \in BOOLEAN /\ color_mode \in Modes /\ isatty \in BOOLEAN
  /\ _enabled = FALSE /\ _reset = FALSE /\ os = <<>> /\ color = "none" /\ stained = {}
  /\ stage = "start" /\ trace_idx = Len(st) /\ inliner_idx = 0
  /\ source_loc = [line |-> 0, color |-> "none"] /\ rest = <<>>

trace     == st[trace_idx]
HasSource == trace.source.line # 0

(* Colorize::activate(), with the file descriptor of a FILE* and without.  *)
Activated == IF color_mode = "automatic" /\ isatty THEN "always" ELSE color_mode

Activate ==
  /\ stage = "start" /\ stage' = "traces"
  /\ _enabled' = (Activated = "always")
  /\ UNCHANGED <<st, printer_object, color_mode, isatty, trace_idx, inliner_idx, source_loc, rest, os, colorVars>>

(* The output with the Colorize over it: a c is [color, reset].            *)
set_color(c, ccode) == IF _enabled THEN [color |-> ccode, reset |-> ccode # "reset"] ELSE c

LeftOn(c)  == c   \* mutant
SetBack(c) == set_color(c, "reset")

(* The history, as something is put out while the terminal has a color.    *)
Put(what, c) == IF c \in {"none", "reset"} THEN stained ELSE stained \cup {what}

print_source_loc(loc, ccode) ==
  /\ os' = [os EXCEPT ![Len(os)] = Append(@, loc.function)]
  /\ source_loc' = [line |-> loc.line, color |-> ccode]
  /\ rest' = IF loc.line = 0 THEN <<>> ELSE SnippetOf(loc.line)
  /\ stained' = Put("source", color)
  /\ UNCHANGED <<callVars, trace_idx, _reset, color>>

(* print_snippet(): the next line of it.                                   *)
PrintSnippetLine ==
  /\ rest # <<>> /\ rest' = Tail(rest)
  /\ LET marked == Head(rest) = source_loc.line
         before == [color |-> color, reset |-> _reset]
         at     == IF marked THEN set_color(before, source_loc.color) ELSE before
         after  == IF marked THEN SetBack(at) ELSE at
     IN  /\ stained' = Put(IF marked THEN "marked" ELSE "line", at.color)
         /\ color' = after.color /\ _reset' = after.reset
  /\ UNCHANGED <<callVars, stage, trace_idx, inliner_idx, source_loc, os>>

(* print_trace(): the object, the inlined calls and the source.            *)
PrintTrace ==
  /\ stage = "traces" /\ trace_idx > 0 /\ stage' = "inliners"
  /\ os' = Append(os, IF ~HasSource \/ printer_object THEN <<trace.object_function>> ELSE <<>>)
  /\ inliner_idx' = Len(trace.inliners)
  /\ stained' = Put("object", color)
  /\ UNCHANGED <<callVars, trace_idx, source_loc, rest, _reset, color>>

InnermostFirst(inliners) == inliners[Len(inliners) + 1 - inliner_idx]   \* mutant
OutermostFirst(inliners) == inliners[inliner_idx]

PrintInliner ==
  /\ stage = "inliners" /\ rest = <<>> /\ inliner_idx > 0
  /\ print_source_loc(OutermostFirst(trace.inliners), "purple")
  /\ inliner_idx' = inliner_idx - 1 /\ UNCHANGED stage

PrintSource ==
  /\ stage = "inliners" /\ rest = <<>> /\ inliner_idx = 0 /\ HasSource
  /\ print_source_loc(trace.source, "yellow")
  /\ stage' = "source" /\ UNCHANGED inliner_idx

EndTrace ==
  /\ rest = <<>> /\ \/ stage = "source"
                    \/ stage = "inliners" /\ inliner_idx = 0 /\ ~HasSource
  /\ stage' = "traces" /\ trace_idx' = trace_idx - 1
  /\ UNCHANGED <<callVars, inliner_idx, source_loc, rest, os, colorVars>>

(* ~Colorize                                                               *)
EndColors ==
  /\ stage = "traces" /\ trace_idx = 0 /\ stage' = "done"
  /\ LET c == [color |-> color, reset |-> _reset]
         d == IF _reset THEN set_color(c, "reset") ELSE c
     IN  color' = d.color /\ _reset' = d.reset
  /\ UNCHANGED <<callVars, trace_idx, inliner_idx, source_loc, rest, os, stained>>

PrintNext == Activate \/ PrintTrace \/ PrintInliner \/ PrintSource \/ PrintSnippetLine \/ EndTrace \/ EndColors
PrintSpec == PrintInit /\ [][PrintNext]_printVars

-----------------------------------------------------------------------------
(* The calls of a trace from the outermost on.                             *)
CallsOf(t) ==
  Append(Reverse([i \in DOMAIN t.inliners |-> t.inliners[i].function]),
         IF t.source.line # 0 THEN t.source.function ELSE t.object_function)

(* What is printed reads as the stack does, "most recent call last": every *)
(* call once, one that is inlined after the ones it is inlined in, however *)
(* many frames they are in, whether or not the source is known             *)
(* (print_stacktrace(), print_trace()).                                    *)
ReadsAsTheCalls ==
  /\ ~printer_object => \A k \in 1 .. Len(st) - trace_idx : os[k] = CallsOf(st[Len(st) + 1 - k])
  /\ stage = "done" => Len(os) = Len(st) /\ trace_idx = 0

(* The colour goes on at a line of a call and ends with it: nothing else   *)
(* is printed in it, nor what the terminal gets after the trace, and one   *)
(* that is no terminal gets no colour unless it is asked for               *)
(* (print_snippet(), Colorize).                                            *)
ColorsEnd ==
  /\ stained \subseteq {"marked"}
  /\ color # "none" => color_mode = "always" \/ (color_mode = "automatic" /\ isatty)
  /\ stage = "done" => color \in {"none", "reset"}
=============================================================================
