---------------------------- MODULE MCTraceCompiler ----------------------------
EXTENDS TraceCompiler

CONSTANTS loop, outer

MCProtoOf == [pc \in Pc |-> CASE pc = loop -> "f" [] pc = outer -> "h" [] OTHER -> "g"]
\* All kinds of bytecode with two traces, one loop with three, and with three a
\* return and a loop that it enters, neither of them switched off.
MCProgram == {[code |-> {loop} \cup Func \cup Ret, maxtrace |-> 2],
              [code |-> {loop}, maxtrace |-> 3],
              [code |-> {outer} \cup Ret, maxtrace |-> 3]}

\* A loop in a function that is called by one that is switched off and returns
\* into its own frames.
MCReturning == {[code |-> {loop} \cup Ret, maxtrace |-> 3]}
===============================================================================
