------------------------ MODULE MCInstrumentedProgram ------------------------
EXTENDS InstrumentedProgram, TLC

\* Two inputs; the values they can have are those of the narrow type.
MCSymmetry == Permutations(Addr)

MCAssign == [0 .. 1 -> -1 .. 1]
MCValues == -1 .. 1
MCFormRange == -1 .. 1
MCCodes == {"SUBTRACT", "MULTIPLY", "L_NOT", "LT", "CONCRETE"}
MCHandledCodes == MCCodes \ {"CONCRETE"}
MCLiterals == {1}
\* A cast to _Bool: it changes -1.
MCCasts == {[v \in MCValues |-> IF v = 0 THEN 0 ELSE 1]}
MCForeign == {-1}
\* "input" may be absent, too short, or longer than the inputs read.
MCFileInputs == {<< 1 >>, << 1, -1, 1 >>}
MCType == {"char"}
MCTypeMin == [char |-> -1]
MCTypeSize == [char |-> 3]

\* Calls that nest and follow each other need few values.
CallCodes == {"LT"}
CallAssign == [0 .. 0 -> 0 .. 1]
CallValues == 0 .. 1
CallFormRange == -1 .. 1
CallForeign == {0}
CallFileInputs == {<< 1 >>}
CallTypeMin == [char |-> 0]
CallTypeSize == [char |-> 2]
=============================================================================
