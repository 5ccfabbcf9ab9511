--------------------------- MODULE MCOoOProcessor ---------------------------
EXTENDS OoOProcessor

I(op, addr) == [op |-> op, addr |-> addr]

\* A store that a load may overtake with a branch behind them, and two pairs
\* of stores and loads of one word.
StoreLoadBranch == <<I("st", 1), I("ld", 1), I("br", 0)>>
StoresLoads == <<I("st", 1), I("ld", 1), I("st", 1), I("ld", 1)>>

BothPrograms == {StoreLoadBranch, StoresLoads}

Instructions == 1 .. 4
ByParity == [n \in Instructions |-> n % 2]
FewEntries == [ld |-> 2, st |-> 1, br |-> 1, win |-> 2, reg |-> 2]
=============================================================================
