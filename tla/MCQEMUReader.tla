---------------------------- MODULE MCQEMUReader ----------------------------
(* Programs for QEMUReader. *)
EXTENDS QEMUReader

Inst(pc, uops, addr) == [op |-> "inst", pc |-> pc, uops |-> uops, addr |-> addr]

\* Programs without load multiples, alternating two kinds of instruction:
\* one or two uops, an empty IT-block instruction, a memory uop without
\* address.  They are long enough for both indices to wrap.
Plain == {Inst(1, <<"alu">>, TRUE), Inst(2, <<>>, TRUE), Inst(3, <<"ctl", "alu">>, FALSE),
          Inst(4, <<"mem", "alu">>, FALSE)}
PlainProgram == {[k \in 1 .. 13 |-> IF k % 2 = 0 THEN x ELSE y] : x \in Plain, y \in Plain}

Alu(pc) == Inst(pc, <<"alu">>, TRUE)
Load(pc) == Inst(pc, <<"mem">>, TRUE)
\* A load multiple of two registers: two entries of one pc.
Ldm2(pc) == <<Inst(pc, <<"mem", "mem">>, TRUE), Inst(pc, <<"mem", "mem">>, TRUE)>>
\* pop {r, pc}: a load and a return.
Pop2(pc) == <<Inst(pc, <<"mem", "ret">>, TRUE), Inst(pc, <<"mem", "ret">>, TRUE)>>
Syscall == [op |-> "sys", pc |-> 99, uops |-> <<"alu">>, addr |-> TRUE]

\* At most one load multiple in a batch, where the FIFO still holds enough;
\* neighbouring loads anywhere; a system call while there is room.
MultipleProgram ==
  {<<Alu(1)>> \o Ldm2(2) \o <<Alu(3), Load(4), Load(5), Load(6)>>
     \o <<Alu(7)>> \o Pop2(8) \o <<Load(9), Alu(10), Load(11), Load(12), Alu(13)>>,
   <<Syscall, Load(1), Load(2), Load(3), Load(4), Syscall, Load(6), Load(7), Load(8),
     Load(9), Alu(10)>> \o Ldm2(11) \o <<Alu(12)>>,
   Ldm2(1) \o <<Inst(2, <<"alu", "ctl", "alu">>, FALSE), Alu(3), Load(4), Load(5), Alu(6)>>
     \o Ldm2(7) \o <<Inst(8, <<>>, TRUE), Alu(9), Alu(10), Load(11), Load(12), Load(13)>>}

AllPrograms == PlainProgram \cup MultipleProgram

\* Load multiples in a row, some IT-block instructions cracking into nothing.
DenseMultiples ==
  {Ldm2(1) \o <<Alu(2)>> \o Ldm2(3) \o <<Alu(4)>> \o Ldm2(5) \o <<Inst(6, <<>>, TRUE), Alu(7)>>}
=============================================================================
