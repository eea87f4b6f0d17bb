------------------------------ MODULE Bytecode ------------------------------
(***************************************************************************)
(* The code of one block, as compile/emit.c writes it and vm/exec.c reads  *)
(* it back.  An instruction is an opcode byte and a parameter: one byte if *)
(* it is small, else a marker that says how many bytes follow, big-endian. *)
(* A jump to a label that is not placed yet is emitted with four blank     *)
(* bytes that are overwritten when the whole block has been compiled.      *)
(*                                                                         *)
(* The markers are opcodes (BC_LONG_NUM and its wider kin), numbers a      *)
(* small parameter can have as well; emit_arg and get_param agree about    *)
(* every other parameter.                                                  *)
(***************************************************************************)
EXTENDS Integers, Sequences

CONSTANTS
  Base,                       \* values of a byte (256); even
  LONG, VLONG, VVLONG,        \* BC_LONG_NUM, BC_VLONG_NUM, BC_VVLONG_NUM
  OP, JMP,                    \* an opcode with a parameter, a jump
  Args,                       \* the parameters tried
  Label,
  MaxInstructions             \* bound on the length of a block

Markers == {LONG, VLONG, VVLONG}

(* How many values this many bytes have *)
Power[width \in 0 .. 8] == IF width = 0 THEN 1 ELSE Base * Power[width - 1]

ASSUME BytecodeAssumption ==
  /\ Base \in Nat /\ Base > 4 /\ Base % 2 = 0
  /\ {LONG, VLONG, VVLONG, OP, JMP} \subseteq 0 .. Base - 1
  /\ LONG # VLONG /\ VLONG # VVLONG /\ LONG # VVLONG /\ OP # JMP
  /\ 0 \notin Markers
  /\ Args \subseteq -(Power[8] \div 2) .. Power[8] \div 2 - 1
  /\ MaxInstructions \in Nat

Unplaced == -1

VARIABLES
  phase,       \* "emit" | "run" | "overrun"
  code,        \* the bytecode buffer
  sent,        \* what was compiled: pairs of opcode and parameter or label
  place,       \* label -> its block_position, or Unplaced (found_yet = FALSE)
  fixups,      \* label_positions: labels still to fill in, with the offset
  ip,          \* next byte to execute
  got          \* what was executed: pairs of opcode and parameter

vars == <<phase, code, sent, place, fixups, ip, got>>

(* Plausible mistakes: bytes not cut to a byte, a sign not extended. *)
BigEndianUncut(n, width) == [d \in 1 .. width |-> n \div Power[width - d]]
BigEndian(n, width) == [d \in 1 .. width |-> (n \div Power[width - d]) % Base]
Unsigned(bytes) ==
  LET result[d \in 0 .. Len(bytes)] ==
        IF d = 0 THEN 0 ELSE result[d - 1] * Base + bytes[d]
  IN  result[Len(bytes)]
SignedAsUnsigned(bytes) == Unsigned(bytes)
Signed(bytes) ==
  LET n == Unsigned(bytes)
      range == Power[Len(bytes)]
  IN  IF n >= range \div 2 THEN n - range ELSE n

Wide(n, width) == BigEndian(n % Power[width], width)

Fits(n, width) == -(Power[width] \div 2) < n /\ n < Power[width] \div 2

(* emit_arg *)
Arg(n) ==
  IF n \in 0 .. Base - 4 THEN <<n>>
  ELSE IF Fits(n, 2) THEN <<LONG>> \o Wide(n, 2)
  ELSE IF Fits(n, 4) THEN <<VLONG>> \o Wide(n, 4)
  ELSE <<VVLONG>> \o Wide(n, 8)

(* A plausible mistake: four bytes after BC_VVLONG_NUM, as bytecode.h says. *)
FollowingFour(first) ==
  CASE first = LONG -> 2 [] first \in {VLONG, VVLONG} -> 4 [] OTHER -> 0

(* get_param: how many bytes follow the first one, and what they say *)
Following(first) ==
  CASE first = LONG -> 2 [] first = VLONG -> 4 [] first = VVLONG -> 8 [] OTHER -> 0

Param(bytes, at) ==
  IF bytes[at] \in Markers
  THEN Signed(SubSeq(bytes, at + 1, at + Following(bytes[at])))
  ELSE bytes[at]

(* sbVmCompiler_overwrite_code_at *)
Overwritten(bytes, offset, new) ==
  [b \in DOMAIN bytes |->
     IF b - offset \in DOMAIN new THEN new[b - offset] ELSE bytes[b]]

(* The addresses of the labels, filled in one after the other *)
Filled ==
  LET filled[f \in 0 .. Len(fixups)] ==
        IF f = 0 THEN code
        ELSE Overwritten(filled[f - 1], fixups[f][2], BigEndian(place[fixups[f][1]], 4))
  IN  filled[Len(fixups)]

-------------------------------------------------------------------------------
Init ==
  /\ phase = "emit"
  /\ code = <<>> /\ sent = <<>> /\ fixups = <<>>
  /\ place = [l \in Label |-> Unplaced]
  /\ ip = 0 /\ got = <<>>

Emit(bytes, op, arg) ==
  /\ phase = "emit"
  /\ Len(sent) < MaxInstructions
  /\ code' = code \o bytes
  /\ sent' = Append(sent, <<op, arg>>)
  /\ UNCHANGED <<phase, place, ip, got>>

(* EMIT(op); EARG(n) *)
EmitInstruction(n) ==
  /\ Emit(<<OP>> \o Arg(n), OP, n)
  /\ UNCHANGED fixups

(* compile_stmt, IR_S_JUMP to a label already placed *)
EmitBackward(l) ==
  /\ place[l] # Unplaced
  /\ Emit(<<JMP>> \o Arg(place[l]), JMP, l)
  /\ UNCHANGED fixups

(* compile_stmt, IR_S_JUMP to a label not placed yet; record_labelpos *)
EmitForward(l) ==
  /\ place[l] = Unplaced
  /\ Emit(<<JMP, VLONG>> \o Arg(0) \o Arg(0) \o Arg(0) \o Arg(0), JMP, l)
  /\ fixups' = Append(fixups, <<l, Len(code) + 2>>)

(* compile_stmt, IR_S_LABEL.  A label is placed once. *)
PlaceLabel(l) ==
  /\ phase = "emit"
  /\ place[l] = Unplaced
  /\ place' = [place EXCEPT ![l] = Len(code)]
  /\ UNCHANGED <<phase, code, sent, fixups, ip, got>>

(* The end of compile_chunk: every forward jump is filled in.  The labels  *)
(* jumped to have all been placed: ir.c puts a label into the statements   *)
(* of the chunk that jumps to it.                                          *)
FinishChunk ==
  /\ phase = "emit"
  /\ \A f \in DOMAIN fixups : place[fixups[f][1]] # Unplaced
  /\ code' = Filled
  /\ fixups' = <<>>
  /\ phase' = "run"
  /\ UNCHANGED <<sent, place, ip, got>>

(* get_opcode, then get_param *)
Execute ==
  /\ phase = "run"
  /\ ip + 2 <= Len(code)
  /\ ip + 2 + Following(code[ip + 2]) <= Len(code)
  /\ got' = Append(got, <<code[ip + 1], Param(code, ip + 2)>>)
  /\ ip' = ip + 2 + Following(code[ip + 2])
  /\ UNCHANGED <<phase, code, sent, place, fixups>>

(* get_param does not check where the code ends: out of step it reads on   *)
(* past it, and what it finds there is not modelled.                       *)
Overrun ==
  /\ phase = "run"
  /\ ip < Len(code)
  /\ \/ ip + 2 > Len(code)
     \/ /\ ip + 2 <= Len(code)
        /\ ip + 2 + Following(code[ip + 2]) > Len(code)
  /\ phase' = "overrun"
  /\ UNCHANGED <<code, sent, place, fixups, ip, got>>

Next ==
  \/ \E n \in Args : EmitInstruction(n)
  \/ \E l \in Label : EmitBackward(l) \/ EmitForward(l) \/ PlaceLabel(l)
  \/ FinishChunk
  \/ Execute
  \/ Overrun

Spec == Init /\ [][Next]_vars

-------------------------------------------------------------------------------
TypeOK ==
  /\ phase \in {"emit", "run", "overrun"}
  /\ code \in Seq(0 .. Base - 1)
  /\ place \in [Label -> {Unplaced} \cup 0 .. Len(code)]
  /\ ip \in 0 .. Len(code)
  /\ Len(sent) <= MaxInstructions

(* The parameter the j-th instruction was compiled with *)
Meant(j) == IF sent[j][1] = JMP THEN place[sent[j][2]] ELSE sent[j][2]

Executed(j) == got[j] = <<sent[j][1], Meant(j)>>

(* The machine executes the instructions that were compiled, parameters of *)
(* every width, negative ones and jumps in both directions included, up to *)
(* the first parameter that happens to be the number of a marker (emit_arg *)
(* against get_param, and the filling in of forward jumps).                *)
InStep ==
  \A j \in DOMAIN got :
    (\A h \in 1 .. j - 1 : h \in DOMAIN sent /\ Meant(h) \notin Markers)
      => /\ j \in DOMAIN sent
         /\ Meant(j) \notin Markers => Executed(j)

(* Without such a parameter a block is executed to its last byte. *)
RunsToTheEnd ==
  (\A j \in DOMAIN sent : Meant(j) \notin Markers) =>
    /\ phase # "overrun"
    /\ phase = "run" /\ Len(got) = Len(sent) => ip = Len(code)

(* The comment over get_param: "small numbers that are parameters to       *)
(* opcodes can just be encoded directly as 1 byte. numbers of 16-bit scale *)
(* can be encoded as FC + bytebyte": a parameter is read as it was meant.  *)
SmallParametersDirect ==
  phase = "run" => \A j \in DOMAIN got : j \in DOMAIN sent /\ Executed(j)
===============================================================================
