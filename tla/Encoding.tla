------------------------------ MODULE Encoding ------------------------------
(***************************************************************************)
(* One line of assembly through both tool chains: binutils assembles it    *)
(* (trying its five hash tables in turn), its disassembly is assembled     *)
(* again; LLVM assembles the same line (parsing operands one by one, then  *)
(* trying candidates), what it made is disassembled by binutils and        *)
(* assembled there, and disassembled by LLVM and assembled there.          *)
(***************************************************************************)
EXTENDS LlvmMC

CONSTANT Texts  \* the lines to assemble

VARIABLES
  text,   \* the line
  pct,    \* LLVM: are registers written with a percent sign
  job,    \* lines that the pass at hand has still to assemble
  at,     \* the hash table, the operand, then the candidate to try next
  ops,    \* LLVM: operands parsed so far
  out,    \* words of the pass at hand
  res     \* results of the passes that are over

vars == <<text, pct, job, at, ops, out, res>>

Passes == <<"gas", "gasAgain", "llvm", "llvmGas", "llvmAgain">>
pass == Passes[Len(res) + 1]
Running(passes) == Len(res) < Len(Passes) /\ pass \in passes /\ job # <<>>
InGas == Running({"gas", "gasAgain", "llvmGas"})
InLlvm == Running({"llvm", "llvmAgain"})

Init ==
  /\ text \in Texts
  /\ pct \in BOOLEAN
  /\ job = <<text>> /\ at = 1 /\ ops = <<>> /\ out = Accepted(<<>>) /\ res = <<>>

-----------------------------------------------------------------------------
(* A line is done: its words are written, or the pass gives up. *)
Settle(r) ==
  /\ out' = IF r.ok THEN Accepted(out.words \o r.words) ELSE Refused
  /\ job' = IF r.ok THEN Tail(job) ELSE <<>>
  /\ at' = 1 /\ ops' = <<>>
  /\ UNCHANGED <<text, pct, res>>

Pseudo == InGas /\ IsPseudo(Head(job)) /\ Settle(pseudo_set(Head(job).ops))

Limit == InGas /\ ~IsPseudo(Head(job)) /\ at = 1 /\ TooManyRegisters(Head(job)) /\ Settle(Refused)

(* One hash table after another until a row takes the operands. *)
TryTable ==
  /\ InGas /\ ~IsPseudo(Head(job)) /\ (at = 1 => ~TooManyRegisters(Head(job)))
  /\ LET rows == hash_find(at, Head(job).name)
         code == dd_get_insn_code(rows[1], Head(job).ops)
     IN  \/ rows = <<>> /\ Settle(Refused)
         \/ rows # <<>> /\ code.ret # "fail" /\ Settle(Emitted(code, Head(job)))
         \/ rows # <<>> /\ code.ret = "fail"
            /\ at' = at + 1 /\ UNCHANGED <<text, pct, job, ops, out, res>>

(* Disassembly is printed with percent signs. *)
Percent == pct \/ pass = "llvmAgain"

ParseOperand ==
  /\ InLlvm /\ at <= Len(Head(job).ops)
  /\ LET o == parseOperand(Head(job).name, at, Head(job).ops[at], Percent)
     IN  \/ o = ParseFail /\ Settle(Refused)
         \/ o # ParseFail /\ ops' = Append(ops, o) /\ at' = at + 1
            /\ UNCHANGED <<text, pct, job, out, res>>

MatchCandidate ==
  /\ InLlvm /\ at > Len(Head(job).ops)
  /\ LET rows == Candidates(Head(job).name)
         n == at - Len(Head(job).ops)
     IN  \/ n > Len(rows) /\ Settle(Refused)
         \/ n <= Len(rows) /\ MatchesRow(rows[n], ops) /\ Settle(encodeInstruction(rows[n], ops))
         \/ n <= Len(rows) /\ ~MatchesRow(rows[n], ops)
            /\ at' = at + 1 /\ UNCHANGED <<text, pct, job, ops, out, res>>

(* What the next pass has to assemble. *)
Shown(words) == [i \in 1..Len(words) |-> print_insn_dadao(words[i])]
ReadByLlvm(words) ==
  IF Len(words) = 1 /\ getInstruction(words[1]) # <<>>
  THEN <<printInst(getInstruction(words[1])[1], words[1])>> ELSE <<>>

NextJob(results) ==
  CASE Len(results) = 1 -> Shown(results[1].words)
    [] Len(results) = 2 -> <<Bracketed(text)>>
    [] Len(results) = 3 -> Shown(results[3].words)
    [] Len(results) = 4 -> ReadByLlvm(results[3].words)
    [] Len(results) = 5 -> <<>>

Finish ==
  /\ job = <<>> /\ Len(res) < Len(Passes)
  /\ res' = Append(res, out)
  /\ job' = NextJob(res')
  /\ out' = Accepted(<<>>)
  /\ UNCHANGED <<text, pct, at, ops>>

Next == Pseudo \/ Limit \/ TryTable \/ ParseOperand \/ MatchCandidate \/ Finish

Spec == Init /\ [][Next]_vars

-----------------------------------------------------------------------------
Done == Len(res) = Len(Passes)
gas == res[1]
gasAgain == res[2]
llvm == res[3]
llvmGas == res[4]
llvmAgain == res[5]

(* What either assembler writes, objdump shows as text from which gas      *)
(* writes the same words: shared names with their order of hash tables,    *)
(* signs and ranges of immediates and the base of branches all agree. Gas  *)
(* takes a call through rb0 and rd0 with no offset to be a mistake.        *)
RoundTrip ==
  Done => /\ gas.ok => gasAgain = gas
          /\ (llvm.ok /\ llvm.words # <<Major(109)>>) => llvmGas = llvm

(* A line that both assemblers accept is the same code, but for the wyde   *)
(* position of address registers, which LLVM takes to be 0, and a register *)
(* that setrd and setrb read as a symbol: one of floating point, or any    *)
(* without percent sign.                                                   *)
AssemblersAgree ==
  LET position == \E i \in DOMAIN text.ops : text.ops[i].k = "ww" /\ text.ops[i].v > 0
      address == Len(text.ops) > 0 /\ text.ops[1].k = "reg" /\ text.ops[1].f = "rb"
      symbol == IsPseudo(text) /\ text.ops[2].k = "reg" /\ (~pct \/ text.ops[2].f = "rf")
  IN  (Done /\ gas.ok /\ llvm.ok /\ ~(position /\ address) /\ ~symbol) => llvm = gas

(* What LLVM disassembles, its own assembler either refuses or reads as    *)
(* the word it was: no word turns into another one.                        *)
LlvmReads == (Done /\ llvm.ok /\ llvmAgain.ok /\ llvmAgain.words # <<>>) => llvmAgain = llvm
============================================================================
