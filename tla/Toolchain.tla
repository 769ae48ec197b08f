----------------------------- MODULE Toolchain -----------------------------
(***************************************************************************)
(* A program is assembled statement by statement, relaxed pass by pass,    *)
(* converted, and linked relocation by relocation. The result is run on    *)
(* the emulator's translation (QemuInsns) and compared with what the       *)
(* program says.                                                           *)
(***************************************************************************)
EXTENDS Bfd

CONSTANTS
  Programs,       \* sequences of statements
  LinkRelax,      \* whether the linker may be asked to relax: a set of BOOLEAN
  Machines        \* the states code is run in

VARIABLES
  prog,           \* the program
  relax,          \* is the linker to relax?
  phase,          \* what the tools are doing
  next,           \* the statement, or the relocation, that is next
  frags,
  places,         \* where the symbols are defined
  laid,           \* the addresses of the frags in the layout before
  again,          \* has the linker's pass changed anything?
  obj

vars == <<prog, relax, phase, next, frags, places, laid, again, obj>>

NoObject == [text |-> <<>>, relocs |-> <<>>, syms |-> <<>>, ok |-> TRUE]

Init ==
  /\ prog \in Programs
  /\ relax \in LinkRelax
  /\ phase = "assemble" /\ next = 1
  /\ frags = <<Frag>>
  /\ places = <<>>
  /\ laid = <<>>
  /\ again = FALSE
  /\ obj = NoObject

(* A label names the place of the next word. *)
Label ==
  /\ phase = "assemble" /\ next <= Len(prog) /\ prog[next].op = "label"
  /\ places' = (prog[next].sym :> <<Len(frags), Len(Last(frags).words)>>) @@ places
  /\ next' = next + 1
  /\ UNCHANGED <<prog, relax, phase, frags, laid, again, obj>>

Assemble ==
  /\ phase = "assemble" /\ next <= Len(prog) /\ prog[next].op # "label"
  /\ \E left \in BOOLEAN : frags' = Assembled(frags, next, prog[next], left)
  /\ next' = next + 1
  /\ UNCHANGED <<prog, relax, phase, places, laid, again, obj>>

(* relax_segment (write.c): estimates first ... *)
Estimate ==
  /\ \/ phase = "assemble" /\ next > Len(prog)
     \/ phase = "estimate"
  /\ frags' = Estimated(frags, places)
  /\ phase' = "relax"
  /\ UNCHANGED <<prog, relax, next, places, laid, again, obj>>

(* ... then frags grow until they do not; and once more from the estimates *)
(* if the layout is not the one before.                                    *)
Addresses(fs) == [k \in DOMAIN fs |-> fs[k].address]

Grow ==
  /\ phase = "relax" /\ Relaxed(frags, places) # frags
  /\ frags' = Relaxed(frags, places)
  /\ UNCHANGED <<prog, relax, phase, next, places, laid, again, obj>>

Settle ==
  /\ phase = "relax" /\ Relaxed(frags, places) = frags
  /\ laid' = Addresses(frags)
  /\ phase' = IF laid' = laid THEN "convert" ELSE "estimate"
  /\ UNCHANGED <<prog, relax, next, frags, places, again, obj>>

Convert ==
  /\ phase = "convert"
  /\ obj' = dadao_elf_check_relocs(Object(frags, places))
  /\ phase' = IF ~obj'.ok THEN "refused" ELSE IF relax THEN "shrink" ELSE "relocate"
  /\ next' = 1
  /\ UNCHANGED <<prog, relax, frags, places, laid, again>>

(* The linker goes over the relocations until a pass changes nothing. *)
Shrink ==
  /\ phase = "shrink" /\ next <= Len(obj.relocs)
  /\ obj' = dadao_elf_relax_section(obj, next)
  /\ again' = (again \/ Relaxes(obj, obj.relocs[next]))
  /\ next' = next + 1
  /\ UNCHANGED <<prog, relax, phase, frags, places, laid>>

EndShrink ==
  /\ phase = "shrink" /\ next > Len(obj.relocs)
  /\ phase' = IF again THEN "shrink" ELSE "relocate"
  /\ again' = FALSE
  /\ next' = 1
  /\ UNCHANGED <<prog, relax, frags, places, laid, obj>>

Relocate ==
  /\ phase = "relocate" /\ next <= Len(obj.relocs)
  /\ obj' = dadao_final_link_relocate(obj, next)
  /\ next' = next + 1
  /\ UNCHANGED <<prog, relax, phase, frags, places, laid, again>>

Finish ==
  /\ phase = "relocate" /\ next > Len(obj.relocs)
  /\ phase' = IF obj.ok THEN "linked" ELSE "refused"
  /\ UNCHANGED <<prog, relax, next, frags, places, laid, again, obj>>

Next == Label \/ Assemble \/ Estimate \/ Grow \/ Settle \/ Convert
        \/ Shrink \/ EndShrink \/ Relocate \/ Finish

Spec == Init /\ [][Next]_vars /\ WF_vars(Next)

-----------------------------------------------------------------------------
(* What a program means. Addresses are those the linked text has.          *)

Linked == phase = "linked"

Words(n) == {k \in DOMAIN obj.text : obj.text[k].st = n}
Address(k) == Vma + 4 * (k - 1)
Start(n) == LET ks == {k \in DOMAIN obj.text : obj.text[k].st >= n}
            IN  Address(IF ks = {} THEN Len(obj.text) + 1 ELSE CHOOSE k \in ks : \A l \in ks : k <= l)

Defined(sym) == \E n \in DOMAIN prog : prog[n].op = "label" /\ prog[n].sym = sym
Meant(sym) == IF Defined(sym)
              THEN Start(CHOOSE n \in DOMAIN prog : prog[n].op = "label" /\ prog[n].sym = sym)
              ELSE Elsewhere[sym]

(* Running one instruction, and the instructions of a statement. CALL goes *)
(* where JUMP goes (QemuRas has what it does besides).                     *)
Run(i, s) ==
  LET code == translate_insn([i EXCEPT !.form = IF @ = "CALLi" THEN "JUMPi" ELSE @], s.rb[0])
  IN  Stepped(LAMBDA t, k : Apply(code[k], t, 0, 0), s, Len(code))

RunAll(n, s) ==
  LET k(t) == (t.rb[0] - Vma) \div 4 + 1
      one(t, ignored) == IF k(t) \in Words(n) THEN Run(obj.text[k(t)].insn, t) ELSE t
  IN  Stepped(one, [s EXCEPT !.rb[0] = Cut(Start(n))], 8)

(* The registers and the memory; pc, temporaries and jmp aside. *)
Visible(s) == [rd |-> s.rd, rf |-> s.rf, ra |-> s.ra, mem |-> s.mem,
               rb |-> [s.rb EXCEPT ![0] = 0]]

Falls(n, s) == [s EXCEPT !.rb[0] = Cut(Start(n + 1))]

-----------------------------------------------------------------------------
(* Type invariant: the phases, and what frags of each kind may grow by.    *)
TypeOK ==
  /\ phase \in {"assemble", "estimate", "relax", "convert", "shrink", "relocate", "linked", "refused"}
  /\ \A k \in DOMAIN frags :
       /\ frags[k].kind \in Relaxable \cup {"fill"}
       /\ frags[k].fr_var \in (CASE frags[k].kind = "ABS" -> {0, 12}
                                 [] frags[k].kind \in Conditional -> {0, 4}
                                 [] OTHER -> {0})

(* A set leaves the value it names, whatever its wydes: constants by       *)
(* dd_pseudo_set_imm, symbols by the linker's dd_fill_abs, which find      *)
(* their own ways to the fewest instructions; adrp and the offset that     *)
(* follows it by pages counted from the instruction. Not claimed: symbols  *)
(* in rf registers, symbols in the last wyde of the address space, where   *)
(* the relocation overwrites the opcode, and offsets that read as          *)
(* negative.                                                               *)
SetsValue ==
  Linked =>
    \A n \in DOMAIN prog, s \in Machines :
      LET st == prog[n]
          value == IF st.op = "setimm" THEN st.imm ELSE Cut(Meant(st.sym))
      IN  CASE \/ st.op = "setimm" /\ st.reg # 0
               \/ st.op = "ABS" /\ st.reg # 0 /\ st.file # "rf" /\ value < M - 2^WydeBits ->
                 LET t == RunAll(n, s)
                 IN  /\ Visible(t) = Visible([s EXCEPT ![st.file][st.reg] = value])
                     /\ t.rb[0] = Cut(Start(n + 1))
            [] st.op = "HI18" /\ st.reg # 0 /\ value % 2^LO12 < 2^(LO12 - 1) ->
                 prog[n + 1].op = "LO12" => RunAll(n + 1, RunAll(n, s)).rb[st.reg] = value
            [] OTHER -> TRUE

(* Is the symbol of branch n within the reach of its field? *)
Near(n) ==
  LET bits == CASE prog[n].op = "BRCC" -> BRCC [] prog[n].op = "BRCC12" -> BRCC12 [] OTHER -> JUMPI
  IN  Fits(bits, (Meant(prog[n].sym) - Start(n)) \div 4)

(* Branches the assembler can make longer: first in their frag, to a       *)
(* symbol of the section; the 18-bit ones are sized only by estimates,     *)
(* which do not count the reserve of a set of a symbol.                    *)
Extends(n) ==
  /\ prog[n].op \in Conditional /\ Defined(prog[n].sym) /\ Bind[prog[n].sym] # "weak"
  /\ n > 1 => \E m \in 1 .. n - 1 : /\ prog[m].op \in Relaxable
                                    /\ \A q \in m + 1 .. n - 1 : prog[q].op = "label"
  /\ prog[n].op = "BRCC" => \A m \in DOMAIN prog : prog[m].op # "ABS"

(* The linker keeps the registers of these branches. *)
KeepsRegisters(n) ==
  \/ prog[n].op \in {"JUMP", "CALL"} \/ prog[n].reg = 0
  \/ Defined(prog[n].sym) /\ Bind[prog[n].sym] # "weak"

Branch(n) == prog[n].op \in {"JUMP", "CALL"} \cup Conditional

Taken(n, s) == CASE prog[n].op = "BRCC" -> Holds(prog[n].cond, s.rd[prog[n].reg], 0)
                 [] prog[n].op = "BRCC12" -> Holds(prog[n].cond, s.rd[prog[n].reg], s.rd[prog[n].reg2])
                 [] OTHER -> TRUE

GoesAsWritten(n) ==
  \A s \in Machines :
    LET t == RunAll(n, s)
    IN  /\ Visible(t) = Visible(s)
        /\ t.rb[0] = Cut(IF Taken(n, s) THEN Meant(prog[n].sym) ELSE Start(n + 1))

(* A branch goes to its symbol exactly if its condition holds: the lengths *)
(* of branches depend on each other's, the passes see symbols that follow  *)
(* at the addresses of the pass before, and a branch found too short after *)
(* the last pass would silently go elsewhere.                              *)
BranchesReach ==
  Linked => \A n \in DOMAIN prog :
              Branch(n) /\ KeepsRegisters(n) /\ (Near(n) \/ Extends(n)) => GoesAsWritten(n)

(* A program that neither tool refuses has branches that go where it says: *)
(* tc-dadao.c has "offset too large" for the others, and elf64-dadao.c     *)
(* says "The conditional branches are supposed to reach any (code)         *)
(* address".                                                               *)
AcceptedReach ==
  Linked => \A n \in DOMAIN prog : Branch(n) /\ KeepsRegisters(n) => GoesAsWritten(n)

(* What a block is split into has the effect of the block. *)
SameEffect(n) ==
  \A s \in Machines : Visible(RunAll(n, s)) = Visible(Run(prog[n].insn, s))

(* -multiple-to-single gives what the one instruction does. Not claimed:   *)
(* the base rb0, an index register that is rd0 or is loaded, loads and     *)
(* stores of files other than rd, and moves upwards over their own source. *)
SingleIsMultiple ==
  Linked =>
    \A n \in DOMAIN prog :
      LET i == prog[n].insn
          claimed == CASE i.form \in {"LDM", "STM"} ->
                            i.file = "rd" /\ i.hb # 0 /\ i.hc # 0 /\ i.hc \notin i.ha .. i.ha + i.imm - 1
                       [] i.form = "R2R" -> i.file # i.from \/ i.hb \notin i.hc + 1 .. i.hc + i.imm - 1
                       [] OTHER -> TRUE
      IN  prog[n].op = "multi" /\ claimed => SameEffect(n)

(* Whatever the linker deletes, symbols and relocations stay with their    *)
(* words: a symbol names the first word of what follows its label, and a   *)
(* relocation is about the word of the statement with its symbol; and only *)
(* zero words are lost. One deletion moves the places of the others.       *)
LinksFollow ==
  phase \in {"shrink", "relocate"} =>
    /\ \A n \in DOMAIN prog : prog[n].op # "label" /\ prog[n].insn.form # "ZERO" => Words(n) # {}
    /\ \A y \in DOMAIN obj.syms : Vma + obj.syms[y] = Meant(y)
    /\ \A k \in DOMAIN obj.relocs :
         /\ Index(obj.relocs[k]) \in DOMAIN obj.text
         /\ prog[obj.text[Index(obj.relocs[k])].st].op = obj.relocs[k].type

(* Relaxation ends: branches that grow move others, and a branch may be    *)
(* short again in a later pass, but the layout settles.                    *)
LayoutSettles == <>(phase \in {"linked", "refused"})
============================================================================
