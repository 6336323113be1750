----------------------------- MODULE OtRegisters -----------------------------
(***************************************************************************)
(* Registers as the XML configuration of an ot-sim device has them         *)
(* (apps/otsim/protocols): a section is the client or the server of one    *)
(* protocol, and the address of a register is never stated, it is counted. *)
(* A register is a record of a type and a tag.                             *)
(***************************************************************************)
EXTENDS Naturals, Sequences, SequencesExt

(* Each protocol module numbers the registers of a type from its base.     *)
Points(regs) ==
  [k \in DOMAIN regs |->
    [type |-> regs[k].type,
     addr |-> Cardinality({j \in 1..(k - 1) : regs[j].type = regs[k].type}),
     tag  |-> regs[k].tag]]

Section(mode, proto, at, regs) ==
  [mode |-> mode, proto |-> proto, at |-> at, points |-> Points(regs)]
=============================================================================
