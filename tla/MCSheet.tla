------------------------------ MODULE MCSheet ------------------------------
(* Small instances of Sheet for TLC.                                       *)
EXTENDS Sheet, TLC

(* References such as $K20: they keep their column and not their row.      *)
Mixed == {{FIX_COL}}

(* Free ents are alike, so it does not matter which of them lookat takes.  *)
EntSymmetry == Permutations(Ents)

(* Up to three of formulas, deletions and, one at a time, a locked cell, a *)
(* value, a text, a formula for a text and a named range.                  *)
Holding(part) == Cardinality({e \in Ents : part[e]})
Others == Holding([e \in Ents |-> ent[e].locked]) + Holding([e \in Ents |-> ent[e].text # 0])
            + Holding([e \in Ents |-> ent[e].expr = "str"])
            + Holding([e \in Ents |-> ent[e].v # 0 \/ (ent[e].valid /\ ent[e].expr = "none")])
            + Len(range) \div 2
OneAtATime == Others <= 1 /\ Others + Len(to_fix) + Holding([e \in Ents |-> ent[e].expr # "none"]) <= 3
=============================================================================
