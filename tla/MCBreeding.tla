----------------------------- MODULE MCBreeding -----------------------------
(***************************************************************************)
(* The instance of Breeding that TLC checks: three walls and a gate, two   *)
(* segments; one wall is an elite, one an immigrant.  The gate is a niche  *)
(* with a single slot; its range is one point to keep the instance small.  *)
(* MCWalls leaves it out.                                                  *)
(***************************************************************************)
EXTENDS Breeding

MCCounts == <<1, 1, 1, 2>>
MCWalls == <<1, 1>>
MCGene == [n \in 1..2 |-> IF n = 1 THEN {"t", "overhang"} ELSE {"t"}]
MCEnds == [n \in 1..2 |-> [g \in MCGene[n] |-> IF n = 1 THEN <<0, 1>> ELSE <<1, 1>>]]
MCUnplaceable == {genes \in Genomes(1) \union Genomes(2) : genes.segment = 1 /\ genes.value["t"] = 0}
MCCutting == {genes \in Genomes(1) : genes.segment = 2 /\ genes.value["overhang"] = 1}
=============================================================================
