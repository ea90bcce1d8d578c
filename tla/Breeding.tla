------------------------------ MODULE Breeding ------------------------------
(***************************************************************************)
(* Breeding at the level of genes: seeds, crossover, mutation and the      *)
(* making of a generation niche by niche (genes.py, and freshIndividual to *)
(* nextGeneration in generator.py).  Campaign sees a layout as its niche   *)
(* and whether it is legal; here it has genes.                             *)
(*                                                                         *)
(* Fitness is left open, so a tournament or an elite may be any member it  *)
(* is drawn from.  A random draw that can fail can fail as often as it is  *)
(* repeated; retries are therefore not counted.                            *)
(***************************************************************************)
EXTENDS Integers, Sequences, FiniteSets

CONSTANTS
    Counts,          \* obstacleCountSchedule: slot -> niche (1 wall, 2 gate)
    Gene,            \* niche -> the names of its mutable genes
    Ends,            \* niche -> gene -> <<lo, hi>>, GENE_RANGES
    SegmentChoices,  \* the segments seeds are drawn on
    Sides,           \* cfg.seedSides
    Unplaceable,     \* genes whose layout overlaps or leaves the area
    Cutting,         \* genes with a wall across another segment
    ElitePerNiche,   \* cfg.elitePerNiche
    ImmigrantShare,  \* cfg.immigrantShare, in tenths
    MaxGenerations   \* bound: how many generations are bred

ASSUME CountsAssumption == Counts \in Seq(Nat) /\ Counts # <<>>
ASSUME EliteAssumption == ElitePerNiche \in Nat
ASSUME ShareAssumption == ImmigrantShare \in 0..10
ASSUME GenerationsAssumption == MaxGenerations \in Nat

Slot == DOMAIN Counts
Niche == {Counts[k] : k \in Slot}

Values(n, g) == Ends[n][g][1]..Ends[n][g][2]

(* Every genome of a niche. *)
Genomes(n) ==
    [niche : {n}, segment : SegmentChoices, side : Sides,
     value : {v \in [Gene[n] -> UNION {Values(n, g) : g \in Gene[n]}] :
                 \A g \in Gene[n] : v[g] \in Values(n, g)}]

Frame(genes) == <<genes.niche, genes.segment, genes.side>>

VARIABLES
    pop,     \* the population, one individual per slot
    next,    \* the children made so far for the generation to come
    gen      \* how many generations have been bred

breedVars == <<pop, next, gen>>

(* How a child came about, and the genes of its parents, are history; a    *)
(* member of the population has its genes and its mark.                    *)
Individual(genes, illegal, origin, parents) ==
    [genes |-> genes, illegal |-> illegal, origin |-> origin, parents |-> parents]

Member(ind) == [genes |-> ind.genes, illegal |-> ind.illegal]

problemOf(genes, strict) == genes \in Unplaceable \/ (strict /\ genes \in Cutting)

(* Everything freshIndividual can return: a draw of the strict pass, one   *)
(* of the second pass if all strict draws can fail, and the last draw,     *)
(* marked illegal, if those can fail as well.                              *)
Fresh(n) ==
    LET Accepted(strict) == {genes \in Genomes(n) : ~problemOf(genes, strict)}
        Fails(strict) == Accepted(strict) # Genomes(n)
    IN  {Individual(genes, FALSE, "seed", {}) : genes \in Accepted(TRUE)}
            \union (IF Fails(TRUE)
                    THEN {Individual(genes, FALSE, "seed", {}) : genes \in Accepted(FALSE)}
                    ELSE {})
            \union {Individual(genes, TRUE, "seed", {}) : genes \in Genomes(n) \ Accepted(FALSE)}

(* One gene moves.  Ten draws that are all clamped to the end the gene is  *)
(* at leave it where it is.                                                *)
mutateGenes(genes) ==
    UNION {{[genes EXCEPT !.value[g] = v] :
               v \in {w \in Values(genes.niche, g) :
                         w # genes.value[g]
                             \/ w \in {Ends[genes.niche][g][1], Ends[genes.niche][g][2]}}} :
           g \in Gene[genes.niche]}

(* Mutant: genes are mixed whatever the parents' frames. *)
crossoverGenesAnyFrame(a, b) ==
    {[a EXCEPT !.value = [g \in Gene[a.niche] |-> IF g \in fromB THEN b.value[g] ELSE a.value[g]]] :
        fromB \in SUBSET Gene[a.niche]}

(* Inside one frame every gene comes from either parent; otherwise one of  *)
(* them is copied.                                                         *)
crossoverGenes(a, b) ==
    IF Frame(a) # Frame(b) THEN {a, b}
    ELSE {[a EXCEPT !.value = [g \in Gene[a.niche] |-> IF g \in fromB THEN b.value[g] ELSE a.value[g]]] :
             fromB \in SUBSET Gene[a.niche]}

(* What tournament draws from. *)
Pool(n) == {pop[k].genes : k \in {j \in Slot : pop[j].genes.niche = n /\ ~pop[j].illegal}}

(* The genomes childOf can come to, with the parents they have. *)
Offspring(n) ==
    UNION {{<<genes, {a, b}>> : genes \in UNION {mutateGenes(c) : c \in crossoverGenes(a, b)}} :
           a, b \in Pool(n)}

(* Everything nicheChild can return: a legal child of two members of the   *)
(* niche, or a seed if there are none or their children can be refused.    *)
Children(n) ==
    LET bred == Offspring(n)
        legal == {o \in bred : ~problemOf(o[1], TRUE)}
    IN  {Individual(o[1], FALSE, "bred", o[2]) : o \in legal}
            \union (IF bred = legal /\ Pool(n) # {} THEN {} ELSE Fresh(n))

-----------------------------------------------------------------------------
(* Slots of the niche of slot k up to slot k. *)
Rank(k) == Cardinality({j \in Slot : j <= k /\ Counts[j] = Counts[k]})
Quota(n) == Cardinality({j \in Slot : Counts[j] = n})
PoolSize(n) == Cardinality({j \in Slot : pop[j].genes.niche = n})

MinOf(S) == CHOOSE m \in S : \A other \in S : m <= other

EliteCount(n) == MinOf({ElitePerNiche, PoolSize(n), IF Quota(n) > 0 THEN Quota(n) - 1 ELSE 0})

(* round(immigrantShare * (quota - eliteCount)); Python rounds half to even. *)
Immigrants(n) ==
    LET tenths == ImmigrantShare * (Quota(n) - EliteCount(n))
        whole  == tenths \div 10
    IN  IF tenths % 10 > 5 \/ (tenths % 10 = 5 /\ whole % 2 = 1) THEN whole + 1 ELSE whole

BreedInit ==
    /\ pop \in {seeds \in [Slot -> {Member(ind) : ind \in UNION {Fresh(n) : n \in Niche}}] :
                   \A k \in Slot : seeds[k].genes.niche = Counts[k]}
    /\ next = <<>>
    /\ gen = 0

(* The next slot of the generation to come. *)
Open == Len(next) + 1

(* An elite is carried over, a member of the old population. *)
CarryElite ==
    /\ gen < MaxGenerations
    /\ Open \in Slot
    /\ LET n == Counts[Open]
       IN  /\ Rank(Open) <= EliteCount(n)
           /\ \E k \in Slot :
                 /\ pop[k].genes.niche = n
                 /\ next' = Append(next, Individual(pop[k].genes, pop[k].illegal, "elite", {}))
    /\ UNCHANGED <<pop, gen>>

Immigrant(k) == Rank(k) > EliteCount(Counts[k]) /\ Rank(k) > Quota(Counts[k]) - Immigrants(Counts[k])

(* An immigrant takes a slot at the end of its niche. *)
AddImmigrant ==
    /\ gen < MaxGenerations
    /\ Open \in Slot /\ Immigrant(Open)
    /\ \E child \in Fresh(Counts[Open]) : next' = Append(next, child)
    /\ UNCHANGED <<pop, gen>>

(* nicheChild fills the slots in between. *)
AddChild ==
    /\ gen < MaxGenerations
    /\ Open \in Slot /\ Rank(Open) > EliteCount(Counts[Open]) /\ ~Immigrant(Open)
    /\ \E child \in Children(Counts[Open]) : next' = Append(next, child)
    /\ UNCHANGED <<pop, gen>>

(* The generation is complete. *)
NextGeneration ==
    /\ Open \notin Slot
    /\ pop' = [k \in Slot |-> Member(next[k])]
    /\ next' = <<>>
    /\ gen' = gen + 1

BreedNext == CarryElite \/ AddImmigrant \/ AddChild \/ NextGeneration

BreedSpec == BreedInit /\ [][BreedNext]_breedVars

-----------------------------------------------------------------------------
(***************************************************************************)
(* Properties.                                                             *)
(***************************************************************************)
Everyone == {pop[k] : k \in Slot} \union {next[k] : k \in DOMAIN next}

(* Types: after any number of mutations every gene is in its range, and    *)
(* every slot holds a layout of its niche.                                 *)
BreedTypeOK ==
    /\ gen \in 0..MaxGenerations
    /\ Len(next) <= Len(Counts)
    /\ \A k \in Slot : pop[k].genes \in Genomes(Counts[k])
    /\ \A k \in DOMAIN next : next[k].genes \in Genomes(Counts[k])
    /\ \A i \in Everyone : i.illegal \in BOOLEAN
    /\ \A k \in DOMAIN next : next[k].origin \in {"seed", "bred", "elite"}

(* A bred layout takes every gene but one from layouts of its own niche,   *)
(* segment and side that were in the population and could be simulated:    *)
(* values found on one segment are never tried on another.                 *)
BredInsideFrame ==
    \A k \in DOMAIN next : next[k].origin = "bred" =>
        \E p, q \in {i.genes : i \in {pop[j] : j \in {h \in Slot : ~pop[h].illegal}}} :
            /\ Frame(p) = Frame(next[k].genes) /\ Frame(q) = Frame(next[k].genes)
            /\ Cardinality({g \in Gene[p.niche] : next[k].genes.value[g] \notin {p.value[g], q.value[g]}}) <= 1

(* Only a seed may cut another segment: its children have to pass the      *)
(* strict test, also when both parents cut one.                            *)
BredCutNothing ==
    \A k \in DOMAIN next :
        next[k].origin = "bred" => next[k].genes \notin Cutting \union Unplaceable

(* What cannot be placed is marked, and nothing else is, whether it was    *)
(* drawn, bred or carried over.                                            *)
IllegalIsUnplaceable == \A i \in Everyone : i.illegal <=> i.genes \in Unplaceable

(* Breeding keeps to its rules in every population: frames are not mixed,  *)
(* children are legal, and only what cannot be placed counts as illegal.   *)
BredByTheRules == BredInsideFrame /\ BredCutNothing /\ IllegalIsUnplaceable

(* childOf: "exactly one gene is moved, so every child differs from both   *)
(* parents by a measurable step".  A clamped step can end on the other     *)
(* parent's value, or on the old one.                                      *)
ChildrenDiffer ==
    \A k \in DOMAIN next : next[k].origin = "bred" => next[k].genes \notin next[k].parents
=============================================================================
