---------------------------- MODULE CodeGenProofs ---------------------------
(***************************************************************************)
(* Proofs about CodeGen for every set of nodes, every size of tree and     *)
(* every number of parameters.                                             *)
(*                                                                         *)
(* The graph, then SSA form, then what the blocks say of the text that was *)
(* walked.  The invariant of the graph has three parts, each an operator   *)
(* on the data it is about, so that its lemmas read like steps of the      *)
(* builder: Graph (what the blocks look like), Owes (which blocks the      *)
(* activations still have to start) and LoopsInv (loops_ against them).    *)
(***************************************************************************)
EXTENDS CodeGen, SequenceLemmas

-----------------------------------------------------------------------------
(* Blocks.                                                                 *)

(* Every block that was started and left ends in its only terminator, the  *)
(* insertion block has none, the others are empty, and every target is a   *)
(* block other than the entry.                                             *)
Ended(is) == is # <<>> /\ \A j \in 1..Len(is) : IsTerminator(is[j]) <=> j = Len(is)
Open(is)  == \A j \in 1..Len(is) : ~IsTerminator(is[j])
Into(i, n) == \A t \in 1..Len(i.to) : i.to[t] \in 2..n
Edges(c)  == \A b \in 1..Len(c) : \A j \in 1..Len(c[b]) : Into(c[b][j], Len(c))

Codes == Seq(Seq(Instrs))

Graph(c, pl, ins) ==
  /\ c \in Codes
  /\ pl \subseteq 1..Len(c) /\ 1 \in pl /\ ins \in pl
  /\ \A b \in pl \ {ins} : Ended(c[b])
  /\ Open(c[ins])
  /\ \A b \in (1..Len(c)) \ pl : c[b] = <<>>
  /\ Edges(c)

(* What Add and Blocks do to a sequence of blocks.                         *)
LEMMA AddFacts ==
  ASSUME NEW c \in Codes, NEW b \in 1..Len(c), NEW i \in Instrs
  PROVE  /\ Add(c, b, i) \in Codes
         /\ Len(Add(c, b, i)) = Len(c)
         /\ Len(c) \in Nat /\ Len(c[b]) \in Nat
         /\ Len(Add(c, b, i)[b]) = Len(c[b]) + 1
         /\ \A j \in 1..Len(c[b]) : Add(c, b, i)[b][j] = c[b][j]
         /\ Add(c, b, i)[b][Len(c[b]) + 1] = i
         /\ \A d \in 1..Len(c) : d # b => Add(c, b, i)[d] = c[d]
  <1> DEFINE e == Append(c[b], i)
  <1>0. c \in Seq(Seq(Instrs)) BY DEF Codes
  <1>1. c[b] \in Seq(Instrs) BY <1>0, ElementOfSeq
  <1>2. /\ e \in Seq(Instrs) /\ Len(e) = Len(c[b]) + 1 /\ e[Len(c[b]) + 1] = i
        /\ \A j \in 1..Len(c[b]) : e[j] = c[b][j]
    BY <1>1, AppendProperties
  <1>3. Add(c, b, i) = [c EXCEPT ![b] = e] BY DEF Add
  <1>4. Len(c[b]) \in Nat BY <1>1, LenProperties
  <1> HIDE DEF e
  <1>5. /\ [c EXCEPT ![b] = e] \in Seq(Seq(Instrs)) /\ Len([c EXCEPT ![b] = e]) = Len(c)
        /\ \A d \in 1..Len(c) : [c EXCEPT ![b] = e][d] = IF d = b THEN e ELSE c[d]
    BY <1>0, <1>2, ExceptSeq
  <1>6. Len(c) \in Nat BY <1>0, LenProperties
  <1> QED BY <1>1, <1>2, <1>3, <1>4, <1>5, <1>6 DEF Codes

LEMMA BlocksFacts ==
  ASSUME NEW c \in Codes, NEW n \in Nat
  PROVE  /\ Blocks(c, n) \in Codes
         /\ Len(c) \in Nat /\ Len(Blocks(c, n)) = Len(c) + n
         /\ \A d \in 1..Len(c) : Blocks(c, n)[d] = c[d]
         /\ \A d \in Len(c) + 1..Len(c) + n : Blocks(c, n)[d] = <<>>
  <1> DEFINE new == [i \in 1..n |-> <<>>]
  <1>1. new \in Seq(Seq(Instrs)) /\ Len(new) = n /\ \A d \in 1..n : new[d] = <<>>
    BY <<>> \in Seq(Instrs)
  <1>0. c \in Seq(Seq(Instrs)) BY DEF Codes
  <1>2. Blocks(c, n) = c \o new BY DEF Blocks
  <1>3. Len(c) \in Nat BY <1>0, LenProperties
  <1> HIDE DEF new
  <1>4. /\ c \o new \in Seq(Seq(Instrs)) /\ Len(c \o new) = Len(c) + Len(new)
        /\ \A d \in 1..Len(c) + Len(new) :
             (c \o new)[d] = IF d <= Len(c) THEN c[d] ELSE new[d - Len(c)]
    BY <1>0, <1>1, ConcatProperties
  <1>5. \A d \in Len(c) + 1..Len(c) + n : (c \o new)[d] = <<>>
    <2> TAKE d \in Len(c) + 1..Len(c) + n
    <2>1. d \in 1..Len(c) + Len(new) /\ ~(d <= Len(c)) /\ d - Len(c) \in 1..n
      BY <1>1, <1>3
    <2> QED BY <2>1, <1>1, <1>4
  <1>6. \A d \in 1..Len(c) : (c \o new)[d] = c[d]
    BY <1>1, <1>3, <1>4
  <1> QED BY <1>1, <1>2, <1>3, <1>4, <1>5, <1>6 DEF Codes

(* New blocks leave the graph as it is.                                    *)
LEMMA GraphCreate ==
  ASSUME NEW c, NEW pl, NEW ins, Graph(c, pl, ins), NEW n \in Nat
  PROVE  Graph(Blocks(c, n), pl, ins)
  <1> DEFINE d == Blocks(c, n)
  <1>1. c \in Codes BY DEF Graph
  <1>2. /\ d \in Codes /\ Len(c) \in Nat /\ Len(d) = Len(c) + n
        /\ \A b \in 1..Len(c) : d[b] = c[b]
        /\ \A b \in Len(c) + 1..Len(c) + n : d[b] = <<>>
    BY <1>1, BlocksFacts
  <1> HIDE DEF d
  <1>3. Edges(d)
    <2> SUFFICES ASSUME NEW b \in 1..Len(d), NEW j \in 1..Len(d[b]) PROVE Into(d[b][j], Len(d))
      BY DEF Edges
    <2>1. b \in 1..Len(c) /\ d[b] = c[b]
      <3>1. CASE b \in 1..Len(c) BY <3>1, <1>2
      <3>2. CASE b \in Len(c) + 1..Len(c) + n
        <4>1. d[b] = <<>> BY <3>2, <1>2
        <4> QED BY <4>1
      <3> QED BY <3>1, <3>2, <1>2
    <2>2. Into(c[b][j], Len(c)) BY <2>1, <1>2 DEF Graph, Edges
    <2>3. 2..Len(c) \subseteq 2..Len(d) BY <1>2
    <2> QED BY <2>1, <2>2, <2>3 DEF Into
  <1>4. pl \subseteq 1..Len(d) /\ 1 \in pl /\ ins \in pl BY <1>2 DEF Graph
  <1>5. \A b \in pl : b \in 1..Len(c) /\ d[b] = c[b] BY <1>2 DEF Graph
  <1>6. ASSUME NEW b \in (1..Len(d)) \ pl PROVE d[b] = <<>>
    <2>1. b \in (1..Len(c)) \ pl \/ b \in Len(c) + 1..Len(c) + n BY <1>2
    <2> QED BY <2>1, <1>2 DEF Graph
  <1>7. d \in Codes BY <1>2
  <1>8. (\A b \in pl \ {ins} : Ended(d[b])) /\ Open(d[ins]) BY <1>4, <1>5 DEF Graph
  <1>9. Graph(d, pl, ins) BY <1>3, <1>4, <1>6, <1>7, <1>8 DEF Graph
  <1> QED BY <1>9 DEF d

(* An instruction with targets inside keeps the edges inside.              *)
LEMMA EdgesAdd ==
  ASSUME NEW c \in Codes, NEW b \in 1..Len(c), NEW i \in Instrs,
         Edges(c), Into(i, Len(c))
  PROVE  Edges(Add(c, b, i))
  <1> DEFINE d == Add(c, b, i)
  <1>1. /\ Len(d) = Len(c) /\ Len(c[b]) \in Nat /\ Len(d[b]) = Len(c[b]) + 1
        /\ \A j \in 1..Len(c[b]) : d[b][j] = c[b][j]
        /\ d[b][Len(c[b]) + 1] = i
        /\ \A e \in 1..Len(c) : e # b => d[e] = c[e]
    BY AddFacts, SMTT(60)
  <1> HIDE DEF d
  <1>2. ASSUME NEW e \in 1..Len(d), NEW j \in 1..Len(d[e]) PROVE Into(d[e][j], Len(d))
    <2>1. CASE e # b BY <2>1, <1>1 DEF Edges
    <2>2. CASE e = b /\ j \in 1..Len(c[b]) BY <2>2, <1>1 DEF Edges
    <2>3. CASE e = b /\ j = Len(c[b]) + 1 BY <2>3, <1>1
    <2> QED BY <2>1, <2>2, <2>3, <1>1
  <1>3. Edges(d) BY <1>2 DEF Edges
  <1> QED BY <1>3 DEF d

(* An instruction that is no terminator keeps the insertion block open.    *)
LEMMA GraphPlain ==
  ASSUME NEW c, NEW pl, NEW ins, Graph(c, pl, ins),
         NEW i \in Instrs, ~IsTerminator(i), i.to = <<>>
  PROVE  Graph(Add(c, ins, i), pl, ins)
  <1> DEFINE d == Add(c, ins, i)
  <1>1. c \in Codes /\ ins \in 1..Len(c) BY DEF Graph
  <1>2. /\ d \in Codes /\ Len(d) = Len(c)
        /\ Len(c[ins]) \in Nat /\ Len(d[ins]) = Len(c[ins]) + 1
        /\ \A j \in 1..Len(c[ins]) : d[ins][j] = c[ins][j]
        /\ d[ins][Len(c[ins]) + 1] = i
        /\ \A e \in 1..Len(c) : e # ins => d[e] = c[e]
    BY <1>1, AddFacts
  <1>3. Into(i, Len(c)) BY DEF Into
  <1>4. Edges(d) BY <1>1, <1>3, EdgesAdd DEF Graph
  <1> HIDE DEF d
  <1>5. Open(d[ins]) BY <1>2 DEF Graph, Open
  <1>6. Graph(d, pl, ins) BY <1>1, <1>2, <1>4, <1>5 DEF Graph
  <1> QED BY <1>6 DEF d

(* A terminator closes the insertion block; another block is started.      *)
LEMMA GraphMove ==
  ASSUME NEW c, NEW pl, NEW ins, Graph(c, pl, ins),
         NEW i \in Instrs, IsTerminator(i), Into(i, Len(c)),
         NEW x \in (1..Len(c)) \ pl
  PROVE  Graph(Add(c, ins, i), pl \cup {x}, x)
  <1> DEFINE d == Add(c, ins, i)
  <1>1. c \in Codes /\ ins \in 1..Len(c) /\ ins # x BY DEF Graph
  <1>2. /\ d \in Codes /\ Len(d) = Len(c)
        /\ Len(c[ins]) \in Nat /\ Len(d[ins]) = Len(c[ins]) + 1
        /\ \A j \in 1..Len(c[ins]) : d[ins][j] = c[ins][j]
        /\ d[ins][Len(c[ins]) + 1] = i
        /\ \A e \in 1..Len(c) : e # ins => d[e] = c[e]
    BY <1>1, AddFacts
  <1>3. Edges(d) BY <1>1, EdgesAdd DEF Graph
  <1> HIDE DEF d
  <1>4. Ended(d[ins])
    <2>1. \A j \in 1..Len(d[ins]) : j \in 1..Len(c[ins]) \/ j = Len(c[ins]) + 1 BY <1>2
    <2>2. d[ins] # <<>> BY <1>2
    <2> QED BY <1>2, <2>1, <2>2 DEF Graph, Open, Ended
  <1>5. d[x] = <<>> BY <1>1, <1>2 DEF Graph
  <1>6. Open(d[x]) BY <1>5 DEF Open
  <1>7. \A b \in (pl \cup {x}) \ {x} : Ended(d[b])
    BY <1>1, <1>2, <1>4 DEF Graph
  <1>8. pl \cup {x} \subseteq 1..Len(d) /\ 1 \in pl \cup {x} BY <1>2 DEF Graph
  <1>9. \A b \in (1..Len(d)) \ (pl \cup {x}) : d[b] = <<>> BY <1>1, <1>2 DEF Graph
  <1>10. Graph(d, pl \cup {x}, x) BY <1>2, <1>3, <1>6, <1>7, <1>8, <1>9 DEF Graph
  <1> QED BY <1>10 DEF d

-----------------------------------------------------------------------------
(* Activations.                                                            *)

Stacks == Seq(Frames)

(* The blocks an activation still has to start.                            *)
Owed(f) == {f.next, f.alt, f.end} \ {0}

FrameOK(f, n) ==
  /\ f \in Frames
  /\ f.next # 0 <=> f.k \in {"ifCond", "whileCond"}
  /\ f.end # 0 <=> f.k \in {"ifCond", "thenEnd", "elseEnd", "whileCond", "bodyEnd", "andRhs", "orRhs"}
  /\ f.alt # 0 => f.k \in {"ifCond", "thenEnd"} /\ f.alt # f.end /\ f.alt # f.next
  /\ f.end # 0 => f.end # f.next
  /\ f.k \in {"whileCond", "bodyEnd"} => f.back \in 2..n
  /\ Owed(f) \subseteq 2..n

(* Of n blocks, those not in pl are owed by exactly one activation or are  *)
(* in D, which the running step has yet to place or to hand to one.        *)
Owes(st, n, pl, D) ==
  /\ st \in Stacks /\ n \in Nat
  /\ \A i \in 1..Len(st) : FrameOK(st[i], n) /\ Owed(st[i]) \cap (pl \cup D) = {}
  /\ \A i, j \in 1..Len(st) : i # j => Owed(st[i]) \cap Owed(st[j]) = {}
  /\ D \subseteq (2..n) \ pl
  /\ \A b \in (1..n) \ pl : b \in D \/ \E i \in 1..Len(st) : b \in Owed(st[i])

LEMMA StackFacts ==
  ASSUME NEW st \in Stacks
  PROVE  /\ Len(st) \in Nat
         /\ \A i \in 1..Len(st) : st[i] \in Frames
         /\ st # <<>> =>
              /\ Len(st) # 0
              /\ SubSeq(st, 1, Len(st) - 1) \in Stacks
              /\ Len(SubSeq(st, 1, Len(st) - 1)) = Len(st) - 1
              /\ \A i \in 1..Len(st) - 1 : SubSeq(st, 1, Len(st) - 1)[i] = st[i]
         /\ \A f \in Frames :
              /\ Append(st, f) \in Stacks
              /\ Len(Append(st, f)) = Len(st) + 1
              /\ \A i \in 1..Len(st) : Append(st, f)[i] = st[i]
              /\ Append(st, f)[Len(st) + 1] = f
  <1>1. st \in Seq(Frames) BY DEF Stacks
  <1>2. Len(st) \in Nat BY <1>1, LenProperties
  <1>3. \A i \in 1..Len(st) : st[i] \in Frames BY <1>1, ElementOfSeq
  <1>4. st # <<>> =>
          /\ Len(st) \in Nat \ {0}
          /\ SubSeq(st, 1, Len(st) - 1) \in Seq(Frames)
          /\ Len(SubSeq(st, 1, Len(st) - 1)) = Len(st) - 1
          /\ \A i \in 1..Len(st) - 1 : SubSeq(st, 1, Len(st) - 1)[i] = st[i]
    BY <1>1, FrontFacts
  <1>5. \A f \in Frames :
          /\ Append(st, f) \in Seq(Frames)
          /\ Len(Append(st, f)) = Len(st) + 1
          /\ \A i \in 1..Len(st) : Append(st, f)[i] = st[i]
          /\ Append(st, f)[Len(st) + 1] = f
    BY <1>1, AppendProperties
  <1> QED BY <1>2, <1>3, <1>4, <1>5 DEF Stacks

(* The step takes over what the innermost activation owes.                 *)
LEMMA OwesPop ==
  ASSUME NEW st, NEW n, NEW pl, Owes(st, n, pl, {}), st # <<>>
  PROVE  Owes(SubSeq(st, 1, Len(st) - 1), n, pl, Owed(st[Len(st)]))
  <1> DEFINE s == SubSeq(st, 1, Len(st) - 1)
             D == Owed(st[Len(st)])
  <1>1. st \in Stacks /\ n \in Nat BY DEF Owes
  <1>2. /\ Len(st) \in Nat /\ Len(st) # 0 /\ s \in Stacks /\ Len(s) = Len(st) - 1
        /\ \A i \in 1..Len(st) - 1 : s[i] = st[i]
    BY <1>1, StackFacts
  <1>3. Len(st) \in 1..Len(st) BY <1>2
  <1>4. D \subseteq 2..n /\ D \cap pl = {} BY <1>3 DEF Owes, FrameOK
  <1> HIDE DEF s
  <1>5. \A i \in 1..Len(s) : i \in 1..Len(st) /\ i # Len(st) /\ s[i] = st[i] BY <1>2
  <1>6. \A i \in 1..Len(s) : FrameOK(s[i], n) /\ Owed(s[i]) \cap (pl \cup D) = {}
    BY <1>3, <1>5 DEF Owes
  <1>7. \A i, j \in 1..Len(s) : i # j => Owed(s[i]) \cap Owed(s[j]) = {}
    BY <1>5 DEF Owes
  <1>8. ASSUME NEW b \in (1..n) \ pl PROVE b \in D \/ \E i \in 1..Len(s) : b \in Owed(s[i])
    <2>1. PICK i \in 1..Len(st) : b \in Owed(st[i]) BY DEF Owes
    <2>2. CASE i = Len(st) BY <2>1, <2>2
    <2>3. CASE i # Len(st)
      <3>1. i \in 1..Len(s) BY <2>3, <1>2
      <3> QED BY <3>1, <2>1, <1>5
    <2> QED BY <2>2, <2>3
  <1> HIDE DEF D
  <1>9. Owes(s, n, pl, D) BY <1>1, <1>2, <1>4, <1>6, <1>7, <1>8 DEF Owes
  <1> QED BY <1>9 DEF s, D

(* It takes over the blocks it creates.                                    *)
LEMMA OwesCreate ==
  ASSUME NEW st, NEW n, NEW pl, NEW D, Owes(st, n, pl, D),
         n # 0, pl \subseteq 1..n, NEW k \in Nat
  PROVE  Owes(st, n + k, pl, D \cup (n + 1..n + k))
  <1> DEFINE E == D \cup (n + 1..n + k)
  <1>1. st \in Stacks /\ n \in Nat /\ n + k \in Nat /\ 2..n \subseteq 2..n + k BY DEF Owes
  <1>2. \A i \in 1..Len(st) : FrameOK(st[i], n + k) /\ Owed(st[i]) \cap (pl \cup E) = {}
    <2> TAKE i \in 1..Len(st)
    <2>1. FrameOK(st[i], n) /\ Owed(st[i]) \cap (pl \cup D) = {} BY DEF Owes
    <2>2. FrameOK(st[i], n + k) BY <2>1, <1>1 DEF FrameOK
    <2>3. Owed(st[i]) \subseteq 2..n BY <2>1 DEF FrameOK
    <2>4. (2..n) \cap (n + 1..n + k) = {} BY <1>1
    <2> QED BY <2>1, <2>2, <2>3, <2>4
  <1>3. E \subseteq (2..n + k) \ pl
    <2>1. D \subseteq (2..n) \ pl BY DEF Owes
    <2>2. n + 1..n + k \subseteq 2..n + k BY <1>1
    <2>3. (n + 1..n + k) \cap (1..n) = {} BY <1>1
    <2> QED BY <2>1, <2>2, <2>3, <1>1
  <1>4. ASSUME NEW b \in (1..n + k) \ pl PROVE b \in E \/ \E i \in 1..Len(st) : b \in Owed(st[i])
    <2>1. b \in 1..n \/ b \in n + 1..n + k BY <1>1
    <2> QED BY <2>1 DEF Owes
  <1>5. \A i, j \in 1..Len(st) : i # j => Owed(st[i]) \cap Owed(st[j]) = {} BY DEF Owes
  <1> HIDE DEF E
  <1>6. Owes(st, n + k, pl, E) BY <1>1, <1>2, <1>3, <1>4, <1>5 DEF Owes
  <1> QED BY <1>6 DEF E

(* It places a block.                                                      *)
LEMMA OwesPlace ==
  ASSUME NEW st, NEW n, NEW pl, NEW D, Owes(st, n, pl, D), NEW x \in D
  PROVE  Owes(st, n, pl \cup {x}, D \ {x})
  BY ZenonT(60) DEF Owes

(* It leaves blocks to an activation.                                      *)
LEMMA OwesPush ==
  ASSUME NEW st, NEW n, NEW pl, NEW D, Owes(st, n, pl, D),
         NEW f, FrameOK(f, n), Owed(f) \subseteq D
  PROVE  Owes(Append(st, f), n, pl, D \ Owed(f))
  <1> DEFINE s == Append(st, f)
             E == D \ Owed(f)
  <1>1. st \in Stacks /\ n \in Nat /\ f \in Frames BY DEF Owes, FrameOK
  <1>2. /\ Len(st) \in Nat /\ s \in Stacks /\ Len(s) = Len(st) + 1
        /\ \A i \in 1..Len(st) : s[i] = st[i]
        /\ s[Len(st) + 1] = f
    BY <1>1, StackFacts
  <1>3. \A i \in 1..Len(s) : i \in 1..Len(st) \/ i = Len(st) + 1 BY <1>2
  <1>4. \A i \in 1..Len(st) : i \in 1..Len(s) /\ i # Len(st) + 1 BY <1>2
  <1>5. Len(st) + 1 \in 1..Len(s) BY <1>2
  <1>6. D \subseteq (2..n) \ pl BY DEF Owes
  <1> HIDE DEF s
  <1>7. \A i \in 1..Len(s) : FrameOK(s[i], n) /\ Owed(s[i]) \cap (pl \cup E) = {}
    <2> TAKE i \in 1..Len(s)
    <2>1. CASE i \in 1..Len(st) BY <2>1, <1>2 DEF Owes
    <2>2. CASE i = Len(st) + 1 BY <2>2, <1>2, <1>6
    <2> QED BY <2>1, <2>2, <1>3
  <1>8. ASSUME NEW i \in 1..Len(s), NEW j \in 1..Len(s), i # j
        PROVE Owed(s[i]) \cap Owed(s[j]) = {}
    <2>1. \A m \in 1..Len(st) : Owed(st[m]) \cap D = {} BY DEF Owes
    <2>2. CASE i \in 1..Len(st) /\ j \in 1..Len(st) BY <2>2, <1>2, <1>8 DEF Owes
    <2>3. CASE i \in 1..Len(st) /\ j = Len(st) + 1 BY <2>3, <2>1, <1>2
    <2>4. CASE i = Len(st) + 1 /\ j \in 1..Len(st) BY <2>4, <2>1, <1>2
    <2> QED BY <2>2, <2>3, <2>4, <1>3, <1>8
  <1>9. ASSUME NEW b \in (1..n) \ pl PROVE b \in E \/ \E i \in 1..Len(s) : b \in Owed(s[i])
    <2>1. CASE b \in D BY <2>1, <1>2, <1>5
    <2>2. CASE b \notin D BY <2>2, <1>2, <1>4 DEF Owes
    <2> QED BY <2>1, <2>2
  <1>10. E \subseteq (2..n) \ pl BY <1>6
  <1> HIDE DEF E
  <1>11. Owes(s, n, pl, E) BY <1>1, <1>2, <1>7, <1>8, <1>9, <1>10 DEF Owes
  <1> QED BY <1>11 DEF s, E

(* The activations that only wait for a value or a statement owe nothing.  *)
Quiet == FrameKinds \ {"ifCond", "thenEnd", "elseEnd", "whileCond", "bodyEnd", "andRhs", "orRhs"}

LEMMA WaitingFacts ==
  ASSUME NEW k \in Quiet,
         NEW v \in Nat, NEW n \in Nat
  PROVE  /\ FrameOK(Waiting(k), n) /\ Owed(Waiting(k)) = {} /\ Waiting(k).k = k
         /\ FrameOK([Waiting(k) EXCEPT !.saved = v], n)
         /\ Owed([Waiting(k) EXCEPT !.saved = v]) = {}
         /\ [Waiting(k) EXCEPT !.saved = v].k = k
  BY DEF Quiet, Waiting, Frame, FrameOK, Owed, Frames

-----------------------------------------------------------------------------
(* loops_.                                                                 *)

Loops == Seq([continueTo: Nat, breakTo: Nat])

BodiesOf(st) == {i \in 1..Len(st) : st[i].k = "bodyEnd"}
NestingIn(st, i) == Cardinality({j \in BodiesOf(st) : j <= i})
LoopOf(f) == [continueTo |-> f.back, breakTo |-> f.end]

LoopsInv(st, ls, n) ==
  /\ ls \in Loops
  /\ Len(ls) = Cardinality(BodiesOf(st))
  /\ \A i \in BodiesOf(st) : ls[NestingIn(st, i)] = LoopOf(st[i])
  /\ \A m \in 1..Len(ls) : ls[m].continueTo \in 2..n /\ ls[m].breakTo \in 2..n

LEMMA BodiesFinite ==
  ASSUME NEW st \in Stacks
  PROVE  /\ IsFiniteSet(BodiesOf(st)) /\ Cardinality(BodiesOf(st)) \in Nat
         /\ \A i \in Nat : /\ IsFiniteSet({j \in BodiesOf(st) : j <= i})
                           /\ NestingIn(st, i) \in Nat
                           /\ NestingIn(st, i) <= Cardinality(BodiesOf(st))
         /\ \A i \in BodiesOf(st) : i \in Nat /\ NestingIn(st, i) \in 1..Cardinality(BodiesOf(st))
  <1>1. Len(st) \in Nat BY StackFacts
  <1>2. IsFiniteSet(1..Len(st)) BY <1>1, FS_Interval
  <1>3. IsFiniteSet(BodiesOf(st)) BY <1>2, FS_Subset DEF BodiesOf
  <1>4. Cardinality(BodiesOf(st)) \in Nat BY <1>3, FS_CardinalityType
  <1>5. ASSUME NEW i \in Nat
        PROVE /\ IsFiniteSet({j \in BodiesOf(st) : j <= i})
              /\ NestingIn(st, i) \in Nat
              /\ NestingIn(st, i) <= Cardinality(BodiesOf(st))
    <2>1. {j \in BodiesOf(st) : j <= i} \in SUBSET BodiesOf(st) OBVIOUS
    <2> QED BY <2>1, <1>3, FS_Subset, FS_CardinalityType DEF NestingIn
  <1>6. ASSUME NEW i \in BodiesOf(st)
        PROVE  i \in Nat /\ NestingIn(st, i) \in 1..Cardinality(BodiesOf(st))
    <2>1. i \in Nat BY <1>1 DEF BodiesOf
    <2>2. {j \in BodiesOf(st) : j <= i} # {} BY <2>1
    <2>3. NestingIn(st, i) # 0 BY <2>1, <2>2, <1>5, FS_EmptySet DEF NestingIn
    <2>4. NestingIn(st, i) \in Nat /\ NestingIn(st, i) <= Cardinality(BodiesOf(st))
      BY <2>1, <1>5
    <2> HIDE DEF NestingIn
    <2> QED BY <2>1, <2>3, <2>4, <1>4
  <1> QED BY <1>3, <1>4, <1>5, <1>6

(* Activations that are no loop bodies come and go without a trace.        *)
LEMMA LoopsPush ==
  ASSUME NEW st \in Stacks, NEW ls, NEW n, LoopsInv(st, ls, n),
         NEW f \in Frames, f.k # "bodyEnd"
  PROVE  LoopsInv(Append(st, f), ls, n)
  <1> DEFINE s == Append(st, f)
  <1>1. /\ Len(st) \in Nat /\ Len(s) = Len(st) + 1
        /\ \A i \in 1..Len(st) : s[i] = st[i]
        /\ s[Len(st) + 1] = f
    BY StackFacts
  <1> HIDE DEF s
  <1>2. BodiesOf(s) = BodiesOf(st)
    <2>1. \A i \in 1..Len(s) : i \in 1..Len(st) \/ i = Len(st) + 1 BY <1>1
    <2>2. \A i \in 1..Len(st) : i \in 1..Len(s) BY <1>1
    <2> QED BY <1>1, <2>1, <2>2 DEF BodiesOf
  <1>3. \A i \in BodiesOf(s) : s[i] = st[i] BY <1>1, <1>2 DEF BodiesOf
  <1>4. LoopsInv(s, ls, n) BY <1>2, <1>3 DEF LoopsInv, NestingIn
  <1> QED BY <1>4 DEF s

LEMMA LoopsPop ==
  ASSUME NEW st \in Stacks, NEW ls, NEW n, LoopsInv(st, ls, n),
         st # <<>>, st[Len(st)].k # "bodyEnd"
  PROVE  LoopsInv(SubSeq(st, 1, Len(st) - 1), ls, n)
  <1> DEFINE s == SubSeq(st, 1, Len(st) - 1)
  <1>1. /\ Len(st) \in Nat /\ Len(st) # 0 /\ Len(s) = Len(st) - 1
        /\ \A i \in 1..Len(st) - 1 : s[i] = st[i]
    BY StackFacts
  <1> HIDE DEF s
  <1>2. BodiesOf(s) = BodiesOf(st)
    <2>1. \A i \in 1..Len(st) : i \in 1..Len(s) \/ i = Len(st) BY <1>1
    <2>2. \A i \in 1..Len(s) : i \in 1..Len(st) /\ s[i] = st[i] BY <1>1
    <2> QED BY <2>1, <2>2 DEF BodiesOf
  <1>3. \A i \in BodiesOf(s) : s[i] = st[i] BY <1>1 DEF BodiesOf
  <1>4. LoopsInv(s, ls, n) BY <1>2, <1>3 DEF LoopsInv, NestingIn
  <1> QED BY <1>4 DEF s

(* Entering a body pushes its loop, leaving it pops the loop.              *)
LEMMA LoopsEnter ==
  ASSUME NEW st \in Stacks, NEW ls, NEW n \in Nat, LoopsInv(st, ls, n),
         NEW f \in Frames, f.k = "bodyEnd", f.back \in 2..n, f.end \in 2..n
  PROVE  LoopsInv(Append(st, f), Append(ls, LoopOf(f)), n)
  <1> DEFINE s == Append(st, f)
             m == Append(ls, LoopOf(f))
             N == Len(st)
  <1>1. /\ N \in Nat /\ s \in Stacks /\ Len(s) = N + 1
        /\ \A i \in 1..N : s[i] = st[i]
        /\ s[N + 1] = f
    BY StackFacts
  <1>2. ls \in Loops BY DEF LoopsInv
  <1>3. LoopOf(f) \in [continueTo: Nat, breakTo: Nat] BY DEF LoopOf
  <1>4. /\ m \in Loops /\ Len(m) = Len(ls) + 1 /\ Len(ls) \in Nat
        /\ \A i \in 1..Len(ls) : m[i] = ls[i]
        /\ m[Len(ls) + 1] = LoopOf(f)
    BY <1>2, <1>3, AppendProperties, LenProperties DEF Loops
  <1> HIDE DEF s, m
  <1>5. BodiesOf(s) = BodiesOf(st) \cup {N + 1}
    <2>1. \A i \in 1..Len(s) : i \in 1..N \/ i = N + 1 BY <1>1
    <2>2. \A i \in 1..N : i \in 1..Len(s) BY <1>1
    <2>3. N + 1 \in 1..Len(s) BY <1>1
    <2> QED BY <1>1, <2>1, <2>2, <2>3 DEF BodiesOf
  <1>6. N + 1 \notin BodiesOf(st) /\ \A j \in BodiesOf(st) : j \in 1..N BY <1>1 DEF BodiesOf
  <1>7. Cardinality(BodiesOf(s)) = Cardinality(BodiesOf(st)) + 1
    BY <1>5, <1>6, BodiesFinite, FS_AddElement
  <1>8. ASSUME NEW i \in BodiesOf(s) PROVE m[NestingIn(s, i)] = LoopOf(s[i])
    <2>1. CASE i = N + 1
      <3>0. \A j \in BodiesOf(s) : j <= i
        <4>1. \A j \in 1..N : j <= N + 1 BY <1>1
        <4>2. N + 1 <= N + 1 BY <1>1
        <4> QED BY <4>1, <4>2, <2>1, <1>5, <1>6
      <3>1. {j \in BodiesOf(s) : j <= i} = BodiesOf(s) BY <3>0
      <3>2. NestingIn(s, i) = Len(ls) + 1 BY <3>1, <1>7 DEF NestingIn, LoopsInv
      <3> QED BY <3>2, <2>1, <1>1, <1>4
    <2>2. CASE i \in BodiesOf(st)
      <3>1. {j \in BodiesOf(s) : j <= i} = {j \in BodiesOf(st) : j <= i}
        BY <2>2, <1>1, <1>5, <1>6
      <3>2. NestingIn(s, i) = NestingIn(st, i) BY <3>1 DEF NestingIn
      <3>3. NestingIn(st, i) \in 1..Len(ls) BY <2>2, BodiesFinite DEF LoopsInv
      <3>4. s[i] = st[i] BY <2>2, <1>1, <1>6
      <3> QED BY <3>2, <3>3, <3>4, <2>2, <1>4 DEF LoopsInv
    <2> QED BY <2>1, <2>2, <1>5
  <1>9. ASSUME NEW i \in 1..Len(m) PROVE m[i].continueTo \in 2..n /\ m[i].breakTo \in 2..n
    <2>1. CASE i \in 1..Len(ls) BY <2>1, <1>4 DEF LoopsInv
    <2>2. CASE i = Len(ls) + 1 BY <2>2, <1>4 DEF LoopOf
    <2> QED BY <2>1, <2>2, <1>4
  <1>10. LoopsInv(s, m, n) BY <1>4, <1>7, <1>8, <1>9 DEF LoopsInv
  <1> QED BY <1>10 DEF s, m

LEMMA LoopsLeave ==
  ASSUME NEW st \in Stacks, NEW ls, NEW n, LoopsInv(st, ls, n),
         st # <<>>, st[Len(st)].k = "bodyEnd"
  PROVE  LoopsInv(SubSeq(st, 1, Len(st) - 1), SubSeq(ls, 1, Len(ls) - 1), n)
  <1> DEFINE s == SubSeq(st, 1, Len(st) - 1)
             m == SubSeq(ls, 1, Len(ls) - 1)
             N == Len(st)
  <1>1. /\ N \in Nat /\ N # 0 /\ s \in Stacks /\ Len(s) = N - 1
        /\ \A i \in 1..N - 1 : s[i] = st[i]
    BY StackFacts
  <1>2. N \in BodiesOf(st) BY <1>1 DEF BodiesOf
  <1>3. Len(ls) \in Nat /\ Len(ls) # 0 BY <1>2, BodiesFinite, FS_EmptySet DEF LoopsInv
  <1>4. ls \in Loops /\ ls # <<>> BY <1>3 DEF LoopsInv
  <1>5. m \in Loops /\ Len(m) = Len(ls) - 1 /\ \A i \in 1..Len(ls) - 1 : m[i] = ls[i]
    BY <1>4, FrontFacts DEF Loops
  <1> HIDE DEF s, m
  <1>6. BodiesOf(s) = BodiesOf(st) \ {N}
    <2>1. \A i \in 1..Len(s) : i \in 1..N /\ i # N BY <1>1
    <2>2. \A i \in 1..N : i # N => i \in 1..Len(s) BY <1>1
    <2> QED BY <1>1, <2>1, <2>2 DEF BodiesOf
  <1>7. \A j \in BodiesOf(st) : j \in 1..N BY DEF BodiesOf
  <1>8. Cardinality(BodiesOf(s)) = Len(m)
    BY <1>2, <1>5, <1>6, BodiesFinite, FS_RemoveElement DEF LoopsInv
  <1>9. ASSUME NEW i \in BodiesOf(s) PROVE m[NestingIn(s, i)] = LoopOf(s[i])
    <2>1. i \in 1..N - 1 /\ i \in BodiesOf(st) BY <1>1, <1>6, <1>7
    <2>2. {j \in BodiesOf(s) : j <= i} = {j \in BodiesOf(st) : j <= i}
      BY <2>1, <1>1, <1>6, <1>7
    <2>3. NestingIn(s, i) = NestingIn(st, i) BY <2>2 DEF NestingIn
    <2>4. NestingIn(s, i) \in 1..Len(m) BY <1>1, <1>8, <1>9, BodiesFinite
    <2>5. m[NestingIn(s, i)] = ls[NestingIn(st, i)] BY <2>3, <2>4, <1>5
    <2> QED BY <2>1, <2>5, <1>1 DEF LoopsInv
  <1>10. \A i \in 1..Len(m) : i \in 1..Len(ls) /\ m[i] = ls[i] BY <1>3, <1>5
  <1>11. LoopsInv(s, m, n) BY <1>5, <1>8, <1>9, <1>10 DEF LoopsInv
  <1> QED BY <1>11 DEF s, m

LEMMA LoopsGrow ==
  ASSUME NEW st, NEW ls, NEW n \in Nat, LoopsInv(st, ls, n), NEW k \in Nat
  PROVE  LoopsInv(st, ls, n + k)
  <1>1. 2..n \subseteq 2..n + k OBVIOUS
  <1> QED BY <1>1 DEF LoopsInv

-----------------------------------------------------------------------------
(* The builder in the middle of a step: the blocks of D are in its hands.  *)

Builder(st, c, pl, ins, ls, D) ==
  Graph(c, pl, ins) /\ Owes(st, Len(c), pl, D) /\ LoopsInv(st, ls, Len(c))

LEMMA BuilderFacts ==
  ASSUME NEW st, NEW c, NEW pl, NEW ins, NEW ls, NEW D, Builder(st, c, pl, ins, ls, D)
  PROVE  /\ c \in Codes /\ Len(c) \in Nat /\ Len(c) # 0
         /\ pl \subseteq 1..Len(c) /\ ins \in 1..Len(c) /\ ins \in Nat
         /\ st \in Stacks /\ ls \in Loops
         /\ \A x \in D : x \in 2..Len(c) /\ x \in (1..Len(c)) \ pl
         /\ 2..Len(c) \subseteq Nat
  <1>1. Len(c) \in Nat /\ D \subseteq (2..Len(c)) \ pl /\ st \in Stacks BY DEF Builder, Owes
  <1>2. c \in Codes /\ pl \subseteq 1..Len(c) /\ ins \in pl /\ 1 \in 1..Len(c) BY DEF Builder, Graph
  <1>3. 2..Len(c) \subseteq 1..Len(c) BY <1>1
  <1> QED BY <1>1, <1>2, <1>3 DEF Builder, LoopsInv

LEMMA BuilderCreate ==
  ASSUME NEW st, NEW c, NEW pl, NEW ins, NEW ls, Builder(st, c, pl, ins, ls, {}), NEW k \in Nat
  PROVE  /\ Builder(st, Blocks(c, k), pl, ins, ls, Len(c) + 1..Len(c) + k)
         /\ Len(Blocks(c, k)) = Len(c) + k
  <1>1. c \in Codes /\ Len(c) \in Nat /\ Len(c) # 0 /\ pl \subseteq 1..Len(c) BY BuilderFacts
  <1>2. Len(Blocks(c, k)) = Len(c) + k BY <1>1, BlocksFacts
  <1>3. Graph(Blocks(c, k), pl, ins) BY GraphCreate DEF Builder
  <1>4. Owes(st, Len(c) + k, pl, {} \cup (Len(c) + 1..Len(c) + k))
    BY <1>1, OwesCreate DEF Builder
  <1>5. LoopsInv(st, ls, Len(c) + k) BY <1>1, LoopsGrow DEF Builder
  <1> QED BY <1>2, <1>3, <1>4, <1>5 DEF Builder

LEMMA BuilderPlain ==
  ASSUME NEW st, NEW c, NEW pl, NEW ins, NEW ls, NEW D, Builder(st, c, pl, ins, ls, D),
         NEW i \in Instrs, ~IsTerminator(i), i.to = <<>>
  PROVE  /\ Builder(st, Add(c, ins, i), pl, ins, ls, D)
         /\ Len(Add(c, ins, i)) = Len(c)
  <1>0. c \in Codes /\ ins \in 1..Len(c) BY BuilderFacts
  <1>1. Len(Add(c, ins, i)) = Len(c) BY <1>0, AddFacts, ZenonT(60)
  <1>2. Graph(Add(c, ins, i), pl, ins) BY GraphPlain DEF Builder
  <1> QED BY <1>1, <1>2 DEF Builder

LEMMA BuilderMove ==
  ASSUME NEW st, NEW c, NEW pl, NEW ins, NEW ls, NEW D, Builder(st, c, pl, ins, ls, D),
         NEW i \in Instrs, IsTerminator(i), Into(i, Len(c)), NEW x \in D
  PROVE  /\ Builder(st, Add(c, ins, i), pl \cup {x}, x, ls, D \ {x})
         /\ Len(Add(c, ins, i)) = Len(c)
  <1>0. c \in Codes /\ ins \in 1..Len(c) /\ x \in (1..Len(c)) \ pl BY BuilderFacts
  <1>1. Len(Add(c, ins, i)) = Len(c) /\ x \in (1..Len(c)) \ pl BY <1>0, AddFacts, SMTT(60)
  <1>2. Graph(Add(c, ins, i), pl \cup {x}, x) BY <1>1, GraphMove DEF Builder
  <1>3. Owes(st, Len(c), pl \cup {x}, D \ {x}) BY OwesPlace DEF Builder
  <1> QED BY <1>1, <1>2, <1>3 DEF Builder

LEMMA BuilderPop ==
  ASSUME NEW st, NEW c, NEW pl, NEW ins, NEW ls, Builder(st, c, pl, ins, ls, {}),
         st # <<>>, st[Len(st)].k # "bodyEnd"
  PROVE  /\ Builder(SubSeq(st, 1, Len(st) - 1), c, pl, ins, ls, Owed(st[Len(st)]))
         /\ FrameOK(st[Len(st)], Len(c))
  <1>1. st \in Stacks BY BuilderFacts
  <1>2. Len(st) \in 1..Len(st) BY <1>1, StackFacts
  <1> QED BY <1>1, <1>2, OwesPop, LoopsPop, ZenonT(60) DEF Builder, Owes

LEMMA BuilderLeave ==
  ASSUME NEW st, NEW c, NEW pl, NEW ins, NEW ls, Builder(st, c, pl, ins, ls, {}),
         st # <<>>, st[Len(st)].k = "bodyEnd"
  PROVE  /\ Builder(SubSeq(st, 1, Len(st) - 1), c, pl, ins, SubSeq(ls, 1, Len(ls) - 1),
                    Owed(st[Len(st)]))
         /\ FrameOK(st[Len(st)], Len(c))
  <1>1. st \in Stacks BY BuilderFacts
  <1>2. Len(st) \in 1..Len(st) BY <1>1, StackFacts
  <1> QED BY <1>1, <1>2, OwesPop, LoopsLeave, ZenonT(60) DEF Builder, Owes

LEMMA BuilderPush ==
  ASSUME NEW st, NEW c, NEW pl, NEW ins, NEW ls, NEW D, Builder(st, c, pl, ins, ls, D),
         NEW f, FrameOK(f, Len(c)), Owed(f) \subseteq D, f.k # "bodyEnd"
  PROVE  Builder(Append(st, f), c, pl, ins, ls, D \ Owed(f))
  <1>1. st \in Stacks /\ f \in Frames BY BuilderFacts DEF FrameOK
  <1> QED BY <1>1, OwesPush, LoopsPush DEF Builder

LEMMA BuilderEnter ==
  ASSUME NEW st, NEW c, NEW pl, NEW ins, NEW ls, NEW D, Builder(st, c, pl, ins, ls, D),
         NEW f, FrameOK(f, Len(c)), Owed(f) \subseteq D, f.k = "bodyEnd"
  PROVE  Builder(Append(st, f), c, pl, ins, Append(ls, LoopOf(f)), D \ Owed(f))
  <1>1. st \in Stacks /\ f \in Frames /\ Len(c) \in Nat BY BuilderFacts DEF FrameOK
  <1>2. f.back \in 2..Len(c) /\ f.end \in 2..Len(c) BY DEF FrameOK, Owed
  <1> QED BY <1>1, <1>2, OwesPush, LoopsEnter DEF Builder

(* An activation that waits for a value or a statement owes nothing.       *)
LEMMA BuilderWait ==
  ASSUME NEW st, NEW c, NEW pl, NEW ins, NEW ls, Builder(st, c, pl, ins, ls, {}),
         NEW k \in Quiet,
         NEW v \in Nat
  PROVE  /\ Builder(Append(st, Waiting(k)), c, pl, ins, ls, {})
         /\ Builder(Append(st, [Waiting(k) EXCEPT !.saved = v]), c, pl, ins, ls, {})
  <1>1. Len(c) \in Nat BY BuilderFacts
  <1>2. k # "bodyEnd" BY DEF Quiet
  <1>3. /\ FrameOK(Waiting(k), Len(c)) /\ Owed(Waiting(k)) = {} /\ Waiting(k).k = k
        /\ FrameOK([Waiting(k) EXCEPT !.saved = v], Len(c))
        /\ Owed([Waiting(k) EXCEPT !.saved = v]) = {}
        /\ [Waiting(k) EXCEPT !.saved = v].k = k
    BY <1>1, WaitingFacts
  <1>4. Builder(Append(st, Waiting(k)), c, pl, ins, ls, {} \ Owed(Waiting(k)))
    BY <1>2, <1>3, BuilderPush
  <1>5. Builder(Append(st, [Waiting(k) EXCEPT !.saved = v]), c, pl, ins, ls,
                {} \ Owed([Waiting(k) EXCEPT !.saved = v]))
    BY <1>2, <1>3, BuilderPush
  <1> QED BY <1>3, <1>4, <1>5

(* The instructions the builder emits.                                     *)
LEMMA EvalFacts ==
  ASSUME NEW v \in Nat, NEW use \in SUBSET Nat
  PROVE  Eval(v, use) \in Instrs /\ ~IsTerminator(Eval(v, use)) /\ Eval(v, use).to = <<>>
  BY DEF Eval, Instr, Instrs, Ops, Terminators, IsTerminator

LEMMA StoreFacts ==
  ASSUME NEW v \in Nat, NEW w \in Nat, NEW n \in Nat
  PROVE  Store(v, w, n) \in Instrs /\ ~IsTerminator(Store(v, w, n)) /\ Store(v, w, n).to = <<>>
  BY DEF Store, Instr, Instrs, Ops, Terminators, IsTerminator

LEMMA BrFacts ==
  ASSUME NEW k, NEW b \in 2..k, b \in Nat
  PROVE  Br(b) \in Instrs /\ IsTerminator(Br(b)) /\ Into(Br(b), k)
  <1>1. Br(b) \in Instrs /\ IsTerminator(Br(b))
    BY DEF Br, Instr, Instrs, Ops, Terminators, IsTerminator
  <1>2. Br(b).to = <<b>> BY DEF Br, Instr
  <1>3. Len(<<b>>) = 1 /\ <<b>>[1] = b /\ \A t \in 1..1 : t = 1 OBVIOUS
  <1> QED BY <1>1, <1>2, <1>3 DEF Into

LEMMA CondBrFacts ==
  ASSUME NEW k, NEW v \in Nat, NEW b \in 2..k, NEW c \in 2..k, NEW n \in Nat,
         b \in Nat, c \in Nat
  PROVE  /\ CondBr(v, b, c, n) \in Instrs /\ IsTerminator(CondBr(v, b, c, n))
         /\ Into(CondBr(v, b, c, n), k)
  <1>1. CondBr(v, b, c, n) \in Instrs /\ IsTerminator(CondBr(v, b, c, n))
    BY DEF CondBr, Instr, Instrs, Ops, Terminators, IsTerminator
  <1>2. CondBr(v, b, c, n).to = <<b, c>> BY DEF CondBr, Instr
  <1>3. Len(<<b, c>>) = 2 /\ <<b, c>>[1] = b /\ <<b, c>>[2] = c /\ \A t \in 1..2 : t = 1 \/ t = 2
    OBVIOUS
  <1> QED BY <1>1, <1>2, <1>3 DEF Into

LEMMA RetFacts ==
  ASSUME NEW use \in SUBSET Nat, NEW n \in Nat, NEW k
  PROVE  Ret(use, n) \in Instrs /\ IsTerminator(Ret(use, n)) /\ Into(Ret(use, n), k)
  BY DEF Ret, Instr, Instrs, Ops, Terminators, IsTerminator, Into

LEMMA PhiFacts ==
  ASSUME NEW v \in Nat, NEW in \in SUBSET [from: Nat, v: Nat, const: BOOLEAN]
  PROVE  Phi(v, in) \in Instrs /\ ~IsTerminator(Phi(v, in)) /\ Phi(v, in).to = <<>>
  BY DEF Phi, Instr, Instrs, Ops, Terminators, IsTerminator

-----------------------------------------------------------------------------
(* The inductive invariant.                                                *)

Rest ==
  /\ value \in Nat
  /\ src \in Seq(Kinds)
  /\ slots \subseteq 1..Len(src)
  /\ scopes \in Seq(SUBSET Nat)

Finished(c, pl, ins) ==
  /\ c \in Codes
  /\ pl = 1..Len(c) /\ ins \in pl
  /\ \A b \in 1..Len(c) : Ended(c[b])
  /\ Edges(c)

Building == Builder(stack, code, placed, insert, loops, {})

IInv ==
  /\ Rest
  /\ \/ /\ phase = "idle"
        /\ code = <<>> /\ placed = {} /\ insert = 0 /\ slots = {} /\ stack = <<>> /\ loops = <<>>
     \/ phase = "emit" /\ Building
     \/ phase = "done" /\ stack = <<>> /\ loops = <<>> /\ Finished(code, placed, insert)

LEMMA StackPush ==
  ASSUME NEW st \in Stacks, NEW f \in Frames, NEW g \in Frames
  PROVE  /\ st \o <<>> = st
         /\ st \o <<f>> = Append(st, f)
         /\ st \o <<f, g>> = Append(Append(st, f), g)
  <1>1. st \in Seq(Frames) BY DEF Stacks
  <1> QED BY <1>1, PushFacts

LEMMA NodeFacts ==
  ASSUME Rest
  PROVE  Node \in Nat /\ Len(src) \in Nat
  BY LenProperties DEF Rest, Node

(* A substatement is done when its statement starts, and owes nothing.     *)
LEMMA BeginBase ==
  ASSUME Building, AtStmt
  PROVE  Builder(IF Top.k = "body" THEN stack ELSE Popped, code, placed, insert, loops, {})
  <1>1. CASE Top.k = "body" BY <1>1 DEF Building
  <1>2. CASE Top.k = "stmt"
    <2>1. /\ Builder(Popped, code, placed, insert, loops, Owed(Top))
          /\ FrameOK(Top, Len(code))
      BY <1>2, BuilderPop DEF Building, AtStmt, Walking, Top, Popped
    <2>2. Owed(Top) = {} BY <2>1, <1>2 DEF FrameOK, Owed
    <2> QED BY <2>1, <2>2, <1>2
  <1> QED BY <1>1, <1>2 DEF AtStmt, StmtFrames

(* The frame on top that waits for a value or a statement, popped.         *)
LEMMA PopBase ==
  ASSUME Building, Walking, Top.k # "bodyEnd"
  PROVE  /\ Builder(Popped, code, placed, insert, loops, Owed(Top))
         /\ FrameOK(Top, Len(code)) /\ Popped \in Stacks /\ Top \in Frames
         /\ Top.k \notin {"ifCond", "thenEnd", "elseEnd", "whileCond", "andRhs", "orRhs"}
              => Owed(Top) = {}
  <1>1. /\ Builder(Popped, code, placed, insert, loops, Owed(Top))
        /\ FrameOK(Top, Len(code))
    BY BuilderPop DEF Building, Walking, Top, Popped
  <1>2. Popped \in Stacks BY <1>1, BuilderFacts
  <1> QED BY <1>1, <1>2 DEF FrameOK, Owed

(* The insertion block is open, so branchTo always branches.               *)
LEMMA BranchToFacts ==
  ASSUME Building, NEW b \in Nat
  PROVE  BranchTo(code, b) = Add(code, insert, Br(b))
  <1>1. ~IsTerminated(code[insert])
    <2>1. Open(code[insert]) /\ code \in Codes /\ insert \in 1..Len(code)
      BY BuilderFacts DEF Building, Builder, Graph
    <2>2. code[insert] \in Seq(Instrs) BY <2>1, ElementOfSeq DEF Codes
    <2>3. code[insert] # <<>> => Len(code[insert]) \in 1..Len(code[insert])
      BY <2>2, EmptySeq
    <2> QED BY <2>1, <2>3 DEF Open, IsTerminated
  <1> QED BY <1>1 DEF BranchTo

(* Pushing the frames of a step, the innermost waiting for a subtree.      *)
LEMMA PushWaiting ==
  ASSUME NEW st, NEW c, NEW pl, NEW ins, NEW ls, Builder(st, c, pl, ins, ls, {}),
         NEW f \in Quiet, NEW g \in Quiet, NEW v \in Nat
  PROVE  /\ Builder(st \o <<>>, c, pl, ins, ls, {})
         /\ Builder(st \o <<Waiting(f)>>, c, pl, ins, ls, {})
         /\ Builder(st \o <<Waiting(f), Waiting(g)>>, c, pl, ins, ls, {})
         /\ Builder(st \o <<[Waiting(f) EXCEPT !.saved = v], Waiting(g)>>, c, pl, ins, ls, {})
  <1> DEFINE x == Waiting(f)
             y == Waiting(g)
             z == [Waiting(f) EXCEPT !.saved = v]
  <1>1. x \in Frames /\ y \in Frames /\ z \in Frames BY WaitingFacts, 0 \in Nat DEF FrameOK
  <1>2. st \in Stacks BY BuilderFacts
  <1>3. Builder(Append(st, x), c, pl, ins, ls, {}) /\ Builder(Append(st, z), c, pl, ins, ls, {})
    BY BuilderWait
  <1>4. /\ Builder(Append(Append(st, x), y), c, pl, ins, ls, {})
        /\ Builder(Append(Append(st, z), y), c, pl, ins, ls, {})
    BY <1>3, 0 \in Nat, BuilderWait
  <1> HIDE DEF x, y, z
  <1>5. /\ st \o <<>> = st /\ st \o <<x>> = Append(st, x)
        /\ st \o <<x, y>> = Append(Append(st, x), y)
        /\ st \o <<z, y>> = Append(Append(st, z), y)
    BY <1>1, <1>2, StackPush
  <1>6. /\ Builder(st \o <<>>, c, pl, ins, ls, {})
        /\ Builder(st \o <<x>>, c, pl, ins, ls, {})
        /\ Builder(st \o <<x, y>>, c, pl, ins, ls, {})
        /\ Builder(st \o <<z, y>>, c, pl, ins, ls, {})
    BY <1>3, <1>4, <1>5
  <1> QED BY <1>6 DEF x, y, z

LEMMA PushOwing ==
  ASSUME NEW st, NEW c, NEW pl, NEW ins, NEW ls, NEW f, NEW D,
         Builder(st, c, pl, ins, ls, D), FrameOK(f, Len(c)), Owed(f) = D, f.k # "bodyEnd",
         NEW g \in Quiet
  PROVE  Builder(st \o <<f, Waiting(g)>>, c, pl, ins, ls, {})
  <1> DEFINE y == Waiting(g)
  <1>1. f \in Frames /\ y \in Frames BY WaitingFacts, 0 \in Nat DEF FrameOK
  <1>2. st \in Stacks BY BuilderFacts
  <1>3. Builder(Append(st, f), c, pl, ins, ls, D \ Owed(f)) BY BuilderPush
  <1>4. D \ Owed(f) = {} OBVIOUS
  <1>5. Builder(Append(Append(st, f), y), c, pl, ins, ls, {})
    BY <1>3, <1>4, 0 \in Nat, BuilderWait
  <1> HIDE DEF y
  <1>6. Builder(st \o <<f, y>>, c, pl, ins, ls, {}) BY <1>1, <1>2, <1>5, StackPush
  <1> QED BY <1>6 DEF y

LEMMA PushLoop ==
  ASSUME NEW st, NEW c, NEW pl, NEW ins, NEW ls, NEW f, NEW D,
         Builder(st, c, pl, ins, ls, D), FrameOK(f, Len(c)), Owed(f) = D, f.k = "bodyEnd",
         NEW g \in Quiet
  PROVE  Builder(st \o <<f, Waiting(g)>>, c, pl, ins, Append(ls, LoopOf(f)), {})
  <1> DEFINE y == Waiting(g)
             m == Append(ls, LoopOf(f))
  <1>1. f \in Frames /\ y \in Frames BY WaitingFacts, 0 \in Nat DEF FrameOK
  <1>2. st \in Stacks BY BuilderFacts
  <1>3. Builder(Append(st, f), c, pl, ins, m, D \ Owed(f)) BY BuilderEnter
  <1>4. D \ Owed(f) = {} OBVIOUS
  <1> HIDE DEF m
  <1>5. Builder(Append(Append(st, f), y), c, pl, ins, m, {})
    BY <1>3, <1>4, 0 \in Nat, BuilderWait
  <1> HIDE DEF y
  <1>6. Builder(st \o <<f, y>>, c, pl, ins, m, {}) BY <1>1, <1>2, <1>5, StackPush
  <1> QED BY <1>6 DEF y, m

(* Ending the insertion block and going on in a dead one.                  *)
LEMMA EndAndStartDeadFacts ==
  ASSUME NEW st, Builder(st, code, placed, insert, loops, {}),
         NEW i \in Instrs, IsTerminator(i), Into(i, Len(code)), EndAndStartDead(i)
  PROVE  Builder(st, code', placed', insert', loops, {})
  <1> DEFINE n == Len(code) + 1
             c == Blocks(code, 1)
  <1>1. Len(code) \in Nat BY BuilderFacts
  <1>2. Builder(st, c, placed, insert, loops, Len(code) + 1..Len(code) + 1) /\ Len(c) = Len(code) + 1
    BY BuilderCreate, 1 \in Nat
  <1>3. Len(code) + 1..Len(code) + 1 = {n} BY <1>1
  <1>4. Into(i, Len(c))
    <2>1. 2..Len(code) \subseteq 2..Len(c) BY <1>1, <1>2
    <2> QED BY <2>1 DEF Into
  <1>5. code' = Add(c, insert, i) /\ placed' = placed \cup {n} /\ insert' = n
    BY DEF EndAndStartDead, StartBlock, NBlocks
  <1> HIDE DEF c, n
  <1>6. Builder(st, Add(c, insert, i), placed \cup {n}, n, loops, {n} \ {n})
    BY <1>2, <1>3, <1>4, BuilderMove
  <1>7. {n} \ {n} = {} OBVIOUS
  <1> QED BY <1>5, <1>6, <1>7

-----------------------------------------------------------------------------
(* Each action takes the builder from one good state to the next.          *)

LEMMA EmitFunctionStep ==
  ASSUME IInv, NEW params \in Nat, EmitFunction(params)
  PROVE  Building'
  <1> DEFINE entry == [p \in 1..params |-> Store(p, p, p)]
             body == Waiting("body")
  <1>1. phase = "idle" /\ loops = <<>> BY DEF IInv, EmitFunction
  <1>2. /\ code' = <<entry>> /\ placed' = {1} /\ insert' = 1
        /\ stack' = <<body>> /\ loops' = <<>>
    BY <1>1 DEF EmitFunction
  <1>3. \A p \in 1..params : Store(p, p, p) \in Instrs /\ ~IsTerminator(Store(p, p, p))
                             /\ Store(p, p, p).to = <<>>
    BY StoreFacts
  <1>4. /\ entry \in Seq(Instrs) /\ Len(entry) = params
        /\ \A p \in 1..params : entry[p] = Store(p, p, p)
    BY <1>3
  <1> HIDE DEF entry
  <1>5. <<entry>> \in Codes /\ Len(<<entry>>) = 1 /\ <<entry>>[1] = entry
    BY <1>4 DEF Codes
  <1>6. Graph(<<entry>>, {1}, 1)
    <2>1. Open(entry) BY <1>3, <1>4 DEF Open
    <2>2. \A j \in 1..Len(entry) : Into(entry[j], 1) BY <1>3, <1>4 DEF Into
    <2>3. Edges(<<entry>>) BY <1>5, <2>2 DEF Edges
    <2> QED BY <1>5, <2>1, <2>3 DEF Graph
  <1>7. FrameOK(body, 1) /\ Owed(body) = {} /\ body.k = "body"
    BY WaitingFacts, 0 \in Nat, 1 \in Nat DEF Quiet, FrameKinds
  <1> HIDE DEF body
  <1>8. <<body>> \in Stacks /\ Len(<<body>>) = 1 /\ <<body>>[1] = body
    BY <1>7 DEF Stacks, FrameOK
  <1>9. Owes(<<body>>, 1, {1}, {})
    BY <1>7, <1>8 DEF Owes
  <1>10. LoopsInv(<<body>>, <<>>, 1)
    <2>1. BodiesOf(<<body>>) = {} BY <1>7, <1>8 DEF BodiesOf
    <2>2. <<>> \in Loops /\ Len(<<>>) = 0 BY DEF Loops
    <2>3. Cardinality({}) = 0 BY FS_EmptySet
    <2>4. \A m \in 1..Len(<<>>) : FALSE BY <2>2
    <2> QED BY <2>1, <2>2, <2>3, <2>4 DEF LoopsInv
  <1> QED BY <1>2, <1>5, <1>6, <1>9, <1>10 DEF Building, Builder

LEMMA FinishFunctionStep ==
  ASSUME IInv, FinishFunction
  PROVE  stack' = <<>> /\ loops' = <<>> /\ Finished(code', placed', insert')
  <1>1. /\ phase = "emit" /\ Building /\ stack # <<>> /\ Len(stack) = 1 /\ Top.k = "body"
        /\ stack' = <<>> /\ loops' = loops /\ placed' = placed /\ insert' = insert
    BY DEF IInv, FinishFunction, At, Walking
  <1>2. Builder(Popped, code, placed, insert, loops, {})
    BY <1>1, PopBase DEF Walking
  <1>3. Len(Popped) = 0
    BY <1>1, BuilderFacts, StackFacts DEF Popped, Building
  <1>4. loops = <<>>
    <2>1. BodiesOf(Popped) = {} BY <1>3 DEF BodiesOf
    <2>2. loops \in Loops /\ Len(loops) = 0
      BY <1>2, <2>1, FS_EmptySet DEF Builder, LoopsInv
    <2> QED BY <2>2, EmptySeq DEF Loops
  <1>5. /\ code \in Codes /\ Len(code) \in Nat /\ placed = 1..Len(code) /\ insert \in placed
    <2>1. /\ code \in Codes /\ Len(code) \in Nat /\ placed \subseteq 1..Len(code)
          /\ insert \in placed /\ Owes(Popped, Len(code), placed, {})
      BY <1>2, BuilderFacts DEF Builder, Graph
    <2>2. \A j \in 1..Len(Popped) : FALSE BY <1>3
    <2>3. \A b \in (1..Len(code)) \ placed : FALSE BY <2>1, <2>2 DEF Owes
    <2> QED BY <2>1, <2>3
  <1>6. Node \in Nat BY NodeFacts DEF IInv
  <1> DEFINE i == Ret({}, Node)
  <1>7. i \in Instrs /\ IsTerminator(i) /\ Into(i, Len(code))
    BY <1>6, RetFacts, {} \in SUBSET Nat
  <1>8. ~IsTerminated(code[insert])
    <2>1. Open(code[insert]) /\ code[insert] \in Seq(Instrs)
      BY <1>2, <1>5, ElementOfSeq DEF Builder, Graph, Codes
    <2>2. code[insert] # <<>> => Len(code[insert]) \in 1..Len(code[insert])
      BY <2>1, EmptySeq
    <2> QED BY <2>1, <2>2 DEF Open, IsTerminated
  <1>9. code' = Add(code, insert, i) BY <1>8 DEF FinishFunction
  <1> HIDE DEF i
  <1> DEFINE d == Add(code, insert, i)
  <1>10. /\ d \in Codes /\ Len(d) = Len(code)
         /\ Len(code[insert]) \in Nat /\ Len(d[insert]) = Len(code[insert]) + 1
         /\ \A j \in 1..Len(code[insert]) : d[insert][j] = code[insert][j]
         /\ d[insert][Len(code[insert]) + 1] = i
         /\ \A e \in 1..Len(code) : e # insert => d[e] = code[e]
    <2>1. code \in Codes /\ insert \in 1..Len(code) /\ i \in Instrs BY <1>5, <1>7
    <2> QED BY <2>1, AddFacts, ZenonT(60)
  <1>11. Edges(d) BY <1>2, <1>5, <1>7, EdgesAdd DEF Builder, Graph
  <1> HIDE DEF d
  <1>12. Ended(d[insert])
    <2>1. \A j \in 1..Len(d[insert]) : j \in 1..Len(code[insert]) \/ j = Len(code[insert]) + 1
      BY <1>10
    <2>2. d[insert] # <<>> BY <1>10
    <2> QED BY <1>2, <1>7, <1>10, <2>1, <2>2 DEF Builder, Graph, Open, Ended
  <1>13. \A b \in 1..Len(d) : Ended(d[b])
    BY <1>2, <1>5, <1>10, <1>12 DEF Builder, Graph
  <1>14. Finished(d, placed, insert) BY <1>5, <1>10, <1>11, <1>13 DEF Finished
  <1> QED BY <1>1, <1>4, <1>9, <1>14 DEF d

(* Statements and expressions that only push or pop.                       *)
LEMMA BeginStep ==
  ASSUME Building, AtStmt, NEW fs, UNCHANGED <<ir, loops>>, Begin(fs),
         \/ fs = <<>>
         \/ \E k \in Quiet : fs = <<Waiting(k)>>
         \/ \E f, g \in Quiet : fs = <<Waiting(f), Waiting(g)>>
         \/ \E f, g \in Quiet, v \in Nat :
              fs = <<[Waiting(f) EXCEPT !.saved = v], Waiting(g)>>
  PROVE  Building'
  <1> DEFINE st == IF Top.k = "body" THEN stack ELSE Popped
  <1>1. Builder(st, code, placed, insert, loops, {}) BY BeginBase
  <1>2. stack' = st \o fs BY DEF Begin
  <1> HIDE DEF st
  <1>3. Builder(st \o fs, code, placed, insert, loops, {})
    <2>0. "expr" \in Quiet BY DEF Quiet, FrameKinds
    <2>1. CASE fs = <<>> BY <2>0, <2>1, <1>1, PushWaiting, 0 \in Nat
    <2>2. CASE \E k \in Quiet : fs = <<Waiting(k)>>
      <3>1. PICK k \in Quiet : fs = <<Waiting(k)>> BY <2>2
      <3> QED BY <3>1, <1>1, PushWaiting, 0 \in Nat
    <2>3. CASE \E f, g \in Quiet : fs = <<Waiting(f), Waiting(g)>>
      <3>1. PICK f, g \in Quiet : fs = <<Waiting(f), Waiting(g)>> BY <2>3
      <3> QED BY <3>1, <1>1, PushWaiting, 0 \in Nat
    <2>4. CASE \E f, g \in Quiet, v \in Nat :
                 fs = <<[Waiting(f) EXCEPT !.saved = v], Waiting(g)>>
      <3>1. PICK f, g \in Quiet, v \in Nat :
              fs = <<[Waiting(f) EXCEPT !.saved = v], Waiting(g)>>
        BY <2>4
      <3> QED BY <3>1, <1>1, PushWaiting
    <2> QED BY <2>1, <2>2, <2>3, <2>4
  <1> QED BY <1>2, <1>3 DEF ir, Building

LEMMA ReplaceStep ==
  ASSUME Building, Walking, Top.k \in Quiet, NEW fs, UNCHANGED <<ir, loops>>, Replace(fs),
         \/ fs = <<>>
         \/ \E f, g \in Quiet : fs = <<Waiting(f), Waiting(g)>>
         \/ \E f, g \in Quiet, v \in Nat :
              fs = <<[Waiting(f) EXCEPT !.saved = v], Waiting(g)>>
  PROVE  Building'
  <1>1. Builder(Popped, code, placed, insert, loops, {})
    <2>1. Top.k # "bodyEnd" BY DEF Quiet
    <2>2. Builder(Popped, code, placed, insert, loops, Owed(Top)) BY <2>1, PopBase
    <2>3. Owed(Top) = {} BY <2>1, PopBase DEF Quiet
    <2> QED BY <2>2, <2>3
  <1>2. stack' = Popped \o fs BY DEF Replace
  <1>3. Builder(Popped \o fs, code, placed, insert, loops, {})
    <2>0. "expr" \in Quiet BY DEF Quiet, FrameKinds
    <2>1. CASE fs = <<>> BY <2>0, <2>1, <1>1, PushWaiting, 0 \in Nat
    <2>2. CASE \E f, g \in Quiet : fs = <<Waiting(f), Waiting(g)>>
      <3>1. PICK f, g \in Quiet : fs = <<Waiting(f), Waiting(g)>> BY <2>2
      <3> QED BY <3>1, <1>1, PushWaiting, 0 \in Nat
    <2>3. CASE \E f, g \in Quiet, v \in Nat :
                 fs = <<[Waiting(f) EXCEPT !.saved = v], Waiting(g)>>
      <3>1. PICK f, g \in Quiet, v \in Nat :
              fs = <<[Waiting(f) EXCEPT !.saved = v], Waiting(g)>>
        BY <2>3
      <3> QED BY <3>1, <1>1, PushWaiting
    <2> QED BY <2>1, <2>2, <2>3
  <1> QED BY <1>2, <1>3 DEF ir, Building

LEMMA QuietKinds ==
  /\ {"body", "stmt", "expr", "drop", "init", "return", "op", "opRhs", "and", "or"} \subseteq Quiet
  /\ Quiet \subseteq FrameKinds
  BY DEF Quiet, FrameKinds

LEMMA QuietSteps ==
  ASSUME Building, Rest,
         \/ NullStmt \/ ExprStmt \/ Drop \/ (\E hasInit \in BOOLEAN : DeclStmt(hasInit))
         \/ CompoundStmt \/ CompoundEnd \/ ReturnStmt
         \/ Operands \/ OperatorLhs \/ (\E k \in {"and", "or"} : Logical(k))
  PROVE  Building'
  <1>1. CASE NullStmt BY <1>1, BeginStep DEF NullStmt
  <1>2. CASE ExprStmt
    <2>1. Begin(<<Waiting("drop"), Waiting("expr")>>) /\ UNCHANGED <<ir, loops>> /\ AtStmt
      BY <1>2 DEF ExprStmt
    <2> QED BY <2>1, BeginStep, QuietKinds
  <1>3. CASE Drop
    <2>1. Replace(<<>>) /\ UNCHANGED <<ir, loops>> /\ Walking /\ Top.k \in Quiet
      BY <1>3, QuietKinds DEF Drop, At
    <2> QED BY <2>1, ReplaceStep
  <1>4. CASE \E hasInit \in BOOLEAN : DeclStmt(hasInit)
    <2>1. PICK hasInit \in BOOLEAN : DeclStmt(hasInit) BY <1>4
    <2>2. AtStmt /\ code' = code /\ placed' = placed /\ insert' = insert /\ loops' = loops
      BY <2>1 DEF DeclStmt
    <2> DEFINE st == IF Top.k = "body" THEN stack ELSE Popped
    <2>3. Builder(st, code, placed, insert, loops, {}) BY <2>2, BeginBase
    <2>4. Node \in Nat BY NodeFacts
    <2>5. stack' = st \o IF hasInit THEN <<[Waiting("init") EXCEPT !.saved = Node], Waiting("expr")>>
                                    ELSE <<>>
      BY <2>1 DEF DeclStmt, Begin
    <2> HIDE DEF st
    <2>6. /\ Builder(st \o <<>>, code, placed, insert, loops, {})
          /\ Builder(st \o <<[Waiting("init") EXCEPT !.saved = Node], Waiting("expr")>>,
                     code, placed, insert, loops, {})
      BY <2>3, <2>4, PushWaiting, QuietKinds
    <2>7. Builder(stack', code, placed, insert, loops, {}) BY <2>5, <2>6
    <2> QED BY <2>2, <2>7 DEF Building
  <1>5. CASE CompoundStmt
    <2>1. Begin(<<Waiting("body")>>) /\ UNCHANGED <<ir, loops>> /\ AtStmt
      BY <1>5 DEF CompoundStmt
    <2> QED BY <2>1, BeginStep, QuietKinds
  <1>6. CASE CompoundEnd
    <2>1. Replace(<<>>) /\ UNCHANGED <<ir, loops>> /\ Walking /\ Top.k \in Quiet
      BY <1>6, QuietKinds DEF CompoundEnd, At
    <2> QED BY <2>1, ReplaceStep
  <1>7. CASE ReturnStmt
    <2>1. Begin(<<Waiting("return"), Waiting("expr")>>) /\ UNCHANGED <<ir, loops>> /\ AtStmt
      BY <1>7 DEF ReturnStmt
    <2> QED BY <2>1, BeginStep, QuietKinds
  <1>8. CASE Operands
    <2>1. /\ Replace(<<Waiting("op"), Waiting("expr")>>)
          /\ UNCHANGED <<ir, loops>> /\ Walking /\ Top.k \in Quiet
      BY <1>8, QuietKinds DEF Operands, At
    <2> QED BY <2>1, ReplaceStep, QuietKinds
  <1>9. CASE OperatorLhs
    <2>1. /\ Replace(<<[Waiting("opRhs") EXCEPT !.saved = value], Waiting("expr")>>)
          /\ UNCHANGED <<ir, loops>> /\ Walking /\ Top.k \in Quiet /\ value \in Nat
      BY <1>9, QuietKinds DEF OperatorLhs, At, Rest
    <2> QED BY <2>1, ReplaceStep, QuietKinds
  <1>10. CASE \E k \in {"and", "or"} : Logical(k)
    <2>1. PICK k \in {"and", "or"} : Logical(k) BY <1>10
    <2>2. /\ Replace(<<Waiting(k), Waiting("expr")>>)
          /\ UNCHANGED <<ir, loops>> /\ Walking /\ Top.k \in Quiet /\ k \in Quiet
      BY <2>1, QuietKinds DEF Logical, At
    <2> QED BY <2>2, ReplaceStep, QuietKinds
  <1> QED BY <1>1, <1>2, <1>3, <1>4, <1>5, <1>6, <1>7, <1>8, <1>9, <1>10

(* Steps that emit an instruction into the open block.                     *)
LEMMA EmitStep ==
  ASSUME Building, Walking, Top.k \in Quiet, Replace(<<>>),
         NEW i \in Instrs, ~IsTerminator(i), i.to = <<>>,
         code' = Add(code, insert, i), UNCHANGED <<placed, insert, loops>>
  PROVE  Building'
  <1>1. Builder(Popped, code, placed, insert, loops, {})
    <2>1. Top.k # "bodyEnd" BY DEF Quiet
    <2>2. Builder(Popped, code, placed, insert, loops, Owed(Top)) BY <2>1, PopBase
    <2>3. Owed(Top) = {} BY <2>1, PopBase DEF Quiet
    <2> QED BY <2>2, <2>3
  <1>2. Builder(Popped, Add(code, insert, i), placed, insert, loops, {}) BY <1>1, BuilderPlain
  <1>3. stack' = Popped
    <2>1. Popped \in Seq(Frames) BY <1>1, BuilderFacts DEF Stacks
    <2> QED BY <2>1, ConcatEmptySeq DEF Replace
  <1> QED BY <1>2, <1>3 DEF Building

LEMMA TopFacts ==
  ASSUME Building, Walking
  PROVE  Top \in Frames /\ FrameOK(Top, Len(code)) /\ Len(code) \in Nat
  <1>1. stack \in Stacks /\ Len(stack) \in 1..Len(stack)
    BY BuilderFacts, StackFacts DEF Building, Walking
  <1>2. FrameOK(Top, Len(code)) BY <1>1 DEF Building, Builder, Owes, Top
  <1> QED BY <1>2, BuilderFacts DEF Building, FrameOK

LEMMA EmitSteps ==
  ASSUME Building, Rest,
         \/ LocalInit \/ Operator \/ (\E slot \in Visible \cup {0} : Leaf(slot))
  PROVE  Building'
  <1>0. Node \in Nat /\ value \in Nat BY NodeFacts DEF Rest
  <1>1. CASE LocalInit
    <2>1. /\ Walking /\ Top.k \in Quiet /\ Replace(<<>>)
          /\ code' = Add(code, insert, Store(value, Top.saved, Node))
          /\ UNCHANGED <<placed, insert, loops>>
      BY <1>1, QuietKinds DEF LocalInit, At
    <2>2. Top.saved \in Nat BY <2>1, TopFacts DEF Frames
    <2> QED BY <1>0, <2>1, <2>2, StoreFacts, EmitStep
  <1>2. CASE Operator
    <2>1. /\ Walking /\ Top.k \in Quiet /\ Replace(<<>>)
          /\ code' = Add(code, insert, Eval(Node, {Top.saved, value}))
          /\ UNCHANGED <<placed, insert, loops>>
      BY <1>2, QuietKinds DEF Operator, At
    <2>2. Top.saved \in Nat BY <2>1, TopFacts DEF Frames
    <2>3. {Top.saved, value} \in SUBSET Nat BY <1>0, <2>2
    <2> QED BY <1>0, <2>1, <2>3, EvalFacts, EmitStep
  <1>3. CASE \E slot \in Visible \cup {0} : Leaf(slot)
    <2>1. PICK slot \in Visible \cup {0} : Leaf(slot) BY <1>3
    <2>2. /\ Walking /\ Top.k \in Quiet /\ Replace(<<>>)
          /\ code' = Add(code, insert, Eval(Node, {slot} \ {0}))
          /\ UNCHANGED <<placed, insert, loops>>
      BY <2>1, QuietKinds DEF Leaf, At
    <2>3. Visible \subseteq Nat BY ElementOfSeq DEF Visible, Rest
    <2>4. {slot} \ {0} \in SUBSET Nat BY <2>3
    <2> QED BY <1>0, <2>2, <2>4, EvalFacts, EmitStep
  <1> QED BY <1>1, <1>2, <1>3

(* Steps that end the open block and go on in a dead one.                  *)
LEMMA InnermostLoop ==
  ASSUME Building, LoopDepth > 0
  PROVE  /\ loops[Len(loops)].breakTo \in 2..Len(code)
         /\ loops[Len(loops)].continueTo \in 2..Len(code)
  <1>1. Bodies = BodiesOf(stack) BY DEF Bodies, BodiesOf
  <1>2. stack \in Stacks BY BuilderFacts DEF Building
  <1>3. Len(loops) \in Nat /\ Len(loops) > 0
    BY <1>1, <1>2, BodiesFinite DEF Building, Builder, LoopsInv, LoopDepth
  <1>4. Len(loops) \in 1..Len(loops) BY <1>3
  <1> QED BY <1>4 DEF Building, Builder, LoopsInv

LEMMA DeadStep ==
  ASSUME Building, AtStmt, Begin(<<>>), UNCHANGED loops,
         NEW i \in Instrs, IsTerminator(i), Into(i, Len(code)), EndAndStartDead(i)
  PROVE  Building'
  <1> DEFINE st == IF Top.k = "body" THEN stack ELSE Popped
  <1>1. Builder(st, code, placed, insert, loops, {}) BY BeginBase
  <1>2. stack' = st \o <<>> BY DEF Begin
  <1> HIDE DEF st
  <1>3. stack' = st
    <2>1. st \in Seq(Frames) BY <1>1, BuilderFacts DEF Stacks
    <2> QED BY <1>2, <2>1, ConcatEmptySeq
  <1>4. Builder(st, code', placed', insert', loops, {}) BY <1>1, EndAndStartDeadFacts
  <1> QED BY <1>3, <1>4 DEF Building

LEMMA DeadSteps ==
  ASSUME Building, Rest, BreakStmt \/ ContinueStmt \/ ReturnVoid
         \/ \E isVoid \in BOOLEAN : ReturnValue(isVoid)
  PROVE  Building'
  <1>0. Node \in Nat /\ value \in Nat /\ Len(code) \in Nat
    BY NodeFacts, BuilderFacts DEF Rest, Building
  <1>1. CASE BreakStmt
    <2> DEFINE b == loops[Len(loops)].breakTo
    <2>1. AtStmt /\ LoopDepth > 0 /\ Begin(<<>>) /\ EndAndStartDead(Br(b)) /\ loops' = loops
      BY <1>1 DEF BreakStmt
    <2>2. b \in 2..Len(code) BY <2>1, InnermostLoop
    <2>3. b \in Nat BY <2>2, <1>0
    <2> HIDE DEF b
    <2>4. Br(b) \in Instrs /\ IsTerminator(Br(b)) /\ Into(Br(b), Len(code))
      BY <2>2, <2>3, BrFacts
    <2> QED BY <2>1, <2>4, DeadStep
  <1>2. CASE ContinueStmt
    <2> DEFINE b == loops[Len(loops)].continueTo
    <2>1. AtStmt /\ LoopDepth > 0 /\ Begin(<<>>) /\ EndAndStartDead(Br(b)) /\ loops' = loops
      BY <1>2 DEF ContinueStmt
    <2>2. b \in 2..Len(code) BY <2>1, InnermostLoop
    <2>3. b \in Nat BY <2>2, <1>0
    <2> HIDE DEF b
    <2>4. Br(b) \in Instrs /\ IsTerminator(Br(b)) /\ Into(Br(b), Len(code))
      BY <2>2, <2>3, BrFacts
    <2> QED BY <2>1, <2>4, DeadStep
  <1>3. CASE ReturnVoid
    <2>1. AtStmt /\ Begin(<<>>) /\ EndAndStartDead(Ret({}, Node)) /\ loops' = loops
      BY <1>3 DEF ReturnVoid
    <2>2. {} \in SUBSET Nat OBVIOUS
    <2> QED BY <1>0, <2>1, <2>2, RetFacts, DeadStep
  <1>4. CASE \E isVoid \in BOOLEAN : ReturnValue(isVoid)
    <2>0. PICK isVoid \in BOOLEAN : ReturnValue(isVoid) BY <1>4
    <2> DEFINE use == IF isVoid THEN {} ELSE {value}
    <2>1. /\ Walking /\ Top.k \in Quiet /\ Replace(<<>>)
          /\ EndAndStartDead(Ret(use, Node)) /\ loops' = loops
      BY <2>0, QuietKinds DEF ReturnValue, At
    <2>2. Builder(Popped, code, placed, insert, loops, {})
      <3>1. Top.k # "bodyEnd" BY <2>1 DEF Quiet
      <3>2. Builder(Popped, code, placed, insert, loops, Owed(Top)) BY <2>1, <3>1, PopBase
      <3>3. Owed(Top) = {} BY <2>1, <3>1, PopBase DEF Quiet
      <3> QED BY <3>2, <3>3
    <2>3. use \in SUBSET Nat BY <1>0
    <2> HIDE DEF use
    <2>4. stack' = Popped
      <3>1. Popped \in Seq(Frames) BY <2>2, BuilderFacts DEF Stacks
      <3> QED BY <2>1, <3>1, ConcatEmptySeq DEF Replace
    <2>5. Builder(Popped, code', placed', insert', loops, {})
      BY <1>0, <2>1, <2>2, <2>3, RetFacts, EndAndStartDeadFacts
    <2> QED BY <2>1, <2>4, <2>5 DEF Building
  <1> QED BY <1>1, <1>2, <1>3, <1>4

(* The statements and operators that open blocks.                          *)

LEMMA FrameFacts ==
  ASSUME NEW n \in Nat, NEW k \in FrameKinds, NEW next \in Nat, NEW alt \in Nat,
         NEW end \in Nat, NEW back \in Nat,
         next # 0 <=> k \in {"ifCond", "whileCond"},
         end # 0 <=> k \in {"ifCond", "thenEnd", "elseEnd", "whileCond", "bodyEnd", "andRhs", "orRhs"},
         alt # 0 => k \in {"ifCond", "thenEnd"} /\ alt # end /\ alt # next,
         end # 0 => end # next,
         k \in {"whileCond", "bodyEnd"} => back \in 2..n,
         {next, alt, end} \ {0} \subseteq 2..n
  PROVE  /\ FrameOK(Frame(k, next, alt, end, back), n)
         /\ Owed(Frame(k, next, alt, end, back)) = {next, alt, end} \ {0}
         /\ Frame(k, next, alt, end, back).k = k
  BY DEF Frame, FrameOK, Owed, Frames

LEMMA IfStmtStep ==
  ASSUME Building, NEW hasElse \in BOOLEAN, IfStmt(hasElse)
  PROVE  Building'
  <1> DEFINE st == IF Top.k = "body" THEN stack ELSE Popped
             n == Len(code)
             k == IF hasElse THEN 3 ELSE 2
             c == Blocks(code, k)
             f == IF hasElse THEN Frame("ifCond", n + 1, n + 2, n + 3, 0)
                             ELSE Frame("ifCond", n + 1, 0, n + 2, 0)
  <1>1. /\ code' = c /\ stack' = st \o <<f, Waiting("expr")>>
        /\ UNCHANGED <<placed, insert, loops>> /\ AtStmt
    BY DEF IfStmt, Begin, NBlocks
  <1>2. n \in Nat /\ n # 0 BY BuilderFacts DEF Building
  <1>3. Builder(st, code, placed, insert, loops, {}) BY <1>1, BeginBase
  <1>4. k \in Nat OBVIOUS
  <1>5. Builder(st, c, placed, insert, loops, n + 1..n + k) /\ Len(c) = n + k
    <2> HIDE DEF st, k
    <2> QED BY <1>3, <1>4, BuilderCreate
  <1>6. FrameOK(f, n + k) /\ Owed(f) = n + 1..n + k /\ f.k # "bodyEnd"
    <2>0. "ifCond" \in FrameKinds BY DEF FrameKinds
    <2>1. CASE hasElse
      <3>1. k = 3 /\ f = Frame("ifCond", n + 1, n + 2, n + 3, 0) BY <2>1
      <3>2. /\ n + 1 \in Nat /\ n + 2 \in Nat /\ n + 3 \in Nat /\ n + 1 # 0 /\ n + 2 # 0 /\ n + 3 # 0
            /\ n + 1 # n + 2 /\ n + 1 # n + 3 /\ n + 2 # n + 3 /\ n + 3 \in Nat
            /\ n + 1..n + 3 = {n + 1, n + 2, n + 3}
            /\ {n + 1, n + 2, n + 3} \subseteq 2..n + 3
        BY <1>2
      <3>3. {n + 1, n + 2, n + 3} \ {0} = {n + 1, n + 2, n + 3} BY <3>2
      <3> DEFINE g == Frame("ifCond", n + 1, n + 2, n + 3, 0)
      <3>4. FrameOK(g, n + 3) /\ Owed(g) = {n + 1, n + 2, n + 3} \ {0} /\ g.k = "ifCond"
        <4> HIDE DEF n
        <4> QED BY <1>2, <2>0, <3>2, <3>3 DEF Frame, FrameOK, Owed, Frames
      <3>5. f = g /\ n + k = n + 3 BY <3>1
      <3> HIDE DEF f, k, g
      <3> QED BY <3>2, <3>3, <3>4, <3>5
    <2>2. CASE ~hasElse
      <3>1. k = 2 /\ f = Frame("ifCond", n + 1, 0, n + 2, 0) BY <2>2
      <3>2. /\ n + 1 \in Nat /\ n + 2 \in Nat /\ n + 1 # 0 /\ n + 2 # 0
            /\ n + 1 # n + 2
            /\ n + 1..n + 2 = {n + 1, n + 2}
            /\ {n + 1, n + 2} \subseteq 2..n + 2
        BY <1>2
      <3>3. {n + 1, 0, n + 2} \ {0} = {n + 1, n + 2} BY <3>2
      <3> DEFINE g == Frame("ifCond", n + 1, 0, n + 2, 0)
      <3>4. FrameOK(g, n + 2) /\ Owed(g) = {n + 1, 0, n + 2} \ {0} /\ g.k = "ifCond"
        <4> HIDE DEF n
        <4> QED BY <1>2, <2>0, <3>2, <3>3 DEF Frame, FrameOK, Owed, Frames
      <3>5. f = g /\ n + k = n + 2 BY <3>1
      <3> HIDE DEF f, k, g
      <3> QED BY <3>2, <3>3, <3>4, <3>5
    <2> QED BY <2>1, <2>2
  <1>7. "expr" \in Quiet BY QuietKinds
  <1> DEFINE D == n + 1..n + k
  <1> HIDE DEF st, k, c, f
  <1>8. Builder(st, c, placed, insert, loops, D) /\ FrameOK(f, Len(c)) /\ Owed(f) = D
    BY <1>5, <1>6
  <1> HIDE DEF D
  <1>9. Builder(st \o <<f, Waiting("expr")>>, c, placed, insert, loops, {})
    BY <1>6, <1>7, <1>8, PushOwing
  <1> QED BY <1>1, <1>9 DEF Building

LEMMA IfCondStep ==
  ASSUME Building, Rest, IfCond
  PROVE  Building'
  <1> DEFINE b == Top.next
             d == IF Top.alt # 0 THEN Top.alt ELSE Top.end
             i == CondBr(value, b, d, Node)
             f == Frame("thenEnd", 0, Top.alt, Top.end, 0)
  <1>1. /\ Walking /\ Top.k = "ifCond" /\ code' = Add(code, insert, i)
        /\ placed' = placed \cup {b} /\ insert' = b /\ loops' = loops
        /\ stack' = Popped \o <<f, Waiting("stmt")>>
    BY DEF IfCond, At, StartBlock, Replace
  <1>2. /\ Builder(Popped, code, placed, insert, loops, Owed(Top))
        /\ FrameOK(Top, Len(code)) /\ Len(code) \in Nat /\ Top \in Frames
    BY <1>1, PopBase, TopFacts
  <1>3. /\ b \in Nat /\ Top.alt \in Nat /\ Top.end \in Nat /\ b # 0 /\ Top.end # 0 /\ b # Top.end
        /\ Top.alt # 0 => Top.alt # b /\ Top.alt # Top.end
        /\ {b, Top.alt, Top.end} \ {0} \subseteq 2..Len(code)
        /\ Owed(Top) = {b, Top.alt, Top.end} \ {0}
    BY <1>1, <1>2 DEF FrameOK, Frames, Owed
  <1>4. /\ b \in 2..Len(code) /\ d \in 2..Len(code) /\ d \in Nat /\ b \in Owed(Top)
        /\ Owed(Top) \ {b} = {Top.alt, Top.end} \ {0}
    BY <1>3
  <1>5. value \in Nat /\ Node \in Nat BY NodeFacts DEF Rest
  <1> HIDE DEF b, d
  <1>6. i \in Instrs /\ IsTerminator(i) /\ Into(i, Len(code)) BY <1>3, <1>4, <1>5, CondBrFacts
  <1> HIDE DEF i
  <1> DEFINE D == Owed(Top) \ {b}
             c == Add(code, insert, i)
  <1>7. Builder(Popped, c, placed \cup {b}, b, loops, D) /\ Len(c) = Len(code)
    BY <1>2, <1>4, <1>6, BuilderMove, SMTT(60)
  <1>8. FrameOK(f, Len(c)) /\ Owed(f) = D /\ f.k # "bodyEnd"
    <2>1. "thenEnd" \in FrameKinds BY DEF FrameKinds
    <2>2. /\ {0, Top.alt, Top.end} \ {0} = {Top.alt, Top.end} \ {0}
          /\ {0, Top.alt, Top.end} \ {0} \subseteq 2..Len(code)
      BY <1>3
    <2>3. f.k = "thenEnd" /\ f.next = 0 /\ f.alt = Top.alt /\ f.end = Top.end /\ f \in Frames
      BY <1>3, <2>1 DEF Frame, Frames
    <2>4. Owed(f) = {Top.alt, Top.end} \ {0} BY <2>2, <2>3 DEF Owed
    <2>5. FrameOK(f, Len(c)) BY <1>3, <1>7, <2>2, <2>3, <2>4 DEF FrameOK
    <2> QED BY <1>4, <2>3, <2>4, <2>5
  <1>9. "stmt" \in Quiet BY QuietKinds
  <1> HIDE DEF D, c, f
  <1>10. Builder(Popped \o <<f, Waiting("stmt")>>, c, placed \cup {b}, b, loops, {})
    BY <1>7, <1>8, <1>9, PushOwing
  <1> QED BY <1>1, <1>10 DEF Building, c

(* ThenEnd and ElseEnd go on in the block the if statement ends in.        *)
LEMMA JoinSteps ==
  ASSUME Building, ThenEnd \/ ElseEnd
  PROVE  Building'
  <1> DEFINE b == Top.end
  <1>1. /\ Walking /\ Top.k \in {"thenEnd", "elseEnd"}
        /\ Top.k = "thenEnd" => Top.alt = 0
        /\ code' = BranchTo(code, b) /\ placed' = placed \cup {b} /\ insert' = b /\ loops' = loops
        /\ stack' = Popped \o <<>>
    BY DEF ThenEnd, ElseEnd, At, StartBlock, Replace
  <1>2. /\ Builder(Popped, code, placed, insert, loops, Owed(Top))
        /\ FrameOK(Top, Len(code)) /\ Len(code) \in Nat /\ Top \in Frames
    BY <1>1, PopBase, TopFacts
  <1>3. b \in Nat /\ b \in 2..Len(code) /\ Owed(Top) = {b}
    <2>1. Top.end \in Nat /\ Top.end # 0 /\ Top.next = 0 /\ Top.alt = 0
      BY <1>1, <1>2 DEF FrameOK, Frames
    <2>2. Owed(Top) = {Top.end} BY <2>1 DEF Owed
    <2> QED BY <2>1, <2>2, <1>2 DEF FrameOK
  <1> HIDE DEF b
  <1>4. Br(b) \in Instrs /\ IsTerminator(Br(b)) /\ Into(Br(b), Len(code)) BY <1>3, BrFacts
  <1>5. code' = Add(code, insert, Br(b)) BY <1>1, <1>3, BranchToFacts
  <1>6. Builder(Popped, code', placed', insert', loops, {b} \ {b})
    BY <1>1, <1>2, <1>3, <1>4, <1>5, BuilderMove
  <1>7. stack' = Popped
    <2>1. Popped \in Seq(Frames) BY <1>2, BuilderFacts DEF Stacks
    <2> QED BY <1>1, <2>1, ConcatEmptySeq
  <1>8. {b} \ {b} = {} OBVIOUS
  <1> QED BY <1>1, <1>6, <1>7, <1>8 DEF Building

LEMMA ElseStartStep ==
  ASSUME Building, ElseStart
  PROVE  Building'
  <1> DEFINE b == Top.alt
             f == Frame("elseEnd", 0, 0, Top.end, 0)
             i == Br(Top.end)
  <1>1. /\ Walking /\ Top.k = "thenEnd" /\ b # 0
        /\ code' = BranchTo(code, Top.end)
        /\ placed' = placed \cup {b} /\ insert' = b /\ loops' = loops
        /\ stack' = Popped \o <<f, Waiting("stmt")>>
    BY DEF ElseStart, At, StartBlock, Replace
  <1>2. /\ Builder(Popped, code, placed, insert, loops, Owed(Top))
        /\ FrameOK(Top, Len(code)) /\ Len(code) \in Nat /\ Top \in Frames
    BY <1>1, PopBase, TopFacts
  <1>3. /\ b \in Nat /\ Top.end \in Nat /\ Top.end # 0 /\ b # Top.end
        /\ {b, Top.end} \subseteq 2..Len(code) /\ Owed(Top) = {b, Top.end}
    <2>1. b \in Nat /\ Top.end \in Nat /\ Top.end # 0 /\ b # Top.end /\ Top.next = 0
      BY <1>1, <1>2 DEF FrameOK, Frames
    <2>2. Owed(Top) = {b, Top.end} BY <1>1, <2>1 DEF Owed
    <2> QED BY <2>1, <2>2, <1>2 DEF FrameOK
  <1>4. i \in Instrs /\ IsTerminator(i) /\ Into(i, Len(code)) BY <1>3, BrFacts
  <1>5. code' = Add(code, insert, i) BY <1>1, <1>3, BranchToFacts
  <1> HIDE DEF i, b
  <1> DEFINE D == Owed(Top) \ {b}
             c == Add(code, insert, i)
  <1>6. Builder(Popped, c, placed \cup {b}, b, loops, D) /\ Len(c) = Len(code)
    BY <1>2, <1>3, <1>4, BuilderMove
  <1>7. FrameOK(f, Len(c)) /\ Owed(f) = D /\ f.k # "bodyEnd"
    <2>1. "elseEnd" \in FrameKinds BY DEF FrameKinds
    <2>2. {0, 0, Top.end} \ {0} = {Top.end} /\ {Top.end} \subseteq 2..Len(code) /\ D = {Top.end}
      BY <1>3
    <2> QED BY <1>2, <1>3, <1>6, <2>1, <2>2, 0 \in Nat, FrameFacts
  <1>8. "stmt" \in Quiet BY QuietKinds
  <1> HIDE DEF D, c, f
  <1>9. Builder(Popped \o <<f, Waiting("stmt")>>, c, placed \cup {b}, b, loops, {})
    BY <1>6, <1>7, <1>8, PushOwing
  <1> QED BY <1>1, <1>5, <1>9 DEF Building, c

LEMMA WhileStmtStep ==
  ASSUME Building, WhileStmt
  PROVE  Building'
  <1> DEFINE st == IF Top.k = "body" THEN stack ELSE Popped
             n == Len(code)
             b == n + 1
             c == Blocks(code, 3)
             f == Frame("whileCond", n + 2, 0, n + 3, n + 1)
             D == {n + 2, n + 3}
  <1>1. /\ AtStmt /\ code' = Add(c, insert, Br(b)) /\ stack' = st \o <<f, Waiting("expr")>>
        /\ placed' = placed \cup {b} /\ insert' = b /\ loops' = loops
    BY DEF WhileStmt, Begin, StartBlock, NBlocks
  <1>2. n \in Nat /\ n # 0 BY BuilderFacts DEF Building
  <1>3. Builder(st, code, placed, insert, loops, {}) BY <1>1, BeginBase
  <1>4. Builder(st, c, placed, insert, loops, n + 1..n + 3) /\ Len(c) = n + 3
    <2> HIDE DEF st
    <2> QED BY <1>3, 3 \in Nat, BuilderCreate
  <1>5. n + 1..n + 3 = {b} \cup D /\ ({b} \cup D) \ {b} = D BY <1>2
  <1>6. b \in Nat /\ b \in 2..n + 3 BY <1>2
  <1>7. Br(b) \in Instrs /\ IsTerminator(Br(b)) /\ Into(Br(b), Len(c))
    <2> HIDE DEF b, c
    <2> QED BY <1>4, <1>6, BrFacts
  <1>8. FrameOK(f, n + 3) /\ Owed(f) = D /\ f.k # "bodyEnd"
    <2>1. f.k = "whileCond" /\ f.next = n + 2 /\ f.alt = 0 /\ f.end = n + 3 /\ f.back = n + 1
          /\ f \in Frames
      BY <1>2 DEF Frame, Frames, FrameKinds
    <2>2. Owed(f) = {n + 2, n + 3} BY <1>2, <2>1 DEF Owed
    <2>3. n + 2 # 0 /\ n + 3 # 0 /\ n + 2 # n + 3 /\ n + 1 \in 2..n + 3 /\ D \subseteq 2..n + 3
      BY <1>2
    <2> HIDE DEF f
    <2> QED BY <2>1, <2>2, <2>3 DEF FrameOK
  <1>9. "expr" \in Quiet BY QuietKinds
  <1> HIDE DEF st, b, c, f, D
  <1> DEFINE e == Add(c, insert, Br(b))
  <1>10. Builder(st, e, placed \cup {b}, b, loops, D) /\ Len(e) = n + 3
    <2> DEFINE E == {b} \cup D
    <2>1. Builder(st, c, placed, insert, loops, E) BY <1>4, <1>5
    <2>2. b \in E /\ E \ {b} = D BY <1>5
    <2> HIDE DEF E, e
    <2>3. Builder(st, Add(c, insert, Br(b)), placed \cup {b}, b, loops, E \ {b})
          /\ Len(Add(c, insert, Br(b))) = Len(c)
      BY <1>7, <2>1, <2>2, BuilderMove
    <2> QED BY <1>4, <2>2, <2>3 DEF e
  <1> HIDE DEF e
  <1>11. Builder(st \o <<f, Waiting("expr")>>, e, placed \cup {b}, b, loops, {})
    BY <1>8, <1>9, <1>10, PushOwing
  <1> QED BY <1>1, <1>11 DEF Building, e

LEMMA WhileCondStep ==
  ASSUME Building, Rest, WhileCond
  PROVE  Building'
  <1> DEFINE b == Top.next
             i == CondBr(value, b, Top.end, Node)
             f == Frame("bodyEnd", 0, 0, Top.end, Top.back)
             c == Add(code, insert, i)
             D == {Top.end}
  <1>1. /\ Walking /\ Top.k = "whileCond" /\ code' = c
        /\ placed' = placed \cup {b} /\ insert' = b
        /\ loops' = Append(loops, [continueTo |-> Top.back, breakTo |-> Top.end])
        /\ stack' = Popped \o <<f, Waiting("stmt")>>
    BY DEF WhileCond, At, StartBlock, Replace
  <1>2. /\ Builder(Popped, code, placed, insert, loops, Owed(Top))
        /\ FrameOK(Top, Len(code)) /\ Len(code) \in Nat /\ Top \in Frames
    BY <1>1, PopBase, TopFacts
  <1>3. /\ b \in Nat /\ Top.end \in Nat /\ Top.back \in Nat /\ b # 0 /\ Top.end # 0 /\ b # Top.end
        /\ b \in 2..Len(code) /\ Top.end \in 2..Len(code) /\ Top.back \in 2..Len(code)
        /\ Owed(Top) = {b, Top.end}
    <2>1. /\ b \in Nat /\ Top.end \in Nat /\ Top.back \in Nat
          /\ b # 0 /\ Top.end # 0 /\ Top.alt = 0 /\ b # Top.end
          /\ Top.back \in 2..Len(code)
      BY <1>1, <1>2 DEF FrameOK, Frames
    <2>2. Owed(Top) = {b, Top.end} BY <2>1 DEF Owed
    <2> QED BY <2>1, <2>2, <1>2 DEF FrameOK
  <1>4. value \in Nat /\ Node \in Nat BY NodeFacts DEF Rest
  <1>5. i \in Instrs /\ IsTerminator(i) /\ Into(i, Len(code)) BY <1>3, <1>4, CondBrFacts
  <1>6. Owed(Top) \ {b} = D BY <1>3
  <1>7. FrameOK(f, Len(code)) /\ Owed(f) = D /\ f.k = "bodyEnd"
        /\ LoopOf(f) = [continueTo |-> Top.back, breakTo |-> Top.end]
    <2>1. f.k = "bodyEnd" /\ f.next = 0 /\ f.alt = 0 /\ f.end = Top.end /\ f.back = Top.back
          /\ f \in Frames
      BY <1>3 DEF Frame, Frames, FrameKinds
    <2>2. Owed(f) = {Top.end} BY <1>3, <2>1 DEF Owed
    <2>3. FrameOK(f, Len(code)) BY <1>3, <2>1, <2>2 DEF FrameOK
    <2> QED BY <2>1, <2>2, <2>3 DEF LoopOf
  <1>8. "stmt" \in Quiet BY QuietKinds
  <1> HIDE DEF b, i, f, D
  <1>9. Builder(Popped, c, placed \cup {b}, b, loops, D) /\ Len(c) = Len(code)
    BY <1>2, <1>3, <1>5, <1>6, BuilderMove, SMTT(60)
  <1> HIDE DEF c
  <1>10. Builder(Popped \o <<f, Waiting("stmt")>>, c, placed \cup {b}, b,
                 Append(loops, LoopOf(f)), {})
    BY <1>7, <1>8, <1>9, PushLoop
  <1> QED BY <1>1, <1>7, <1>10 DEF Building

LEMMA BodyEndStep ==
  ASSUME Building, BodyEnd
  PROVE  Building'
  <1> DEFINE b == Top.end
             i == Br(Top.back)
             m == SubSeq(loops, 1, Len(loops) - 1)
  <1>1. /\ Walking /\ Top.k = "bodyEnd" /\ code' = BranchTo(code, Top.back)
        /\ placed' = placed \cup {b} /\ insert' = b /\ loops' = m
        /\ stack' = Popped \o <<>>
    BY DEF BodyEnd, At, StartBlock, Replace
  <1>2. /\ Builder(Popped, code, placed, insert, m, Owed(Top))
        /\ FrameOK(Top, Len(code)) /\ Len(code) \in Nat /\ Top \in Frames
    <2>1. Builder(Popped, code, placed, insert, m, Owed(Top))
      BY <1>1, BuilderLeave DEF Building, Walking, Top, Popped
    <2> QED BY <1>1, <2>1, TopFacts
  <1>3. b \in Nat /\ Top.back \in Nat /\ Top.back \in 2..Len(code) /\ Owed(Top) = {b}
    <2>1. b \in Nat /\ b # 0 /\ Top.next = 0 /\ Top.alt = 0
          /\ Top.back \in Nat /\ Top.back \in 2..Len(code)
      BY <1>1, <1>2 DEF FrameOK, Frames
    <2> QED BY <2>1 DEF Owed
  <1>4. i \in Instrs /\ IsTerminator(i) /\ Into(i, Len(code)) BY <1>3, BrFacts
  <1>5. code' = Add(code, insert, i) BY <1>1, <1>3, BranchToFacts
  <1> HIDE DEF b, i, m
  <1>6. Builder(Popped, code', placed', insert', m, {b} \ {b})
    BY <1>1, <1>2, <1>3, <1>4, <1>5, BuilderMove
  <1>7. stack' = Popped
    <2>1. Popped \in Seq(Frames) BY <1>2, BuilderFacts DEF Stacks
    <2> QED BY <1>1, <2>1, ConcatEmptySeq
  <1>8. {b} \ {b} = {} OBVIOUS
  <1> QED BY <1>1, <1>6, <1>7, <1>8 DEF Building

LEMMA LogicalLhsStep ==
  ASSUME Building, Rest, LogicalLhs
  PROVE  Building'
  <1> DEFINE n == Len(code)
             rhs == n + 1
             end == n + 2
             c == Blocks(code, 2)
             i == IF Top.k = "and" THEN CondBr(value, rhs, end, Node)
                                   ELSE CondBr(value, end, rhs, Node)
             f == Frame(IF Top.k = "and" THEN "andRhs" ELSE "orRhs", 0, 0, end, insert)
             D == {end}
  <1>1. /\ Walking /\ Top.k \in {"and", "or"} /\ code' = Add(c, insert, i)
        /\ placed' = placed \cup {rhs} /\ insert' = rhs /\ loops' = loops
        /\ stack' = Popped \o <<f, Waiting("expr")>>
    BY DEF LogicalLhs, StartBlock, Replace, NBlocks
  <1>2. n \in Nat /\ n # 0 /\ insert \in Nat BY BuilderFacts DEF Building
  <1>3. Builder(Popped, code, placed, insert, loops, {}) BY <1>1, PopBase
  <1>4. Builder(Popped, c, placed, insert, loops, n + 1..n + 2) /\ Len(c) = n + 2
    BY <1>3, 2 \in Nat, BuilderCreate
  <1>5. /\ n + 1..n + 2 = {rhs} \cup D /\ ({rhs} \cup D) \ {rhs} = D
        /\ rhs \in Nat /\ end \in Nat /\ rhs \in 2..n + 2 /\ end \in 2..n + 2 /\ end # 0
    BY <1>2
  <1>6. value \in Nat /\ Node \in Nat BY NodeFacts DEF Rest
  <1>7. i \in Instrs /\ IsTerminator(i) /\ Into(i, Len(c))
    <2> HIDE DEF n, rhs, end, c
    <2>1. CASE Top.k = "and" BY <2>1, <1>4, <1>5, <1>6, CondBrFacts
    <2>2. CASE Top.k # "and" BY <2>2, <1>4, <1>5, <1>6, CondBrFacts
    <2> QED BY <2>1, <2>2
  <1>8. FrameOK(f, n + 2) /\ Owed(f) = D /\ f.k # "bodyEnd"
    <2>1. f.k \in {"andRhs", "orRhs"} /\ f.next = 0 /\ f.alt = 0 /\ f.end = end /\ f \in Frames
      BY <1>2, <1>5 DEF Frame, Frames, FrameKinds
    <2>2. Owed(f) = {end} BY <1>5, <2>1 DEF Owed
    <2> HIDE DEF f, end
    <2> QED BY <1>5, <2>1, <2>2 DEF FrameOK
  <1>9. "expr" \in Quiet BY QuietKinds
  <1> HIDE DEF rhs, end, c, i, f, D
  <1> DEFINE e == Add(c, insert, i)
  <1>10. Builder(Popped, e, placed \cup {rhs}, rhs, loops, D) /\ Len(e) = n + 2
    <2> DEFINE E == {rhs} \cup D
    <2>1. Builder(Popped, c, placed, insert, loops, E) BY <1>4, <1>5
    <2>2. rhs \in E /\ E \ {rhs} = D BY <1>5
    <2> HIDE DEF E, e
    <2>3. Builder(Popped, Add(c, insert, i), placed \cup {rhs}, rhs, loops, E \ {rhs})
          /\ Len(Add(c, insert, i)) = Len(c)
      BY <1>7, <2>1, <2>2, BuilderMove
    <2> QED BY <1>4, <2>2, <2>3 DEF e
  <1> HIDE DEF e
  <1>11. Builder(Popped \o <<f, Waiting("expr")>>, e, placed \cup {rhs}, rhs, loops, {})
    BY <1>8, <1>9, <1>10, PushOwing
  <1> QED BY <1>1, <1>11 DEF Building, e

LEMMA LogicalRhsStep ==
  ASSUME Building, Rest, LogicalRhs
  PROVE  Building'
  <1> DEFINE b == Top.end
             c == Add(code, insert, Br(b))
             in == {Incoming(Top.back, 0, Top.k = "orRhs"), Incoming(insert, value, FALSE)}
             i == Phi(Node, in)
  <1>1. /\ Walking /\ Top.k \in {"andRhs", "orRhs"} /\ code' = Add(c, b, i)
        /\ placed' = placed \cup {b} /\ insert' = b /\ loops' = loops
        /\ stack' = Popped \o <<>>
    BY DEF LogicalRhs, StartBlock, Replace
  <1>2. /\ Builder(Popped, code, placed, insert, loops, Owed(Top)) /\ insert \in Nat
        /\ FrameOK(Top, Len(code)) /\ Len(code) \in Nat /\ Top \in Frames
    BY <1>1, PopBase, TopFacts, BuilderFacts DEF Building
  <1>3. b \in Nat /\ b \in 2..Len(code) /\ Owed(Top) = {b} /\ Top.back \in Nat
    <2>1. b \in Nat /\ b # 0 /\ Top.next = 0 /\ Top.alt = 0 /\ Top.back \in Nat
      BY <1>1, <1>2 DEF FrameOK, Frames
    <2>2. Owed(Top) = {b} BY <2>1 DEF Owed
    <2> QED BY <2>1, <2>2, <1>2 DEF FrameOK
  <1>4. value \in Nat /\ Node \in Nat BY NodeFacts DEF Rest
  <1>5. i \in Instrs /\ ~IsTerminator(i) /\ i.to = <<>>
    <2>1. (Top.k = "orRhs") \in BOOLEAN OBVIOUS
    <2>2. in \in SUBSET [from: Nat, v: Nat, const: BOOLEAN]
      BY <1>2, <1>3, <1>4, <2>1 DEF Incoming
    <2> HIDE DEF in
    <2> QED BY <1>4, <2>2, PhiFacts
  <1> HIDE DEF b, i
  <1>6. Br(b) \in Instrs /\ IsTerminator(Br(b)) /\ Into(Br(b), Len(code)) BY <1>3, BrFacts
  <1>7. Builder(Popped, c, placed \cup {b}, b, loops, {b} \ {b})
    BY <1>2, <1>3, <1>6, BuilderMove
  <1>8. {b} \ {b} = {} OBVIOUS
  <1> HIDE DEF c
  <1>9. Builder(Popped, Add(c, b, i), placed \cup {b}, b, loops, {})
    BY <1>5, <1>7, <1>8, BuilderPlain
  <1>10. stack' = Popped
    <2>1. Popped \in Seq(Frames) BY <1>2, BuilderFacts DEF Stacks
    <2> QED BY <1>1, <2>1, ConcatEmptySeq
  <1> QED BY <1>1, <1>9, <1>10 DEF Building

(* What the walk notes down beside the graph.                              *)
LEMMA VisitFacts ==
  ASSUME Rest, NEW k \in Kinds, Visit(k)
  PROVE  src' \in Seq(Kinds) /\ Len(src') = Len(src) + 1
  BY AppendProperties DEF Rest, Visit

(* The nodes only grow, and the slots with them.                           *)
LEMMA NotesFacts ==
  ASSUME Rest, value' \in Nat, scopes' \in Seq(SUBSET Nat),
         src' = src \/ \E k \in Kinds : Visit(k),
         slots' = slots \/ (slots' = slots \cup {Node} /\ \E k \in Kinds : Visit(k))
  PROVE  Rest'
  <1>1. Len(src) \in Nat BY NodeFacts
  <1>2. src' \in Seq(Kinds) /\ 1..Len(src) \subseteq 1..Len(src')
    BY <1>1, VisitFacts DEF Rest
  <1>3. slots' \subseteq 1..Len(src')
    <2>1. CASE slots' = slots BY <2>1, <1>2 DEF Rest
    <2>2. CASE slots' = slots \cup {Node} /\ \E k \in Kinds : Visit(k)
      <3>1. Len(src') = Len(src) + 1 BY <2>2, VisitFacts
      <3>2. Node \in 1..Len(src') BY <1>1, <3>1 DEF Node
      <3> QED BY <2>2, <3>2, <1>2 DEF Rest
    <2> QED BY <2>1, <2>2
  <1> QED BY <1>2, <1>3 DEF Rest

LEMMA ScopeFacts ==
  ASSUME Rest, NEW v \in Nat
  PROVE  /\ Append(scopes, {}) \in Seq(SUBSET Nat)
         /\ SubSeq(scopes, 1, Len(scopes) - 1) \in Seq(SUBSET Nat)
         /\ [scopes EXCEPT ![Len(scopes)] = @ \cup {v}] \in Seq(SUBSET Nat)
  <1>1. scopes \in Seq(SUBSET Nat) BY DEF Rest
  <1>2. Append(scopes, {}) \in Seq(SUBSET Nat) BY <1>1, AppendProperties, {} \in SUBSET Nat
  <1>3. SubSeq(scopes, 1, Len(scopes) - 1) \in Seq(SUBSET Nat)
    <2>1. CASE scopes = <<>>
      <3>1. Len(scopes) = 0 /\ Len(scopes) - 1 = -1 BY <2>1
      <3>2. \A i \in 1..-1 : scopes[i] \in SUBSET Nat OBVIOUS
      <3>3. SubSeq(scopes, 1, -1) \in Seq(SUBSET Nat) BY <3>2, SubSeqProperties
      <3> QED BY <3>1, <3>3
    <2>2. CASE scopes # <<>> BY <2>2, <1>1, FrontFacts
    <2> QED BY <2>1, <2>2
  <1>4. [scopes EXCEPT ![Len(scopes)] = @ \cup {v}] \in Seq(SUBSET Nat)
    <2>1. CASE scopes = <<>>
      <3>1. Len(scopes) = 0 /\ DOMAIN scopes = {} BY <2>1
      <3>2. [scopes EXCEPT ![Len(scopes)] = @ \cup {v}] = scopes
        BY <3>1, <2>1
      <3> QED BY <3>2, <1>1
    <2>2. CASE scopes # <<>>
      <3>1. Len(scopes) \in 1..Len(scopes) BY <1>1, <2>2, EmptySeq
      <3>2. scopes[Len(scopes)] \in SUBSET Nat BY <1>1, <3>1, ElementOfSeq
      <3>3. scopes[Len(scopes)] \cup {v} \in SUBSET Nat BY <3>2
      <3>4. [scopes EXCEPT ![Len(scopes)] = scopes[Len(scopes)] \cup {v}] \in Seq(SUBSET Nat)
        BY <1>1, <3>1, <3>3, ExceptSeq
      <3> QED BY <3>4
    <2> QED BY <2>1, <2>2
  <1> QED BY <1>2, <1>3, <1>4

(* Every step of the walk keeps its notes well-formed.                     *)
LEMMA RestStmt ==
  ASSUME Rest, StmtStep
  PROVE  Rest'
  <1>0. Node \in Nat /\ value \in Nat /\ scopes \in Seq(SUBSET Nat) BY NodeFacts DEF Rest
  <1>1. {"decl", "store", "drop", "{", "if", "then", "else", "endif", "while", "do", "endwhile",
         "break", "continue", "return", "retval"} \subseteq Kinds
    BY DEF Kinds
  <1>2. CASE NullStmt \/ ExprStmt \/ ReturnStmt
    BY <1>0, <1>2, NotesFacts DEF NullStmt, ExprStmt, ReturnStmt, ir
  <1>3. CASE Drop \/ LocalInit \/ \E isVoid \in BOOLEAN : ReturnValue(isVoid)
    <2>1. /\ value' = 0 /\ scopes' = scopes /\ slots' = slots
          /\ \E k \in {"drop", "store", "return", "retval"} : Visit(k)
      BY <1>3 DEF Drop, LocalInit, ReturnValue, Taken, ir
    <2> QED BY <1>0, <1>1, <2>1, NotesFacts, 0 \in Nat
  <1>4. CASE \E hasInit \in BOOLEAN : DeclStmt(hasInit)
    <2>1. /\ value' = value /\ slots' = slots \cup {Node} /\ Visit("decl")
          /\ scopes' = [scopes EXCEPT ![Len(scopes)] = @ \cup {Node}]
      BY <1>4 DEF DeclStmt
    <2>2. scopes' \in Seq(SUBSET Nat) BY <1>0, <2>1, ScopeFacts
    <2> QED BY <1>0, <1>1, <2>1, <2>2, NotesFacts
  <1>5. CASE CompoundStmt
    <2>1. /\ value' = value /\ slots' = slots /\ Visit("{") /\ scopes' = Append(scopes, {})
      BY <1>5 DEF CompoundStmt, ir
    <2>2. scopes' \in Seq(SUBSET Nat) BY <2>1, ScopeFacts, 0 \in Nat
    <2> QED BY <1>0, <1>1, <2>1, <2>2, NotesFacts
  <1>6. CASE CompoundEnd
    <2>1. /\ value' = value /\ slots' = slots /\ src' = src
          /\ scopes' = SubSeq(scopes, 1, Len(scopes) - 1)
      BY <1>6 DEF CompoundEnd, ir
    <2>2. scopes' \in Seq(SUBSET Nat) BY <2>1, ScopeFacts, 0 \in Nat
    <2> QED BY <1>0, <2>1, <2>2, NotesFacts
  <1>7. CASE \/ \E hasElse \in BOOLEAN : IfStmt(hasElse)
             \/ ThenEnd \/ ElseStart \/ ElseEnd \/ WhileStmt \/ BodyEnd
             \/ BreakStmt \/ ContinueStmt \/ ReturnVoid
    <2>1. /\ value' = value /\ scopes' = scopes /\ slots' = slots
          /\ \E k \in {"if", "endif", "else", "while", "endwhile", "break", "continue", "return"} :
               Visit(k)
      BY <1>7 DEF IfStmt, ThenEnd, ElseStart, ElseEnd, WhileStmt, BodyEnd, BreakStmt,
                  ContinueStmt, ReturnVoid
    <2> QED BY <1>0, <1>1, <2>1, NotesFacts
  <1>8. CASE IfCond \/ WhileCond
    <2>1. /\ value' = 0 /\ scopes' = scopes /\ slots' = slots
          /\ \E k \in {"then", "do"} : Visit(k)
      BY <1>8 DEF IfCond, WhileCond, Taken
    <2> QED BY <1>0, <1>1, <2>1, NotesFacts, 0 \in Nat
  <1> QED BY <1>2, <1>3, <1>4, <1>5, <1>6, <1>7, <1>8 DEF StmtStep

LEMMA RestExpr ==
  ASSUME Rest, ExprStep
  PROVE  Rest'
  <1>0. Node \in Nat /\ value \in Nat /\ scopes \in Seq(SUBSET Nat) BY NodeFacts DEF Rest
  <1>1. {"leaf", "op", "and", "or", "endlogic"} \subseteq Kinds BY DEF Kinds
  <1>2. CASE Operands \/ \E k \in {"and", "or"} : Logical(k)
    BY <1>0, <1>2, NotesFacts DEF Operands, Logical, ir
  <1>3. CASE OperatorLhs BY <1>0, <1>3, NotesFacts, 0 \in Nat DEF OperatorLhs, Taken, ir
  <1>4. CASE (\E slot \in Visible \cup {0} : Leaf(slot)) \/ Operator \/ LogicalRhs
    <2>1. /\ value' = Node /\ scopes' = scopes /\ slots' = slots
          /\ \E k \in {"leaf", "op", "endlogic"} : Visit(k)
      BY <1>4 DEF Leaf, Operator, LogicalRhs, Return
    <2> QED BY <1>0, <1>1, <2>1, NotesFacts
  <1>5. CASE LogicalLhs
    <2>1. /\ value' = 0 /\ scopes' = scopes /\ slots' = slots
          /\ \E k \in {"and", "or"} : Visit(k)
      BY <1>5 DEF LogicalLhs, Taken
    <2> QED BY <1>0, <1>1, <2>1, NotesFacts, 0 \in Nat
  <1> QED BY <1>2, <1>3, <1>4, <1>5 DEF ExprStep

LEMMA RestEmitFunction ==
  ASSUME Rest, NEW params \in Nat, EmitFunction(params)
  PROVE  Rest'
  <1>1. /\ src' = [p \in 1..params |-> "param"] /\ slots' = 1..params
        /\ scopes' = <<1..params>> /\ value' = value
    BY DEF EmitFunction
  <1>2. "param" \in Kinds BY DEF Kinds
  <1>3. src' \in Seq(Kinds) /\ Len(src') = params BY <1>1, <1>2
  <1>4. 1..params \in SUBSET Nat OBVIOUS
  <1>5. scopes' \in Seq(SUBSET Nat)
    <2> DEFINE s == 1..params
    <2>1. s \in SUBSET Nat BY <1>4
    <2> HIDE DEF s
    <2>2. <<s>> \in Seq(SUBSET Nat) BY <2>1
    <2> QED BY <2>2, <1>1 DEF s
  <1> QED BY <1>1, <1>3, <1>5 DEF Rest

-----------------------------------------------------------------------------
(* The invariant holds in every state.                                     *)

LEMMA IInvInit == Init => IInv
  <1> SUFFICES ASSUME Init PROVE IInv OBVIOUS
  <1>1. <<>> \in Seq(Kinds) /\ <<>> \in Seq(SUBSET Nat) /\ 0 \in Nat OBVIOUS
  <1> QED BY <1>1 DEF Init, IInv, Rest

LEMMA IInvStep == IInv /\ [Next]_vars => IInv'
  <1> SUFFICES ASSUME IInv, [Next]_vars PROVE IInv' OBVIOUS
  <1>0. Rest BY DEF IInv
  <1>1. ASSUME NEW params \in 0..MaxParams, EmitFunction(params) PROVE IInv'
    <2>1. params \in Nat BY BoundsAssumption
    <2>2. Rest' BY <1>0, <1>1, <2>1, RestEmitFunction
    <2>3. Building' BY <1>1, <2>1, EmitFunctionStep
    <2>4. phase' = "emit" BY <1>1 DEF EmitFunction
    <2> QED BY <2>2, <2>3, <2>4 DEF IInv
  <1>2. CASE FinishFunction
    <2>1. Rest'
      <3>1. UNCHANGED <<value, slots, src>> /\ scopes' = <<>> BY <1>2 DEF FinishFunction
      <3> QED BY <3>1, <1>0 DEF Rest
    <2>2. phase' = "done" BY <1>2 DEF FinishFunction
    <2>3. stack' = <<>> /\ loops' = <<>> /\ Finished(code, placed, insert)'
      BY <1>2, FinishFunctionStep DEF Finished
    <2> QED BY <2>1, <2>2, <2>3 DEF IInv
  <1>3. CASE NextFunction
    <2>1. Rest'
      <3>1. UNCHANGED <<value, scopes>> /\ src' = <<>> /\ slots' = {}
        BY <1>3 DEF NextFunction
      <3> QED BY <3>1, <1>0 DEF Rest
    <2>2. phase = "done" /\ phase' = "idle" /\ UNCHANGED <<loops, stack>>
          /\ code' = <<>> /\ placed' = {} /\ insert' = 0 /\ slots' = {}
      BY <1>3 DEF NextFunction
    <2>3. stack = <<>> /\ loops = <<>> BY <2>2 DEF IInv
    <2> QED BY <2>1, <2>2, <2>3 DEF IInv
  <1>4. CASE StmtStep \/ ExprStep
    <2>1. phase = "emit" /\ phase' = "emit"
      BY <1>4 DEF StmtStep, ExprStep, AtStmt, At, Walking, NullStmt, ExprStmt, Drop, LocalInit,
         DeclStmt, CompoundStmt, CompoundEnd, IfStmt, IfCond, ThenEnd, ElseStart, ElseEnd,
         WhileStmt, WhileCond, BodyEnd, BreakStmt, ContinueStmt, ReturnVoid, ReturnStmt,
         ReturnValue, Leaf, Operands, OperatorLhs, Operator, Logical, LogicalLhs, LogicalRhs
    <2>2. Building BY <2>1 DEF IInv
    <2>3. Building'
      <3>1. CASE StmtStep
        <4>1. ASSUME NEW hasElse \in BOOLEAN, IfStmt(hasElse) PROVE Building'
          BY <2>2, <4>1, IfStmtStep
        <4> QED BY <1>0, <2>2, <3>1, <4>1, QuietSteps, EmitSteps, DeadSteps, IfCondStep, JoinSteps,
                   ElseStartStep, WhileStmtStep, WhileCondStep, BodyEndStep DEF StmtStep
      <3>2. CASE ExprStep
        BY <1>0, <2>2, <3>2, QuietSteps, EmitSteps, LogicalLhsStep, LogicalRhsStep DEF ExprStep
      <3> QED BY <1>4, <3>1, <3>2
    <2>4. Rest' BY <1>0, <1>4, RestStmt, RestExpr
    <2> QED BY <2>1, <2>3, <2>4 DEF IInv
  <1>5. CASE UNCHANGED vars
    BY <1>5 DEF vars, IInv, Rest, Building, Builder, Graph, Owes, LoopsInv, Finished, Edges
  <1> QED BY <1>1, <1>2, <1>3, <1>4, <1>5 DEF Next

(* The strengthened invariant is an invariant.                             *)
THEOREM Invariance == Spec => []IInv
  BY IInvInit, IInvStep, PTL DEF Spec

-----------------------------------------------------------------------------
(* What the invariant is for.                                              *)

LEMMA IInvTypeOK == IInv => TypeOK
  <1> SUFFICES ASSUME IInv PROVE TypeOK OBVIOUS
  <1>1. Rest BY DEF IInv
  <1>2. CASE phase = "idle"
    <2>1. code = <<>> /\ placed = {} /\ insert = 0 /\ stack = <<>> /\ loops = <<>>
      BY <1>2 DEF IInv
    <2>2. /\ code \in Seq(Seq(Instrs)) /\ Len(code) = 0 /\ stack \in Seq(Frames)
          /\ loops \in Seq([continueTo: Nat, breakTo: Nat]) /\ 0 \in 0..0
      BY <2>1
    <2> QED BY <1>1, <1>2, <2>1, <2>2 DEF TypeOK, Rest, NBlocks
  <1>3. CASE phase = "emit"
    <2>1. Building BY <1>3 DEF IInv
    <2>2. /\ code \in Codes /\ Len(code) \in Nat /\ placed \subseteq 1..Len(code)
          /\ insert \in 1..Len(code) /\ stack \in Stacks /\ loops \in Loops
      BY <2>1, BuilderFacts DEF Building
    <2>3. insert \in 0..Len(code) BY <2>2
    <2> QED BY <1>1, <1>3, <2>2, <2>3 DEF TypeOK, Rest, NBlocks, Codes, Stacks, Loops
  <1>4. CASE phase = "done"
    <2>1. Finished(code, placed, insert) /\ stack = <<>> /\ loops = <<>> BY <1>4 DEF IInv
    <2>2. /\ code \in Seq(Seq(Instrs)) /\ Len(code) \in Nat /\ insert \in 1..Len(code)
          /\ placed = 1..Len(code)
      BY <2>1, LenProperties DEF Finished, Codes
    <2>3. /\ insert \in 0..Len(code) /\ stack \in Seq(Frames)
          /\ loops \in Seq([continueTo: Nat, breakTo: Nat])
      BY <2>1, <2>2
    <2> QED BY <1>1, <1>4, <2>2, <2>3 DEF TypeOK, Rest, NBlocks
  <1> QED BY <1>2, <1>3, <1>4 DEF IInv

(* The variables of the walk hold values of their types.                   *)
THEOREM TypeCorrect == Spec => []TypeOK
  BY Invariance, IInvTypeOK, PTL

LEMMA EndedBranches ==
  ASSUME NEW b, Ended(code[b]), code[b] \in Seq(Instrs)
  PROVE  code[b] # <<>> /\ Branches(b) = {Len(code[b])}
  <1>1. Len(code[b]) \in 1..Len(code[b]) BY EmptySeq DEF Ended
  <1> QED BY <1>1 DEF Ended, Branches

LEMMA IInvOneOpenBlock == IInv => OneOpenBlock
  <1> SUFFICES ASSUME IInv, NEW b \in Block
               PROVE  /\ b \in placed \ {insert} => code[b] # <<>> /\ Branches(b) = {Len(code[b])}
                      /\ b = insert /\ phase = "emit" => Branches(b) = {}
                      /\ b \notin placed => code[b] = <<>>
    BY DEF OneOpenBlock
  <1>1. CASE phase = "idle"
    <2>1. Len(code) = 0 BY <1>1 DEF IInv
    <2> QED BY <2>1 DEF Block, NBlocks
  <1>2. CASE phase = "emit"
    <2>1. Graph(code, placed, insert) BY <1>2 DEF IInv, Building, Builder
    <2>2. b \in 1..Len(code) /\ code[b] \in Seq(Instrs)
      BY <2>1, ElementOfSeq DEF Block, NBlocks, Graph, Codes
    <2>3. b \in placed \ {insert} => Ended(code[b]) BY <2>1 DEF Graph
    <2>4. b = insert => Branches(b) = {} BY <2>1 DEF Graph, Open, Branches
    <2>5. b \notin placed => code[b] = <<>> BY <2>1, <2>2 DEF Graph
    <2> QED BY <2>2, <2>3, <2>4, <2>5, EndedBranches
  <1>3. CASE phase = "done"
    <2>1. Finished(code, placed, insert) BY <1>3 DEF IInv
    <2>2. b \in placed /\ Ended(code[b]) /\ code[b] \in Seq(Instrs)
      BY <2>1, ElementOfSeq DEF Block, NBlocks, Finished, Codes
    <2> QED BY <1>3, <2>2, EndedBranches
  <1> QED BY <1>1, <1>2, <1>3 DEF IInv

(* startDeadBlock does what its comment promises: every block that was     *)
(* started and left ends in exactly one terminator, the block the builder  *)
(* writes to has none, and the blocks not started yet are empty.           *)
THEOREM OneTerminator == Spec => []OneOpenBlock
  BY Invariance, IInvOneOpenBlock, PTL

LEMMA EdgesTargets ==
  ASSUME Edges(code), Len(code) \in Nat, NEW b \in Block, NEW j \in Branches(b)
  PROVE  Targets(code[b][j]) \subseteq Block \ {1}
  <1>1. Into(code[b][j], Len(code)) BY DEF Edges, Block, NBlocks, Branches
  <1>2. 2..Len(code) \subseteq Block \ {1} BY DEF Block, NBlocks
  <1> QED BY <1>1, <1>2 DEF Into, Targets

LEMMA IInvClosedGraph == IInv => ClosedGraph
  <1> SUFFICES ASSUME IInv PROVE ClosedGraph OBVIOUS
  <1>1. CASE phase = "idle"
    <2>1. Block = {} BY <1>1 DEF IInv, Block, NBlocks
    <2> QED BY <1>1, <2>1 DEF ClosedGraph
  <1>2. CASE phase = "emit"
    <2>1. Edges(code) /\ Len(code) \in Nat
      BY <1>2, BuilderFacts DEF IInv, Building, Builder, Graph
    <2> QED BY <1>2, <2>1, EdgesTargets DEF ClosedGraph
  <1>3. CASE phase = "done"
    <2>1. Finished(code, placed, insert) BY <1>3 DEF IInv
    <2>2. Edges(code) /\ Len(code) \in Nat BY <2>1, LenProperties DEF Finished, Codes
    <2>3. ASSUME NEW b \in Block PROVE code[b] # <<>> /\ Branches(b) = {Len(code[b])}
      <3>1. Ended(code[b]) /\ code[b] \in Seq(Instrs)
        BY <2>1, ElementOfSeq DEF Block, NBlocks, Finished, Codes
      <3> QED BY <3>1, EndedBranches
    <2> QED BY <1>3, <2>1, <2>2, <2>3, EdgesTargets DEF ClosedGraph, Finished, Block, NBlocks
  <1> QED BY <1>1, <1>2, <1>3 DEF IInv

(* A finished function is closed: all its blocks are started and end in    *)
(* their terminator, and every branch stays inside, never at the entry.    *)
THEOREM Closed == Spec => []ClosedGraph
  BY Invariance, IInvClosedGraph, PTL

LEMMA IInvLoopsMatch == IInv => LoopsMatch
  <1> SUFFICES ASSUME IInv PROVE LoopsMatch OBVIOUS
  <1>1. /\ Bodies = BodiesOf(stack) /\ \A i : Nesting(i) = NestingIn(stack, i)
        /\ \A i : LoopOf(stack[i]) = [continueTo |-> stack[i].back, breakTo |-> stack[i].end]
    BY DEF Bodies, BodiesOf, Nesting, NestingIn, LoopOf
  <1>2. CASE phase = "emit"
    <2>1. LoopsInv(stack, loops, Len(code)) BY <1>2 DEF IInv, Building, Builder
    <2> QED BY <1>1, <2>1 DEF LoopsInv, LoopsMatch, LoopDepth
  <1>3. CASE phase # "emit"
    <2>1. stack = <<>> /\ loops = <<>> BY <1>3 DEF IInv
    <2>2. Bodies = {} /\ Len(loops) = 0 BY <2>1 DEF Bodies
    <2>3. Cardinality({}) = 0 BY FS_EmptySet
    <2> QED BY <2>2, <2>3 DEF LoopsMatch, LoopDepth
  <1> QED BY <1>2, <1>3

(* loops_ is the list of the loops whose body the walk is in: break and    *)
(* continue, which Sema let through by its own count, find the right one.  *)
THEOREM LoopsMirrored == Spec => []LoopsMatch
  BY Invariance, IInvLoopsMatch, PTL

(* What a step may never do: write a block that has its terminator.        *)
Seals(d) == \A b \in Block : IsTerminated(code[b]) => d[b] = code[b]

LEMMA SealsFacts ==
  ASSUME Building, NEW i, NEW k \in Nat
  PROVE  /\ ~IsTerminated(code[insert]) /\ DOMAIN code = Block
         /\ Seals(code) /\ Seals(Add(code, insert, i)) /\ Seals(BranchTo(code, i))
         /\ Seals(Blocks(code, k)) /\ Seals(Add(Blocks(code, k), insert, i))
  <1>1. /\ code \in Codes /\ insert \in 1..Len(code) /\ Open(code[insert]) /\ Len(code) \in Nat
        /\ DOMAIN code = 1..Len(code)
    BY BuilderFacts, LenProperties DEF Building, Builder, Graph, Codes
  <1>2. ~IsTerminated(code[insert])
    <2>1. code[insert] \in Seq(Instrs) BY <1>1, ElementOfSeq DEF Codes
    <2>2. code[insert] # <<>> => Len(code[insert]) \in 1..Len(code[insert]) BY <2>1, EmptySeq
    <2> QED BY <1>1, <2>2 DEF Open, IsTerminated
  <1>3. ASSUME NEW j PROVE Seals(Add(code, insert, j))
    BY <1>1, <1>2 DEF Add, Seals, Block, NBlocks
  <1>4. Seals(code) BY DEF Seals
  <1>5. Seals(BranchTo(code, i)) BY <1>3, <1>4 DEF BranchTo
  <1> DEFINE c == Blocks(code, k)
  <1>6. c \in Codes /\ Len(c) = Len(code) + k /\ \A b \in 1..Len(code) : c[b] = code[b]
    BY <1>1, BlocksFacts
  <1>7. DOMAIN c = 1..Len(c) BY <1>6, LenProperties DEF Codes
  <1> HIDE DEF c
  <1>8. Seals(c) BY <1>6 DEF Seals, Block, NBlocks
  <1>9. Seals(Add(c, insert, i))
    <2> SUFFICES ASSUME NEW b \in 1..Len(code), IsTerminated(code[b])
                 PROVE  Add(c, insert, i)[b] = code[b]
      BY DEF Seals, Block, NBlocks
    <2>1. b # insert /\ b \in DOMAIN c BY <1>1, <1>2, <1>6, <1>7
    <2> QED BY <2>1, <1>6 DEF Add
  <1> QED BY <1>1, <1>2, <1>3, <1>4, <1>5, <1>8, <1>9 DEF c, Block, NBlocks

LEMMA SealsRhs ==
  ASSUME Building, LogicalRhs
  PROVE  Seals(code')
  <1> DEFINE i == Phi(Node, {Incoming(Top.back, 0, Top.k = "orRhs"),
                             Incoming(insert, value, FALSE)})
             c == Add(code, insert, Br(Top.end))
  <1>1. Walking /\ Top.k \in {"andRhs", "orRhs"} /\ code' = Add(c, Top.end, i)
    BY DEF LogicalRhs
  <1>2. Builder(Popped, code, placed, insert, loops, Owed(Top)) /\ FrameOK(Top, Len(code))
    BY <1>1, PopBase
  <1>3. Top.end \in Owed(Top) BY <1>1, <1>2 DEF FrameOK, Owed
  <1>4. Top.end \in (1..Len(code)) \ placed BY <1>2, <1>3, BuilderFacts
  <1>5. ~IsTerminated(code[Top.end])
    <2>1. code[Top.end] = <<>> BY <1>2, <1>4 DEF Builder, Graph
    <2> QED BY <2>1 DEF IsTerminated
  <1>6. Seals(c) /\ DOMAIN code = Block BY SealsFacts, 0 \in Nat
  <1>7. DOMAIN c = Block BY <1>6 DEF Add
  <1> HIDE DEF c, i
  <1>8. Seals(Add(c, Top.end, i)) BY <1>5, <1>6, <1>7 DEF Add, Seals
  <1> QED BY <1>1, <1>8

LEMMA SealsStep ==
  ASSUME IInv, phase = "emit", Next
  PROVE  Seals(code')
  <1>1. Building BY DEF IInv
  <1>2. \/ code' = code \/ (\E i : code' = Add(code, insert, i))
        \/ (\E b : code' = BranchTo(code, b))
        \/ \E k \in {1, 2, 3} : \/ code' = Blocks(code, k)
                                \/ \E i : code' = Add(Blocks(code, k), insert, i)
        \/ LogicalRhs
    <2>1. CASE \E params \in 0..MaxParams : EmitFunction(params)
      BY <2>1 DEF EmitFunction
    <2>2. CASE FinishFunction BY <2>2 DEF FinishFunction
    <2>3. CASE NextFunction BY <2>3 DEF NextFunction
    <2>4. CASE StmtStep
      <3>1. CASE NullStmt \/ ExprStmt \/ Drop \/ (\E h \in BOOLEAN : DeclStmt(h)) \/ CompoundStmt
                 \/ CompoundEnd \/ ReturnStmt
        BY <3>1 DEF NullStmt, ExprStmt, Drop, DeclStmt, CompoundStmt, CompoundEnd, ReturnStmt, ir
      <3>2. CASE LocalInit \/ IfCond \/ WhileCond
        BY <3>2 DEF LocalInit, IfCond, WhileCond
      <3>3. CASE ThenEnd \/ ElseStart \/ ElseEnd \/ BodyEnd
        BY <3>3 DEF ThenEnd, ElseStart, ElseEnd, BodyEnd
      <3>4. CASE \E h \in BOOLEAN : IfStmt(h)
        BY <3>4 DEF IfStmt
      <3>5. CASE WhileStmt \/ BreakStmt \/ ContinueStmt \/ ReturnVoid
                 \/ \E v \in BOOLEAN : ReturnValue(v)
        BY <3>5 DEF WhileStmt, BreakStmt, ContinueStmt, ReturnVoid, ReturnValue, EndAndStartDead
      <3> QED BY <2>4, <3>1, <3>2, <3>3, <3>4, <3>5 DEF StmtStep
    <2>5. CASE ExprStep
      <3>1. CASE Operands \/ OperatorLhs \/ \E k \in {"and", "or"} : Logical(k)
        BY <3>1 DEF Operands, OperatorLhs, Logical, ir
      <3>2. CASE Operator \/ \E slot \in Visible \cup {0} : Leaf(slot)
        BY <3>2 DEF Operator, Leaf
      <3>3. CASE LogicalLhs BY <3>3 DEF LogicalLhs
      <3> QED BY <2>5, <3>1, <3>2, <3>3 DEF ExprStep
    <2> QED BY <2>1, <2>2, <2>3, <2>4, <2>5 DEF Next
  <1>3. {1, 2, 3} \subseteq Nat OBVIOUS
  <1> QED BY <1>1, <1>2, <1>3, SealsFacts, SealsRhs

(* Once a block has its terminator no later step of the walk writes it, so *)
(* nothing that follows a return, break or continue lands behind it.       *)
THEOREM NeverReopened == Spec => Sealed
  <1>1. IInv /\ [Next]_vars =>
          [phase = "emit" => \A b \in Block : IsTerminated(code[b]) => code'[b] = code[b]]_vars
    BY SealsStep DEF Seals
  <1> QED BY <1>1, Invariance, PTL DEF Spec, Sealed

-----------------------------------------------------------------------------
(***************************************************************************)
(* SSA form, for bodies of any size: a phi names the predecessors of its   *)
(* block, and every operand is defined on all paths that reach it.         *)
(*                                                                         *)
(* That block d dominates block b is stated by a set of blocks: one that   *)
(* holds the entry and whatever its members branch to, d excepted, and     *)
(* does not hold b.  What control reaches without entering d is in each    *)
(* such set.                                                               *)
(***************************************************************************)

-----------------------------------------------------------------------------
(* Reachability.                                                           *)

(* The recursion of ReachAvoiding has a solution: the ends of the paths of *)
(* at most n branches.                                                     *)
LEMMA ReachEquation ==
  ASSUME NEW d, NBlocks \in Nat, 1 \in Block, \A b \in Block : Succs(b) \subseteq Block
  PROVE  \E r : /\ r = [n \in Nat |->
                          IF n = 0 THEN {1} \ {d}
                          ELSE r[n - 1] \cup ((UNION {Succs(b) : b \in r[n - 1]}) \ {d})]
  <1> DEFINE Path(m, p) ==
               /\ p[0] = 1 /\ \A k \in 0..m : p[k] # d
               /\ \A k \in 0..m - 1 : p[k + 1] \in Succs(p[k])
             Ends(n) == {x \in Block : \E m \in 0..n : \E p \in [0..m -> Block] :
                                         Path(m, p) /\ p[m] = x}
             r == [n \in Nat |-> Ends(n)]
  <1>1. Ends(0) = {1} \ {d}
    <2>1. ASSUME NEW x \in Ends(0) PROVE x \in {1} \ {d}
      <3>1. PICK m \in 0..0 : \E p \in [0..m -> Block] : Path(m, p) /\ p[m] = x BY <2>1
      <3>2. PICK p \in [0..m -> Block] : Path(m, p) /\ p[m] = x BY <3>1
      <3>3. m = 0 /\ 0 \in 0..0 OBVIOUS
      <3> QED BY <3>2, <3>3
    <2>2. ASSUME 1 # d PROVE 1 \in Ends(0)
      <3> DEFINE p == [k \in 0..0 |-> 1]
      <3>1. p \in [0..0 -> Block] /\ p[0] = 1 OBVIOUS
      <3>2. \A k \in 0..0 : k = 0 OBVIOUS
      <3>3. \A k \in 0..0 - 1 : FALSE OBVIOUS
      <3> HIDE DEF p
      <3>4. Path(0, p) BY <2>2, <3>1, <3>2, <3>3
      <3>5. 0 \in 0..0 OBVIOUS
      <3> QED BY <3>1, <3>4, <3>5
    <2> QED BY <2>1, <2>2
  <1>2. ASSUME NEW n \in Nat \ {0}
        PROVE  Ends(n) = Ends(n - 1) \cup ((UNION {Succs(b) : b \in Ends(n - 1)}) \ {d})
    <2>0. n - 1 \in Nat /\ 0..n - 1 \subseteq 0..n OBVIOUS
    <2>1. ASSUME NEW x \in Ends(n), x \notin Ends(n - 1)
          PROVE  x # d /\ \E b \in Ends(n - 1) : x \in Succs(b)
      <3>1. PICK m \in 0..n : \E p \in [0..m -> Block] : Path(m, p) /\ p[m] = x BY <2>1
      <3>2. PICK p \in [0..m -> Block] : Path(m, p) /\ p[m] = x BY <3>1
      <3>3. m = n
        <4>1. m \notin 0..n - 1 BY <2>1, <3>2
        <4> QED BY <4>1
      <3> DEFINE l == n - 1
                 q == [k \in 0..l |-> p[k]]
      <3>4. /\ 0 \in 0..l /\ l \in 0..l /\ l \in 0..n - 1 /\ n \in 0..n /\ l + 1 = n
            /\ \A k \in 0..l : k \in 0..n
            /\ \A k \in 0..l - 1 : k \in 0..n - 1 /\ k \in 0..l /\ k + 1 \in 0..l
        BY <2>0
      <3>5. q \in [0..l -> Block] /\ \A k \in 0..l : q[k] = p[k] BY <3>2, <3>3, <3>4
      <3> HIDE DEF q
      <3>6. Path(l, q) BY <3>2, <3>3, <3>4, <3>5
      <3>7. q[l] \in Block BY <3>4, <3>5
      <3>8. q[l] \in Ends(l) BY <3>4, <3>5, <3>6, <3>7
      <3>9. x \in Succs(q[l]) /\ x # d BY <3>2, <3>3, <3>4, <3>5
      <3> QED BY <3>8, <3>9
    <2>2. ASSUME NEW x \in Ends(n - 1) PROVE x \in Ends(n) BY <2>0
    <2>3. ASSUME NEW b \in Ends(n - 1), NEW x \in Succs(b), x # d PROVE x \in Ends(n)
      <3>1. PICK m \in 0..n - 1 : \E p \in [0..m -> Block] : Path(m, p) /\ p[m] = b BY <2>3
      <3>2. PICK p \in [0..m -> Block] : Path(m, p) /\ p[m] = b BY <3>1
      <3>3. b \in Block /\ x \in Block BY <2>3
      <3> DEFINE l == m + 1
                 q == [k \in 0..l |-> IF k = l THEN x ELSE p[k]]
      <3>4. /\ m \in Nat /\ l \in 0..n /\ l \in 0..l /\ 0 \in 0..m /\ 0 # l /\ 0 \in 0..l /\ m \in 0..m
            /\ \A k \in 0..m : k \in 0..l /\ k # l
            /\ \A k \in 0..l : k \in 0..m \/ k = l
            /\ \A k \in 0..l - 1 : k \in 0..m /\ (k \in 0..m - 1 \/ k = m)
            /\ \A k \in 0..m - 1 : k + 1 \in 0..m
        BY <2>0
      <3>5. q \in [0..l -> Block] /\ q[l] = x /\ \A k \in 0..m : q[k] = p[k]
        BY <3>2, <3>3, <3>4
      <3> HIDE DEF q
      <3>6. \A k \in 0..l : q[k] # d BY <3>2, <3>4, <3>5, <2>3
      <3>7. \A k \in 0..l - 1 : q[k + 1] \in Succs(q[k])
        <4> SUFFICES ASSUME NEW k \in 0..l - 1 PROVE q[k + 1] \in Succs(q[k]) OBVIOUS
        <4>1. CASE k = m
          <5>1. q[k] = b /\ q[k + 1] = x BY <4>1, <3>2, <3>4, <3>5
          <5> QED BY <5>1, <2>3
        <4>2. CASE k \in 0..m - 1 BY <4>2, <3>2, <3>4, <3>5
        <4> QED BY <4>1, <4>2, <3>4
      <3>8. Path(l, q) BY <3>2, <3>4, <3>5, <3>6, <3>7
      <3> QED BY <3>3, <3>4, <3>5, <3>8
    <2> HIDE DEF Ends
    <2> QED BY <2>1, <2>2, <2>3
  <1> HIDE DEF Ends
  <1>3. \A n \in Nat : r[n] = Ends(n) OBVIOUS
  <1>4. ASSUME NEW n \in Nat
        PROVE  r[n] = IF n = 0 THEN {1} \ {d}
                      ELSE r[n - 1] \cup ((UNION {Succs(b) : b \in r[n - 1]}) \ {d})
    <2>1. CASE n = 0 BY <2>1, <1>1
    <2>2. CASE n # 0
      <3>1. n \in Nat \ {0} /\ n - 1 \in Nat BY <2>2
      <3> QED BY <3>1, <1>2
    <2> QED BY <2>1, <2>2
  <1>5. r = [n \in Nat |-> IF n = 0 THEN {1} \ {d}
                           ELSE r[n - 1] \cup ((UNION {Succs(b) : b \in r[n - 1]}) \ {d})]
    BY <1>4
  <1> QED BY <1>5

(* What control reaches without entering d is inside every set that holds  *)
(* the entry and is closed under branches but for those to d.              *)
LEMMA ReachInside ==
  ASSUME NEW d, NBlocks \in Nat, 1 \in Block, \A b \in Block : Succs(b) \subseteq Block,
         NEW S, {1} \ {d} \subseteq S, \A b \in S : Succs(b) \ {d} \subseteq S
  PROVE  ReachAvoiding(d) \subseteq S
  <1> DEFINE reach[n \in Nat] ==
               IF n = 0 THEN {1} \ {d}
               ELSE reach[n - 1] \cup ((UNION {Succs(b) : b \in reach[n - 1]}) \ {d})
  <1>1. ReachAvoiding(d) = reach[NBlocks] BY DEF ReachAvoiding
  <1>2. reach = [n \in Nat |->
                   IF n = 0 THEN {1} \ {d}
                   ELSE reach[n - 1] \cup ((UNION {Succs(b) : b \in reach[n - 1]}) \ {d})]
    BY ReachEquation
  <1> HIDE DEF reach
  <1>3. \A n \in Nat :
          reach[n] = IF n = 0 THEN {1} \ {d}
                     ELSE reach[n - 1] \cup ((UNION {Succs(b) : b \in reach[n - 1]}) \ {d})
    BY <1>2
  <1> DEFINE B == {n \in Nat : ~(reach[n] \subseteq S)}
  <1>4. B = {}
    <2> SUFFICES ASSUME B # {} PROVE FALSE OBVIOUS
    <2>1. PICK n \in B : \A m \in B : <<m, n>> \notin OpToRel(<, Nat)
      BY WFMin, NatLessThanWellFounded
    <2>2. CASE n = 0 BY <2>2, <1>3
    <2>3. CASE n # 0
      <3>1. n \in Nat /\ n - 1 \in Nat /\ n - 1 < n BY <2>3
      <3>2. <<n - 1, n>> \in OpToRel(<, Nat) BY <3>1 DEF OpToRel
      <3>3. reach[n - 1] \subseteq S BY <2>1, <3>1, <3>2
      <3>4. (UNION {Succs(b) : b \in reach[n - 1]}) \ {d} \subseteq S BY <3>3
      <3>5. reach[n] = reach[n - 1] \cup ((UNION {Succs(b) : b \in reach[n - 1]}) \ {d})
        BY <3>1, <2>3, <1>3
      <3> QED BY <3>3, <3>4, <3>5
    <2> QED BY <2>2, <2>3
  <1> QED BY <1>1, <1>4


-----------------------------------------------------------------------------
(* The graph that c holds, and what it becomes.                            *)

Edge(c, x, y) ==
  \E j \in 1..Len(c[x]) : /\ IsTerminator(c[x][j])
                          /\ \E t \in 1..Len(c[x][j].to) : c[x][j].to[t] = y

(* S shows that every path from the entry to block b enters block d.       *)
Separates(c, S, d, b) ==
  /\ S \subseteq 1..Len(c) /\ (d # 1 => 1 \in S) /\ d \notin S /\ b \notin S
  /\ \A x \in S : \A y : Edge(c, x, y) => y = d \/ y \in S

Dom(c, d, b) == \E S : Separates(c, S, d, b)

(* e is c with more instructions and blocks, in which only b branches to   *)
(* more blocks than it did, to those of T.                                 *)
Grown(c, e, b, T) ==
  /\ Len(c) \in Nat /\ Len(e) \in Nat /\ Len(c) <= Len(e)
  /\ \A x \in 1..Len(c) : /\ Len(c[x]) \in Nat /\ Len(e[x]) \in Nat /\ Len(c[x]) <= Len(e[x])
                          /\ \A j \in 1..Len(c[x]) : e[x][j] = c[x][j]
  /\ \A x \in 1..Len(e) : \A y :
       Edge(e, x, y) <=> (x \in 1..Len(c) /\ Edge(c, x, y)) \/ (x = b /\ y \in T)

LEMMA EdgeSuccs ==
  \A x, y : y \in Succs(x) <=> Edge(code, x, y)
  BY DEF Succs, Edge, Branches, Targets

LEMMA DomDominates ==
  ASSUME Edges(code), Len(code) \in Nat \ {0}, NEW d, NEW b, Dom(code, d, b)
  PROVE  Dominates(d, b)
  <1>1. PICK S : Separates(code, S, d, b) BY DEF Dom
  <1>2. 1 \in Block /\ NBlocks \in Nat BY DEF Block, NBlocks
  <1>3. ASSUME NEW x \in Block PROVE Succs(x) \subseteq Block
    <2> SUFFICES ASSUME NEW y \in Succs(x) PROVE y \in Block OBVIOUS
    <2>1. Edge(code, x, y) BY EdgeSuccs
    <2>2. PICK j \in 1..Len(code[x]) : \E t \in 1..Len(code[x][j].to) : code[x][j].to[t] = y
      BY <2>1 DEF Edge
    <2>3. Into(code[x][j], Len(code)) BY DEF Edges, Block, NBlocks
    <2>4. y \in 2..Len(code) BY <2>2, <2>3 DEF Into
    <2> QED BY <2>4 DEF Block, NBlocks
  <1>4. {1} \ {d} \subseteq S /\ \A x \in S : Succs(x) \ {d} \subseteq S
    BY <1>1, EdgeSuccs DEF Separates
  <1>5. ReachAvoiding(d) \subseteq S BY <1>2, <1>3, <1>4, ReachInside
  <1> QED BY <1>1, <1>5 DEF Separates, Dominates

LEMMA AddGrown ==
  ASSUME NEW c \in Codes, NEW b \in 1..Len(c), NEW i \in Instrs
  PROVE  /\ IsTerminator(i) => Grown(c, Add(c, b, i), b, Targets(i))
         /\ ~IsTerminator(i) => Grown(c, Add(c, b, i), b, {})
  <1> DEFINE e == Add(c, b, i)
             n == Len(c[b]) + 1
             T == IF IsTerminator(i) THEN Targets(i) ELSE {}
  <1>1. /\ e \in Codes /\ Len(e) = Len(c) /\ Len(c) \in Nat /\ Len(c[b]) \in Nat
        /\ Len(e[b]) = n /\ \A j \in 1..Len(c[b]) : e[b][j] = c[b][j]
        /\ e[b][n] = i
        /\ \A x \in 1..Len(c) : x # b => e[x] = c[x]
    BY AddFacts, ZenonT(60)
  <1> HIDE DEF e
  <1>2. \A x \in 1..Len(c) : Len(c[x]) \in Nat
    BY ElementOfSeq, LenProperties DEF Codes
  <1>3. \A j \in 1..n : j \in 1..Len(c[b]) \/ j = n BY <1>1
  <1>4. n \in 1..n /\ \A j \in 1..Len(c[b]) : j \in 1..n BY <1>1
  <1>5. ASSUME NEW x \in 1..Len(c), NEW y
        PROVE  Edge(e, x, y) <=> Edge(c, x, y) \/ (x = b /\ y \in T)
    <2>1. CASE x # b BY <2>1, <1>1 DEF Edge
    <2>2. CASE x = b
      <3>1. y \in T <=> IsTerminator(i) /\ \E t \in 1..Len(i.to) : i.to[t] = y
        BY DEF Targets
      <3>2. Edge(e, b, y) <=> Edge(c, b, y) \/ (IsTerminator(i) /\ \E t \in 1..Len(i.to) : i.to[t] = y)
        BY <1>1, <1>3, <1>4 DEF Edge
      <3> QED BY <2>2, <3>1, <3>2
    <2> QED BY <2>1, <2>2
  <1> HIDE DEF T
  <1>6. Grown(c, e, b, T)
    <2>1. \A x \in 1..Len(c) : Len(e[x]) \in Nat /\ Len(c[x]) <= Len(e[x])
      BY <1>1, <1>2
    <2> QED BY <1>1, <1>2, <1>5, <2>1 DEF Grown
  <1> QED BY <1>6 DEF e, T

LEMMA BlocksGrown ==
  ASSUME NEW c \in Codes, NEW k \in Nat, NEW b
  PROVE  /\ Grown(c, Blocks(c, k), b, {})
         /\ \A x \in Len(c) + 1..Len(c) + k : \A y : ~Edge(Blocks(c, k), x, y)
  <1> DEFINE e == Blocks(c, k)
  <1>1. /\ e \in Codes /\ Len(e) = Len(c) + k /\ Len(c) \in Nat
        /\ \A x \in 1..Len(c) : e[x] = c[x]
        /\ \A x \in Len(c) + 1..Len(c) + k : e[x] = <<>>
    BY BlocksFacts
  <1> HIDE DEF e
  <1>2. \A x \in 1..Len(c) : Len(c[x]) \in Nat
    BY ElementOfSeq, LenProperties DEF Codes
  <1>3. \A x \in 1..Len(e) : x \in 1..Len(c) \/ x \in Len(c) + 1..Len(c) + k BY <1>1
  <1>4. \A x \in Len(c) + 1..Len(c) + k : \A j \in 1..Len(e[x]) : FALSE BY <1>1
  <1>5. \A x \in Len(c) + 1..Len(c) + k : \A y : ~Edge(e, x, y) BY <1>4 DEF Edge
  <1>6. \A x \in 1..Len(c) : \A y : Edge(e, x, y) <=> Edge(c, x, y) BY <1>1 DEF Edge
  <1>7. \A x \in Len(c) + 1..Len(c) + k : x \notin 1..Len(c) BY <1>1
  <1>8. Grown(c, e, b, {})
    <2>1. Len(e) \in Nat /\ Len(c) <= Len(e) BY <1>1
    <2>2. \A x \in 1..Len(c) : Len(c[x]) <= Len(c[x]) BY <1>2
    <2>3. ASSUME NEW x \in 1..Len(e), NEW y
          PROVE  Edge(e, x, y) <=> (x \in 1..Len(c) /\ Edge(c, x, y)) \/ (x = b /\ y \in {})
      BY <1>3, <1>5, <1>6, <1>7
    <2> QED BY <1>1, <1>2, <2>1, <2>2, <2>3 DEF Grown
  <1> QED BY <1>5, <1>8 DEF e

(* Dominance between the blocks of pl survives the step from c to e.       *)
Kept(c, e, pl) == \A b \in pl : \A d : Dom(c, d, b) => Dom(e, d, b)

(* A block dominates itself.                                               *)
LEMMA DomSelf ==
  ASSUME NEW c, Edges(c), Len(c) \in Nat \ {0}, NEW d
  PROVE  Dom(c, d, d)
  <1> DEFINE S == (1..Len(c)) \ {d}
  <1>1. ASSUME NEW x \in S, NEW y, Edge(c, x, y) PROVE y = d \/ y \in S
    <2>1. PICK j \in 1..Len(c[x]) : \E t \in 1..Len(c[x][j].to) : c[x][j].to[t] = y
      BY <1>1 DEF Edge
    <2>2. Into(c[x][j], Len(c)) BY DEF Edges
    <2>3. y \in 2..Len(c) BY <2>1, <2>2 DEF Into
    <2>4. y \in 1..Len(c) BY <2>3
    <2> QED BY <2>4
  <1>2. 1 \in 1..Len(c) OBVIOUS
  <1>3. Separates(c, S, d, d) BY <1>1, <1>2 DEF Separates
  <1> QED BY <1>3 DEF Dom

(* Branches to blocks that do not branch yet, and are not in pl.           *)
LEMMA KeptForward ==
  ASSUME NEW c, NEW e, NEW b, NEW T, Grown(c, e, b, T), T \subseteq 1..Len(e),
         \A t \in T : \A y : ~Edge(e, t, y),
         NEW pl, pl \cap T = {}
  PROVE  Kept(c, e, pl)
  <1> SUFFICES ASSUME NEW z \in pl, NEW d, Dom(c, d, z) PROVE Dom(e, d, z) BY DEF Kept
  <1>1. PICK S : Separates(c, S, d, z) BY DEF Dom
  <1> DEFINE U == IF b \in S THEN S \cup (T \ {d}) ELSE S
  <1>2. 1..Len(c) \subseteq 1..Len(e) BY DEF Grown
  <1>3. U \subseteq 1..Len(e) /\ (d # 1 => 1 \in U) /\ d \notin U /\ z \notin U
    BY <1>1, <1>2 DEF Separates
  <1>4. ASSUME NEW x \in U, NEW y, Edge(e, x, y) PROVE y = d \/ y \in U
    <2>1. x \in S BY <1>4
    <2>2. x \in 1..Len(c) /\ x \in 1..Len(e) BY <2>1, <1>1, <1>2 DEF Separates
    <2>3. Edge(c, x, y) \/ (x = b /\ y \in T) BY <1>4, <2>2 DEF Grown
    <2>4. CASE Edge(c, x, y)
      <3>1. y = d \/ y \in S BY <2>1, <2>4, <1>1 DEF Separates
      <3> QED BY <3>1
    <2>5. CASE x = b /\ y \in T BY <2>1, <2>5
    <2> QED BY <2>3, <2>4, <2>5
  <1> HIDE DEF U
  <1>5. Separates(e, U, d, z) BY <1>3, <1>4 DEF Separates
  <1> QED BY <1>5 DEF Dom

(* A branch back to h, which is all that leads on past h.                  *)
LEMMA KeptBack ==
  ASSUME NEW c, NEW e, NEW b \in Nat, NEW h \in Nat, Grown(c, e, b, {h}),
         2 <= h, h <= b,
         \A x \in 1..Len(c) : \A y \in Nat : Edge(c, x, y) /\ y > h => x >= h,
         NEW pl
  PROVE  Kept(c, e, pl)
  <1> SUFFICES ASSUME NEW z \in pl, NEW d, Dom(c, d, z) PROVE Dom(e, d, z) BY DEF Kept
  <1>1. PICK S : Separates(c, S, d, z) BY DEF Dom
  <1>2. 1..Len(c) \subseteq 1..Len(e) /\ Len(c) \in Nat BY DEF Grown
  <1>3. CASE b \in S /\ h \notin S /\ h # d
    <2> DEFINE U == {x \in S : x < h}
    <2>1. U \subseteq 1..Len(e) /\ d \notin U /\ z \notin U BY <1>1, <1>2 DEF Separates
    <2>2. d # 1 => 1 \in U BY <1>1 DEF Separates
    <2>3. ASSUME NEW x \in U, NEW y, Edge(e, x, y) PROVE y = d \/ y \in U
      <3>1. x \in S /\ x \in 1..Len(c) /\ x \in Nat /\ x < h /\ x # b
        BY <1>1, <1>2, <2>3 DEF Separates
      <3>2. Edge(c, x, y) BY <3>1, <1>2, <2>3 DEF Grown
      <3>3. y = d \/ y \in S BY <3>1, <3>2, <1>1 DEF Separates
      <3>4. CASE y \in S
        <4>1. y \in Nat /\ y # h BY <3>4, <1>1, <1>2, <1>3 DEF Separates
        <4>2. ~(y > h) BY <4>1, <3>1, <3>2
        <4> QED BY <4>1, <4>2, <3>4
      <3> QED BY <3>3, <3>4
    <2> HIDE DEF U
    <2>4. Separates(e, U, d, z) BY <2>1, <2>2, <2>3 DEF Separates
    <2> QED BY <2>4 DEF Dom
  <1>4. CASE b \notin S \/ h \in S \/ h = d
    <2>1. ASSUME NEW x \in S, NEW y, Edge(e, x, y) PROVE y = d \/ y \in S
      <3>1. x \in 1..Len(c) BY <1>1 DEF Separates
      <3>2. Edge(c, x, y) \/ (x = b /\ y = h) BY <3>1, <1>2, <2>1 DEF Grown
      <3>3. CASE Edge(c, x, y) BY <3>3, <1>1 DEF Separates
      <3> QED BY <3>2, <3>3, <1>4
    <2>2. Separates(e, S, d, z) BY <2>1, <1>1, <1>2 DEF Separates
    <2> QED BY <2>2 DEF Dom
  <1> QED BY <1>3, <1>4

(* What dominates both ends of the branches into z dominates z.            *)
LEMMA DomJoin ==
  ASSUME NEW c, NEW e, NEW b, NEW T, Grown(c, e, b, T),
         NEW z, z # 1, NEW a, \A x \in 1..Len(c) : Edge(c, x, z) => x = a,
         NEW d, Dom(c, d, a), Dom(c, d, b)
  PROVE  Dom(e, d, z)
  <1>1. PICK A : Separates(c, A, d, a) BY DEF Dom
  <1>2. PICK B : Separates(c, B, d, b) BY DEF Dom
  <1> DEFINE S == (A \cap B) \ {z}
  <1>3. 1..Len(c) \subseteq 1..Len(e) BY DEF Grown
  <1>4. S \subseteq 1..Len(e) /\ (d # 1 => 1 \in S) /\ d \notin S /\ z \notin S
    BY <1>1, <1>2, <1>3 DEF Separates
  <1>5. ASSUME NEW x \in S, NEW y, Edge(e, x, y) PROVE y = d \/ y \in S
    <2>1. x \in 1..Len(c) /\ x # a /\ x # b /\ x \in A /\ x \in B BY <1>1, <1>2 DEF Separates
    <2>2. Edge(c, x, y) BY <2>1, <1>3, <1>5 DEF Grown
    <2>3. y # z BY <2>1, <2>2
    <2>4. y = d \/ y \in A BY <2>1, <2>2, <1>1 DEF Separates
    <2>5. y = d \/ y \in B BY <2>1, <2>2, <1>2 DEF Separates
    <2> QED BY <2>3, <2>4, <2>5
  <1> HIDE DEF S
  <1>6. Separates(e, S, d, z) BY <1>4, <1>5 DEF Separates
  <1> QED BY <1>6 DEF Dom

-----------------------------------------------------------------------------
(* What the instructions of c may say.                                     *)

Defines(is, v) == \E i \in 1..Len(is) : is[i].def = v

(* v is a slot or is computed on every path to the end of b.               *)
Reaches(c, sl, v, b) ==
  v \in sl \/ \E d \in 1..Len(c) : Defines(c[d], v) /\ Dom(c, d, b)

Before(c, sl, v, b, j) ==
  \/ v \in sl
  \/ \E d \in 1..Len(c) : \E i \in 1..Len(c[d]) :
       c[d][i].def = v /\ IF d = b THEN i < j ELSE Dom(c, d, b)

Uses(c, pl, sl) ==
  \A b \in 1..Len(c) : \A j \in 1..Len(c[b]) :
    /\ \A v \in c[b][j].use : Before(c, sl, v, b, j)
    /\ \A in \in c[b][j].phi : in.from \in pl /\ (in.v # 0 => Reaches(c, sl, in.v, in.from))

(* A phi stands first in its block and names the two blocks that branch    *)
(* to it.                                                                  *)
Names(phi, x, y) ==
  x # y /\ \E v, k, w, l : phi = {Incoming(x, v, k), Incoming(y, w, l)}

Phis(c) ==
  \A b \in 1..Len(c) : \A j \in 1..Len(c[b]) : c[b][j].op = "phi" =>
    /\ j = 1
    /\ \E x, y \in 1..Len(c) : /\ Names(c[b][j].phi, x, y)
                               /\ \A z \in 1..Len(c) : Edge(c, z, b) <=> z = x \/ z = y

(* The blocks that are not in pl are empty.                                *)
Blank(c, pl) == \A b \in (1..Len(c)) \ pl : c[b] = <<>>

Exits(i) == IF IsTerminator(i) THEN Targets(i) ELSE {}

LEMMA AddEdges ==
  ASSUME NEW c \in Codes, NEW b \in 1..Len(c), NEW i \in Instrs
  PROVE  Grown(c, Add(c, b, i), b, Exits(i))
  BY AddGrown DEF Exits

(* A value that was computed still is.                                     *)
LEMMA ReachesKept ==
  ASSUME NEW c, NEW e, NEW b, NEW T, Grown(c, e, b, T), NEW pl, Kept(c, e, pl),
         NEW x \in pl, NEW sl, NEW v, Reaches(c, sl, v, x)
  PROVE  Reaches(e, sl, v, x)
  <1>1. CASE v \in sl BY <1>1 DEF Reaches
  <1>2. CASE \E d \in 1..Len(c) : Defines(c[d], v) /\ Dom(c, d, x)
    <2>1. PICK d \in 1..Len(c) : Defines(c[d], v) /\ Dom(c, d, x) BY <1>2
    <2>2. d \in 1..Len(e) /\ 1..Len(c[d]) \subseteq 1..Len(e[d])
          /\ \A j \in 1..Len(c[d]) : e[d][j] = c[d][j]
      BY DEF Grown
    <2>3. Defines(e[d], v) BY <2>1, <2>2 DEF Defines
    <2>4. Dom(e, d, x) BY <2>1 DEF Kept
    <2> QED BY <2>2, <2>3, <2>4 DEF Reaches
  <1> QED BY <1>1, <1>2 DEF Reaches

LEMMA BeforeKept ==
  ASSUME NEW c, NEW e, NEW b, NEW T, Grown(c, e, b, T), NEW pl, Kept(c, e, pl),
         NEW x \in pl, NEW sl, NEW v, NEW j, Before(c, sl, v, x, j)
  PROVE  Before(e, sl, v, x, j)
  <1>1. CASE v \in sl BY <1>1 DEF Before
  <1>2. CASE \E d \in 1..Len(c) : \E i \in 1..Len(c[d]) :
               c[d][i].def = v /\ IF d = x THEN i < j ELSE Dom(c, d, x)
    <2>1. PICK d \in 1..Len(c) : \E i \in 1..Len(c[d]) :
                 c[d][i].def = v /\ IF d = x THEN i < j ELSE Dom(c, d, x)
      BY <1>2
    <2>2. PICK i \in 1..Len(c[d]) : c[d][i].def = v /\ IF d = x THEN i < j ELSE Dom(c, d, x)
      BY <2>1
    <2>3. d \in 1..Len(e) /\ i \in 1..Len(e[d]) /\ e[d][i] = c[d][i] BY DEF Grown
    <2>4. IF d = x THEN i < j ELSE Dom(e, d, x) BY <2>2 DEF Kept
    <2>5. e[d][i].def = v BY <2>2, <2>3
    <2> HIDE DEF Dom
    <2> QED BY <2>3, <2>4, <2>5 DEF Before
  <1> QED BY <1>1, <1>2 DEF Before

LEMMA UsesSlots ==
  ASSUME NEW c, NEW pl, NEW sl, NEW sm, Uses(c, pl, sl), sl \subseteq sm
  PROVE  Uses(c, pl, sm)
  BY DEF Uses, Before, Reaches

(* One instruction more at the end of b.                                   *)
LEMMA UsesAdd ==
  ASSUME NEW c \in Codes, NEW b \in 1..Len(c), NEW i \in Instrs,
         NEW pl, NEW sl, Uses(c, pl, sl), Blank(c, pl), Kept(c, Add(c, b, i), pl),
         NEW pm, pl \subseteq pm,
         \A v \in i.use : \/ v \in sl \/ Defines(c[b], v)
                          \/ b \in pl /\ \E d \in 1..Len(c) : Defines(c[d], v) /\ Dom(c, d, b),
         \A in \in i.phi : in.from \in pl /\ (in.v # 0 => Reaches(c, sl, in.v, in.from))
  PROVE  Uses(Add(c, b, i), pm, sl)
  <1> DEFINE e == Add(c, b, i)
             n == Len(c[b]) + 1
  <1>1. /\ Len(e) = Len(c) /\ Len(c[b]) \in Nat /\ Len(e[b]) = n
        /\ \A j \in 1..Len(c[b]) : e[b][j] = c[b][j]
        /\ e[b][n] = i
        /\ \A x \in 1..Len(c) : x # b => e[x] = c[x]
    BY AddFacts, ZenonT(60)
  <1>2. Grown(c, e, b, Exits(i)) BY AddEdges
  <1> HIDE DEF e
  <1>3. ASSUME NEW x \in 1..Len(c), NEW j \in 1..Len(c[x]), e[x][j] = c[x][j]
        PROVE  /\ \A v \in e[x][j].use : Before(e, sl, v, x, j)
               /\ \A in \in e[x][j].phi :
                    in.from \in pm /\ (in.v # 0 => Reaches(e, sl, in.v, in.from))
    <2>1. x \in pl
      <3>1. c[x] # <<>> OBVIOUS
      <3> QED BY <3>1 DEF Blank
    <2>2. Kept(c, e, pl) BY DEF e
    <2>3. \A v \in c[x][j].use : Before(e, sl, v, x, j)
      BY <1>2, <2>1, <2>2, BeforeKept DEF Uses
    <2>4. \A in \in c[x][j].phi : in.from \in pl /\ (in.v # 0 => Reaches(e, sl, in.v, in.from))
      BY <1>2, <2>2, ReachesKept DEF Uses
    <2> QED BY <1>3, <2>3, <2>4
  <1>4. \A v \in i.use : Before(e, sl, v, b, n)
    <2> SUFFICES ASSUME NEW v \in i.use PROVE Before(e, sl, v, b, n) OBVIOUS
    <2>1. CASE v \in sl BY <2>1 DEF Before
    <2>2. CASE Defines(c[b], v)
      <3>1. PICK m \in 1..Len(c[b]) : c[b][m].def = v BY <2>2 DEF Defines
      <3>2. b \in 1..Len(e) /\ m \in 1..Len(e[b]) /\ e[b][m].def = v /\ m < n BY <3>1, <1>1
      <3> QED BY <3>2 DEF Before
    <2>3. CASE b \in pl /\ \E d \in 1..Len(c) : Defines(c[d], v) /\ Dom(c, d, b)
      <3>1. PICK d \in 1..Len(c) : Defines(c[d], v) /\ Dom(c, d, b) BY <2>3
      <3>2. CASE d = b BY <3>1, <3>2, <2>2
      <3>3. CASE d # b
        <4>1. PICK m \in 1..Len(c[d]) : c[d][m].def = v BY <3>1 DEF Defines
        <4>2. d \in 1..Len(e) /\ m \in 1..Len(e[d]) /\ e[d][m].def = v BY <4>1, <3>3, <1>1
        <4>3. Dom(e, d, b) BY <2>3, <3>1 DEF Kept, e
        <4> QED BY <3>3, <4>2, <4>3 DEF Before
      <3> QED BY <3>2, <3>3
    <2> QED BY <2>1, <2>2, <2>3
  <1>5. \A in \in i.phi : in.from \in pm /\ (in.v # 0 => Reaches(e, sl, in.v, in.from))
    <2>1. Kept(c, e, pl) BY DEF e
    <2> QED BY <1>2, <2>1, ReachesKept
  <1>6. ASSUME NEW x \in 1..Len(e), NEW j \in 1..Len(e[x])
        PROVE  /\ \A v \in e[x][j].use : Before(e, sl, v, x, j)
               /\ \A in \in e[x][j].phi :
                    in.from \in pm /\ (in.v # 0 => Reaches(e, sl, in.v, in.from))
    <2>1. CASE x = b /\ j = n BY <2>1, <1>1, <1>4, <1>5
    <2>2. CASE x # b \/ j # n
      <3>1. x \in 1..Len(c) /\ j \in 1..Len(c[x]) /\ e[x][j] = c[x][j]
        <4>1. CASE x # b BY <4>1, <1>1
        <4>2. CASE x = b BY <4>2, <2>2, <1>1
        <4> QED BY <4>1, <4>2
      <3> QED BY <3>1, <1>3
    <2> QED BY <2>1, <2>2
  <1>7. Uses(e, pm, sl) BY <1>6 DEF Uses
  <1> QED BY <1>7 DEF e

LEMMA UsesBlocks ==
  ASSUME NEW c \in Codes, NEW k \in Nat, NEW pl, NEW sl, Uses(c, pl, sl), Blank(c, pl)
  PROVE  Uses(Blocks(c, k), pl, sl) /\ Blank(Blocks(c, k), pl) /\ Kept(c, Blocks(c, k), pl)
  <1> DEFINE e == Blocks(c, k)
  <1>1. /\ Len(c) \in Nat /\ Len(e) = Len(c) + k
        /\ \A x \in 1..Len(c) : e[x] = c[x]
        /\ \A x \in Len(c) + 1..Len(c) + k : e[x] = <<>>
    BY BlocksFacts
  <1>2. Grown(c, e, 0, {}) BY BlocksGrown
  <1> HIDE DEF e
  <1>3. Kept(c, e, pl) BY <1>2, KeptForward
  <1>4. \A x \in 1..Len(e) : x \in 1..Len(c) \/ e[x] = <<>>
    <2>1. \A x \in 1..Len(e) : x \in 1..Len(c) \/ x \in Len(c) + 1..Len(c) + k BY <1>1
    <2> QED BY <1>1, <2>1
  <1>5. Blank(e, pl) BY <1>1, <1>4 DEF Blank
  <1>6. ASSUME NEW x \in 1..Len(e), NEW j \in 1..Len(e[x])
        PROVE  /\ \A v \in e[x][j].use : Before(e, sl, v, x, j)
               /\ \A in \in e[x][j].phi :
                    in.from \in pl /\ (in.v # 0 => Reaches(e, sl, in.v, in.from))
    <2>1. e[x] # <<>> OBVIOUS
    <2>2. x \in 1..Len(c) /\ e[x] = c[x] BY <2>1, <1>1, <1>4
    <2>3. x \in pl BY <2>1, <2>2 DEF Blank
    <2>4. \A v \in c[x][j].use : Before(e, sl, v, x, j)
      BY <1>2, <1>3, <2>2, <2>3, BeforeKept DEF Uses
    <2>5. \A in \in c[x][j].phi : in.from \in pl /\ (in.v # 0 => Reaches(e, sl, in.v, in.from))
      BY <1>2, <1>3, <2>2, ReachesKept DEF Uses
    <2> QED BY <2>2, <2>4, <2>5
  <1>7. Uses(e, pl, sl) BY <1>6 DEF Uses
  <1> QED BY <1>3, <1>5, <1>7 DEF e

NoPhi(is) == \A j \in 1..Len(is) : is[j].op # "phi"

(* The phi of a block b, whose predecessors are x and y.                   *)
LEMMA PhisAdd ==
  ASSUME NEW c \in Codes, NEW b \in 1..Len(c), NEW i \in Instrs, Phis(c),
         \A t \in Exits(i) : t \in 1..Len(c) => NoPhi(c[t]),
         i.op = "phi" =>
           /\ c[b] = <<>> /\ ~IsTerminator(i)
           /\ \E x, y \in 1..Len(c) : /\ Names(i.phi, x, y)
                                      /\ \A z \in 1..Len(c) : Edge(c, z, b) <=> z = x \/ z = y
  PROVE  Phis(Add(c, b, i))
  <1> DEFINE e == Add(c, b, i)
             n == Len(c[b]) + 1
  <1>1. /\ Len(e) = Len(c) /\ Len(c[b]) \in Nat /\ Len(e[b]) = n
        /\ \A j \in 1..Len(c[b]) : e[b][j] = c[b][j]
        /\ e[b][n] = i
        /\ \A x \in 1..Len(c) : x # b => e[x] = c[x]
    BY AddFacts, ZenonT(60)
  <1>2. Grown(c, e, b, Exits(i)) BY AddEdges
  <1> HIDE DEF e
  <1> DEFINE Good(x, j) ==
               /\ j = 1
               /\ \E v, w \in 1..Len(e) : /\ Names(e[x][j].phi, v, w)
                                          /\ \A z \in 1..Len(e) : Edge(e, z, x) <=> z = v \/ z = w
  <1>3. ASSUME NEW x \in 1..Len(c), NEW j \in 1..Len(c[x]), e[x][j] = c[x][j], e[x][j].op = "phi"
        PROVE  Good(x, j)
    <2>1. c[x][j].op = "phi" BY <1>3
    <2>2. j = 1 BY <2>1 DEF Phis
    <2>3. PICK v, w \in 1..Len(c) : /\ Names(c[x][j].phi, v, w)
                                    /\ \A z \in 1..Len(c) : Edge(c, z, x) <=> z = v \/ z = w
      BY <2>1 DEF Phis
    <2>4. x \notin Exits(i) BY <2>1 DEF NoPhi
    <2>5. \A z \in 1..Len(e) : Edge(e, z, x) <=> Edge(c, z, x) BY <1>1, <1>2, <2>4 DEF Grown
    <2>6. \A z \in 1..Len(e) : Edge(e, z, x) <=> z = v \/ z = w BY <1>1, <2>3, <2>5
    <2>7. Names(e[x][j].phi, v, w) BY <1>3, <2>3
    <2>8. v \in 1..Len(e) /\ w \in 1..Len(e) BY <1>1
    <2> QED BY <2>2, <2>6, <2>7, <2>8
  <1>4. ASSUME i.op = "phi" PROVE Good(b, n)
    <2>1. PICK v, w \in 1..Len(c) : /\ Names(i.phi, v, w)
                                    /\ \A z \in 1..Len(c) : Edge(c, z, b) <=> z = v \/ z = w
      BY <1>4
    <2>2. Exits(i) = {} /\ n = 1 BY <1>4 DEF Exits
    <2>3. \A z \in 1..Len(e) : Edge(e, z, b) <=> Edge(c, z, b) BY <1>1, <1>2, <2>2 DEF Grown
    <2>4. \A z \in 1..Len(e) : Edge(e, z, b) <=> z = v \/ z = w BY <1>1, <2>1, <2>3
    <2>5. Names(e[b][n].phi, v, w) BY <1>1, <2>1
    <2>6. v \in 1..Len(e) /\ w \in 1..Len(e) BY <1>1
    <2> QED BY <2>2, <2>4, <2>5, <2>6
  <1>5. ASSUME NEW x \in 1..Len(e), NEW j \in 1..Len(e[x]), e[x][j].op = "phi"
        PROVE  Good(x, j)
    <2> HIDE DEF Good
    <2>1. CASE x = b /\ j = n BY <2>1, <1>1, <1>4, <1>5
    <2>2. CASE x # b \/ j # n
      <3>1. x \in 1..Len(c) /\ j \in 1..Len(c[x]) /\ e[x][j] = c[x][j]
        <4>1. CASE x # b BY <4>1, <1>1
        <4>2. CASE x = b BY <4>2, <2>2, <1>1
        <4> QED BY <4>1, <4>2
      <3> QED BY <3>1, <1>3, <1>5
    <2> QED BY <2>1, <2>2
  <1>6. Phis(e) BY <1>5 DEF Phis
  <1> QED BY <1>6 DEF e

LEMMA PhisBlocks ==
  ASSUME NEW c \in Codes, NEW k \in Nat, Phis(c)
  PROVE  Phis(Blocks(c, k))
  <1> DEFINE e == Blocks(c, k)
  <1>1. /\ Len(c) \in Nat /\ Len(e) = Len(c) + k
        /\ \A x \in 1..Len(c) : e[x] = c[x]
        /\ \A x \in Len(c) + 1..Len(c) + k : e[x] = <<>>
    BY BlocksFacts
  <1>2. /\ \A x \in 1..Len(c) : \A y : Edge(e, x, y) <=> Edge(c, x, y)
        /\ \A x \in Len(c) + 1..Len(c) + k : \A y : ~Edge(e, x, y)
    <2>1. Grown(c, e, 0, {}) /\ \A x \in Len(c) + 1..Len(c) + k : \A y : ~Edge(e, x, y)
      BY BlocksGrown
    <2>2. 1..Len(c) \subseteq 1..Len(e) BY <1>1
    <2> QED BY <2>1, <2>2 DEF Grown
  <1> HIDE DEF e
  <1>3. \A x \in 1..Len(e) : x \in 1..Len(c) \/ x \in Len(c) + 1..Len(c) + k BY <1>1
  <1>4. \A x \in 1..Len(c) : x \in 1..Len(e) /\ x \notin Len(c) + 1..Len(c) + k BY <1>1
  <1>5. ASSUME NEW x \in 1..Len(e), NEW j \in 1..Len(e[x]), e[x][j].op = "phi"
        PROVE  /\ j = 1
               /\ \E v, w \in 1..Len(e) : /\ Names(e[x][j].phi, v, w)
                                          /\ \A z \in 1..Len(e) : Edge(e, z, x) <=> z = v \/ z = w
    <2>1. e[x] # <<>> OBVIOUS
    <2>2. x \in 1..Len(c) /\ e[x] = c[x] BY <2>1, <1>1, <1>3
    <2>3. j \in 1..Len(c[x]) /\ c[x][j].op = "phi" BY <2>2, <1>5
    <2>4. j = 1 BY <2>2, <2>3 DEF Phis
    <2>5. PICK v, w \in 1..Len(c) : /\ Names(c[x][j].phi, v, w)
                                    /\ \A z \in 1..Len(c) : Edge(c, z, x) <=> z = v \/ z = w
      BY <2>2, <2>3 DEF Phis
    <2>6. v \in 1..Len(e) /\ w \in 1..Len(e) /\ Names(e[x][j].phi, v, w) BY <2>2, <2>5, <1>4
    <2>7. \A z \in 1..Len(e) : Edge(e, z, x) <=> z = v \/ z = w
      BY <1>2, <1>3, <1>4, <2>5
    <2> QED BY <2>4, <2>6, <2>7
  <1>6. Phis(e) BY <1>5 DEF Phis
  <1> QED BY <1>6 DEF e

-----------------------------------------------------------------------------
(* What the activations rely on.                                           *)

ExprKinds == {"expr", "op", "opRhs", "and", "or", "andRhs", "orRhs"}
Joins     == {"andRhs", "orRhs"}
Loopers   == {"whileCond", "bodyEnd"}
(* Those that take the value of what is evaluated above them.              *)
Eaters    == {"init", "return", "op", "opRhs", "and", "or", "andRhs", "orRhs", "ifCond", "whileCond"}
Hungry    == Eaters \cup {"drop"}

(* Only parts of an expression stand above one that waits for a value.     *)
Nested(st) ==
  \A i, j \in 1..Len(st) : i < j /\ st[i].k \in Hungry => st[j].k \in ExprKinds

Fed(st) == \A i \in 1..Len(st) : st[i].k \notin Hungry

(* Control passes h on the way to every block behind it.                   *)
LoopHead(c, pl, ins, h) ==
  /\ h \in pl /\ 2 <= h /\ h <= ins /\ NoPhi(c[h])
  /\ \A x \in 1..Len(c) : \A y \in Nat : Edge(c, x, y) /\ y > h => x >= h

Held(f, c, pl, ins, sl) ==
  /\ f.k = "init" => f.saved \in sl
  /\ f.k \in Joins => /\ f.back \in pl \ {ins}
                      /\ \A x \in 1..Len(c) : Edge(c, x, f.end) <=> x = f.back
  /\ f.k \in Loopers => LoopHead(c, pl, ins, f.back)

(* What is yet to be started inside a loop stands behind its head.         *)
Ahead(st, D) ==
  \A i \in 1..Len(st) : st[i].k \in Loopers =>
    /\ \A j \in 1..Len(st) : i <= j => \A o \in Owed(st[j]) : o > st[i].back
    /\ \A o \in D : o > st[i].back

(* A left operand that waits for its right one is computed on every path   *)
(* to the blocks of R, and to those its right operand will come from.      *)
Live(st, c, pl, R) ==
  \A i \in 1..Len(st) : st[i].k = "opRhs" =>
    \E d \in pl : /\ Defines(c[d], st[i].saved)
                  /\ \A r \in R : Dom(c, d, r)
                  /\ \A j \in 1..Len(st) : i < j /\ st[j].k \in Joins => Dom(c, d, st[j].back)

Sound(st, c, pl, ins, sl, D, R) ==
  /\ Nested(st) /\ Ahead(st, D) /\ Live(st, c, pl, R)
  /\ \A i \in 1..Len(st) : Held(st[i], c, pl, ins, sl)

(* The step takes over what the innermost activation owes and relies on.   *)
LEMMA SoundPop ==
  ASSUME NEW st \in Stacks, st # <<>>, NEW c, NEW pl, NEW ins, NEW sl,
         Sound(st, c, pl, ins, sl, {}, {ins})
  PROVE  LET f == st[Len(st)]
             s == SubSeq(st, 1, Len(st) - 1)
             R == IF f.k \in Joins THEN {ins, f.back} ELSE {ins}
         IN  /\ Sound(s, c, pl, ins, sl, Owed(f), R) /\ Held(f, c, pl, ins, sl)
             /\ f.k \in Loopers => \A o \in Owed(f) : o > f.back
             /\ f.k = "opRhs" => \E d \in pl : Defines(c[d], f.saved) /\ Dom(c, d, ins)
             /\ f.k \notin ExprKinds => Fed(s)
  <1> DEFINE f == st[Len(st)]
             s == SubSeq(st, 1, Len(st) - 1)
             R == IF f.k \in Joins THEN {ins, f.back} ELSE {ins}
             n == Len(st)
  <1>1. /\ n \in Nat /\ n # 0 /\ Len(s) = n - 1 /\ \A i \in 1..n - 1 : s[i] = st[i]
    BY StackFacts
  <1> HIDE DEF s
  <1>2. n \in 1..n /\ \A i \in 1..Len(s) : i \in 1..n /\ i # n /\ i < n /\ i <= n /\ s[i] = st[i]
    BY <1>1
  <1>3. Nested(s) BY <1>2 DEF Nested, Sound
  <1>4. Ahead(s, Owed(f))
    <2> SUFFICES ASSUME NEW i \in 1..Len(s), s[i].k \in Loopers
                 PROVE  /\ \A j \in 1..Len(s) : i <= j => \A o \in Owed(s[j]) : o > s[i].back
                        /\ \A o \in Owed(f) : o > s[i].back
      BY DEF Ahead
    <2>1. \A j \in 1..n : i <= j => \A o \in Owed(st[j]) : o > st[i].back
      BY <1>2 DEF Sound, Ahead
    <2> QED BY <2>1, <1>2
  <1>5. Live(s, c, pl, R)
    <2> SUFFICES ASSUME NEW i \in 1..Len(s), s[i].k = "opRhs"
                 PROVE  \E d \in pl : /\ Defines(c[d], s[i].saved)
                                      /\ \A r \in R : Dom(c, d, r)
                                      /\ \A j \in 1..Len(s) : i < j /\ s[j].k \in Joins
                                                                => Dom(c, d, s[j].back)
      BY DEF Live
    <2>1. PICK d \in pl : /\ Defines(c[d], st[i].saved)
                          /\ \A r \in {ins} : Dom(c, d, r)
                          /\ \A j \in 1..n : i < j /\ st[j].k \in Joins => Dom(c, d, st[j].back)
      BY <1>2 DEF Sound, Live
    <2>2. f.k \in Joins => Dom(c, d, f.back) BY <1>2, <2>1
    <2>3. \A r \in R : Dom(c, d, r) BY <2>1, <2>2
    <2>4. \A j \in 1..Len(s) : i < j /\ s[j].k \in Joins => Dom(c, d, s[j].back)
      BY <1>2, <2>1
    <2>5. Defines(c[d], s[i].saved) BY <1>2, <2>1
    <2> QED BY <2>3, <2>4, <2>5
  <1>6. \A i \in 1..Len(s) : Held(s[i], c, pl, ins, sl) BY <1>2 DEF Sound
  <1>7. Held(f, c, pl, ins, sl) BY <1>2 DEF Sound
  <1>8. f.k \in Loopers => \A o \in Owed(f) : o > f.back
    <2>1. n <= n BY <1>1
    <2> QED BY <1>2, <2>1 DEF Sound, Ahead
  <1>9. f.k = "opRhs" => \E d \in pl : Defines(c[d], f.saved) /\ Dom(c, d, ins)
    BY <1>2 DEF Sound, Live
  <1>10. f.k \notin ExprKinds => Fed(s)
    BY <1>2 DEF Sound, Nested, Fed
  <1> HIDE DEF f, R
  <1>11. Sound(s, c, pl, ins, sl, Owed(f), R) BY <1>3, <1>4, <1>5, <1>6 DEF Sound
  <1> QED BY <1>7, <1>8, <1>9, <1>10, <1>11 DEF f, s, R

(* It leaves blocks to an activation.                                      *)
LEMMA SoundPush ==
  ASSUME NEW st \in Stacks, NEW f \in Frames, NEW c, NEW pl, NEW ins, NEW sl, NEW D, NEW R,
         Sound(st, c, pl, ins, sl, D, R), Held(f, c, pl, ins, sl),
         f.k \in ExprKinds \/ Fed(st), Owed(f) \subseteq D,
         f.k \in Loopers => \A o \in D : o > f.back,
         f.k \in Joins => f.back \in R,
         f.k = "opRhs" => \E d \in pl : Defines(c[d], f.saved) /\ \A r \in R : Dom(c, d, r),
         NEW E, E \subseteq D, NEW Q, Q \subseteq R
  PROVE  Sound(Append(st, f), c, pl, ins, sl, E, Q)
  <1> DEFINE s == Append(st, f)
             n == Len(st) + 1
  <1>1. /\ Len(st) \in Nat /\ Len(s) = n /\ \A i \in 1..Len(st) : s[i] = st[i]
        /\ s[n] = f
    BY StackFacts
  <1> HIDE DEF s
  <1>2. /\ \A i \in 1..Len(s) : i \in 1..Len(st) \/ i = n
        /\ \A i \in 1..Len(st) : i \in 1..Len(s) /\ i < n /\ ~(n < i) /\ ~(n <= i)
        /\ n \in 1..Len(s) /\ ~(n < n)
    BY <1>1
  <1>3. Nested(s)
    <2> SUFFICES ASSUME NEW i \in 1..Len(s), NEW j \in 1..Len(s), i < j, s[i].k \in Hungry
                 PROVE  s[j].k \in ExprKinds
      BY DEF Nested
    <2>1. i \in 1..Len(st) BY <1>2
    <2>2. CASE j \in 1..Len(st) BY <2>1, <2>2, <1>1 DEF Sound, Nested
    <2>3. CASE j = n BY <2>1, <2>3, <1>1 DEF Fed
    <2> QED BY <2>2, <2>3, <1>2
  <1>4. Ahead(s, E)
    <2> SUFFICES ASSUME NEW i \in 1..Len(s), s[i].k \in Loopers
                 PROVE  /\ \A j \in 1..Len(s) : i <= j => \A o \in Owed(s[j]) : o > s[i].back
                        /\ \A o \in E : o > s[i].back
      BY DEF Ahead
    <2>1. CASE i \in 1..Len(st)
      <3>1. /\ \A j \in 1..Len(st) : i <= j => \A o \in Owed(st[j]) : o > st[i].back
            /\ \A o \in D : o > st[i].back
        BY <2>1, <1>1 DEF Sound, Ahead
      <3>2. \A o \in Owed(f) : o > st[i].back BY <3>1
      <3> QED BY <3>1, <3>2, <2>1, <1>1, <1>2
    <2>2. CASE i = n
      <3>1. \A o \in D : o > f.back BY <2>2, <1>1
      <3>2. \A j \in 1..Len(s) : i <= j => j = n BY <2>2, <1>2
      <3> QED BY <3>1, <3>2, <2>2, <1>1
    <2> QED BY <2>1, <2>2, <1>2
  <1>5. Live(s, c, pl, Q)
    <2> SUFFICES ASSUME NEW i \in 1..Len(s), s[i].k = "opRhs"
                 PROVE  \E d \in pl : /\ Defines(c[d], s[i].saved)
                                      /\ \A r \in Q : Dom(c, d, r)
                                      /\ \A j \in 1..Len(s) : i < j /\ s[j].k \in Joins
                                                                => Dom(c, d, s[j].back)
      BY DEF Live
    <2>1. CASE i \in 1..Len(st)
      <3>1. PICK d \in pl : /\ Defines(c[d], st[i].saved)
                            /\ \A r \in R : Dom(c, d, r)
                            /\ \A j \in 1..Len(st) : i < j /\ st[j].k \in Joins
                                                       => Dom(c, d, st[j].back)
        BY <2>1, <1>1 DEF Sound, Live
      <3>2. \A j \in 1..Len(s) : i < j /\ s[j].k \in Joins => Dom(c, d, s[j].back)
        <4> SUFFICES ASSUME NEW j \in 1..Len(s), i < j, s[j].k \in Joins
                     PROVE  Dom(c, d, s[j].back)
          OBVIOUS
        <4>1. CASE j \in 1..Len(st) BY <4>1, <3>1, <1>1
        <4>2. CASE j = n BY <4>2, <3>1, <1>1
        <4> QED BY <4>1, <4>2, <1>2
      <3> QED BY <3>1, <3>2, <2>1, <1>1
    <2>2. CASE i = n
      <3>1. PICK d \in pl : Defines(c[d], f.saved) /\ \A r \in R : Dom(c, d, r)
        BY <2>2, <1>1
      <3>2. \A j \in 1..Len(s) : ~(i < j) BY <2>2, <1>2
      <3> QED BY <3>1, <3>2, <2>2, <1>1
    <2> QED BY <2>1, <2>2, <1>2
  <1>6. \A i \in 1..Len(s) : Held(s[i], c, pl, ins, sl) BY <1>1, <1>2 DEF Sound
  <1>7. Sound(s, c, pl, ins, sl, E, Q) BY <1>3, <1>4, <1>5, <1>6 DEF Sound
  <1> QED BY <1>7 DEF s

LEMMA LoopHeadAdd ==
  ASSUME NEW c \in Codes, NEW pl, pl \subseteq 1..Len(c), NEW ins \in Nat, ins \in 1..Len(c),
         NEW i \in Instrs,
         NEW h \in Nat, LoopHead(c, pl, ins, h), i.op = "phi" => h # ins,
         NEW pm, pl \subseteq pm, NEW x \in Nat, h <= x
  PROVE  LoopHead(Add(c, ins, i), pm, x, h)
  <1> DEFINE e == Add(c, ins, i)
             n == Len(c[ins]) + 1
  <1>1. /\ Len(e) = Len(c) /\ Len(c[ins]) \in Nat /\ Len(e[ins]) = n
        /\ \A j \in 1..Len(c[ins]) : e[ins][j] = c[ins][j]
        /\ e[ins][n] = i
        /\ \A y \in 1..Len(c) : y # ins => e[y] = c[y]
    BY AddFacts, ZenonT(60)
  <1>2. Grown(c, e, ins, Exits(i)) BY AddEdges
  <1> HIDE DEF e
  <1>3. NoPhi(e[h])
    <2>1. h \in 1..Len(c) /\ NoPhi(c[h]) BY DEF LoopHead
    <2>2. CASE h # ins BY <2>1, <2>2, <1>1
    <2>3. CASE h = ins
      <3>1. \A j \in 1..Len(e[ins]) : j \in 1..Len(c[ins]) \/ j = n BY <1>1
      <3>2. i.op # "phi" BY <2>3
      <3> QED BY <2>1, <2>3, <3>1, <3>2, <1>1 DEF NoPhi
    <2> QED BY <2>2, <2>3
  <1>4. ASSUME NEW z \in 1..Len(e), NEW y \in Nat, Edge(e, z, y), y > h PROVE z >= h
    <2>1. z \in 1..Len(c) BY <1>1
    <2>2. Edge(c, z, y) \/ z = ins BY <1>2, <1>4 DEF Grown
    <2>3. CASE Edge(c, z, y) BY <2>1, <2>3, <1>4 DEF LoopHead
    <2>4. CASE z = ins BY <2>4 DEF LoopHead
    <2> QED BY <2>2, <2>3, <2>4
  <1>5. LoopHead(e, pm, x, h) BY <1>3, <1>4 DEF LoopHead
  <1> QED BY <1>5 DEF e

(* The step adds an instruction and goes on in block x.                    *)
LEMMA SoundAdd ==
  ASSUME NEW st \in Stacks, NEW c \in Codes, NEW pl, pl \subseteq 1..Len(c),
         NEW ins \in Nat, ins \in 1..Len(c), NEW i \in Instrs,
         NEW sl, NEW D, NEW R, Sound(st, c, pl, ins, sl, D, R),
         Kept(c, Add(c, ins, i), pl),
         \A m \in 1..Len(st) :
           /\ st[m].k \in Loopers /\ i.op = "phi" => st[m].back # ins
           /\ st[m].k \in Joins => st[m].end \notin Exits(i),
         NEW pm, pl \subseteq pm, NEW x \in Nat,
         \A m \in 1..Len(st) : /\ st[m].k \in Loopers => st[m].back <= x
                               /\ st[m].k \in Joins => st[m].back # x,
         NEW E, E \subseteq D, NEW Q,
         \/ Fed(st)
         \/ \A d \in pl : (\A r \in R : Dom(c, d, r)) => \A r \in Q : Dom(Add(c, ins, i), d, r)
  PROVE  Sound(st, Add(c, ins, i), pm, x, sl, E, Q)
  <1> DEFINE e == Add(c, ins, i)
  <1>1. Grown(c, e, ins, Exits(i)) /\ Len(e) = Len(c) BY AddEdges, AddFacts, ZenonT(60)
  <1>2. Kept(c, e, pl) OBVIOUS
  <1>3. \/ Fed(st)
        \/ \A d \in pl : (\A r \in R : Dom(c, d, r)) => \A r \in Q : Dom(e, d, r)
    OBVIOUS
  <1>4. ASSUME NEW d \in pl, NEW v, Defines(c[d], v) PROVE Defines(e[d], v)
    <2>1. d \in 1..Len(c) OBVIOUS
    <2>2. 1..Len(c[d]) \subseteq 1..Len(e[d]) /\ \A j \in 1..Len(c[d]) : e[d][j] = c[d][j]
      BY <1>1, <2>1 DEF Grown
    <2> QED BY <1>4, <2>2 DEF Defines
  <1>5. Live(st, e, pm, Q)
    <2> HIDE DEF e
    <2> SUFFICES ASSUME NEW m \in 1..Len(st), st[m].k = "opRhs"
                 PROVE  \E d \in pm : /\ Defines(e[d], st[m].saved)
                                      /\ \A r \in Q : Dom(e, d, r)
                                      /\ \A j \in 1..Len(st) : m < j /\ st[j].k \in Joins
                                                                 => Dom(e, d, st[j].back)
      BY DEF Live
    <2>1. PICK d \in pl : /\ Defines(c[d], st[m].saved)
                          /\ \A r \in R : Dom(c, d, r)
                          /\ \A j \in 1..Len(st) : m < j /\ st[j].k \in Joins
                                                     => Dom(c, d, st[j].back)
      BY DEF Sound, Live
    <2>2. \A j \in 1..Len(st) : st[j].k \in Joins => st[j].back \in pl BY DEF Sound, Held
    <2>3. \A j \in 1..Len(st) : m < j /\ st[j].k \in Joins => Dom(e, d, st[j].back)
      BY <1>2, <2>1, <2>2 DEF Kept
    <2>4. Defines(e[d], st[m].saved) BY <1>4, <2>1
    <2>5. ~Fed(st) BY DEF Fed, Hungry, Eaters
    <2>6. \A r \in Q : Dom(e, d, r) BY <1>3, <2>1, <2>5
    <2> QED BY <2>3, <2>4, <2>6
  <1>6. ASSUME NEW m \in 1..Len(st) PROVE Held(st[m], e, pm, x, sl)
    <2> DEFINE f == st[m]
    <2>1. Held(f, c, pl, ins, sl) BY DEF Sound
    <2>2. f.k \in Loopers => LoopHead(e, pm, x, f.back)
      <3>1. f \in Frames BY StackFacts
      <3>2. f.back \in Nat BY <3>1 DEF Frames
      <3>3. f.k \in Loopers =>
              /\ LoopHead(c, pl, ins, f.back) /\ (i.op = "phi" => f.back # ins)
              /\ f.back <= x
        BY <2>1 DEF Held
      <3> HIDE DEF f
      <3> QED BY <3>2, <3>3, LoopHeadAdd
    <2>3. ASSUME f.k \in Joins
          PROVE  f.back \in pm \ {x} /\ \A y \in 1..Len(e) : Edge(e, y, f.end) <=> y = f.back
      <3>1. f.back \in pl /\ \A y \in 1..Len(c) : Edge(c, y, f.end) <=> y = f.back
        BY <2>1, <2>3 DEF Held
      <3>2. f.end \notin Exits(i) /\ f.back # x BY <2>3
      <3> HIDE DEF e
      <3>3. \A y \in 1..Len(e) : Edge(e, y, f.end) <=> Edge(c, y, f.end)
        BY <1>1, <3>2 DEF Grown
      <3> QED BY <1>1, <3>1, <3>2, <3>3
    <2>4. f.k = "init" => f.saved \in sl BY <2>1 DEF Held
    <2> HIDE DEF e, f
    <2>5. Held(f, e, pm, x, sl) BY <2>2, <2>3, <2>4 DEF Held
    <2> QED BY <2>5 DEF f
  <1>7. Ahead(st, E) BY DEF Sound, Ahead
  <1>8. Nested(st) BY DEF Sound
  <1> HIDE DEF e
  <1>9. Sound(st, e, pm, x, sl, E, Q) BY <1>5, <1>6, <1>7, <1>8 DEF Sound
  <1> QED BY <1>9 DEF e

(* It takes over the blocks it creates.                                    *)
LEMMA SoundBlocks ==
  ASSUME NEW st, NEW c, NEW pl, NEW ins, NEW ls, NEW D, Builder(st, c, pl, ins, ls, D),
         NEW sl, NEW R, Sound(st, c, pl, ins, sl, D, R), R \subseteq pl, NEW k \in Nat
  PROVE  Sound(st, Blocks(c, k), pl, ins, sl, D \cup (Len(c) + 1..Len(c) + k), R)
  <1> DEFINE e == Blocks(c, k)
             F == Len(c) + 1..Len(c) + k
  <1>0. c \in Codes /\ Len(c) \in Nat /\ pl \subseteq 1..Len(c) /\ st \in Stacks
    BY BuilderFacts
  <1>1. /\ Len(e) = Len(c) + k
        /\ \A x \in 1..Len(c) : e[x] = c[x]
        /\ \A x \in Len(c) + 1..Len(c) + k : e[x] = <<>>
    BY <1>0, BlocksFacts
  <1>2. Grown(c, e, 0, {}) BY <1>0, BlocksGrown
  <1>3. Kept(c, e, pl)
    <2> HIDE DEF e
    <2> QED BY <1>2, KeptForward
  <1>4. \A x \in 1..Len(e) : \A y : Edge(e, x, y) <=> x \in 1..Len(c) /\ Edge(c, x, y)
    BY <1>2 DEF Grown
  <1>5. \A x \in 1..Len(c) : x \in 1..Len(e) BY <1>0, <1>1
  <1> HIDE DEF e
  <1>6. Live(st, e, pl, R)
    <2> SUFFICES ASSUME NEW m \in 1..Len(st), st[m].k = "opRhs"
                 PROVE  \E d \in pl : /\ Defines(e[d], st[m].saved)
                                      /\ \A r \in R : Dom(e, d, r)
                                      /\ \A j \in 1..Len(st) : m < j /\ st[j].k \in Joins
                                                                 => Dom(e, d, st[j].back)
      BY DEF Live
    <2>1. PICK d \in pl : /\ Defines(c[d], st[m].saved)
                          /\ \A r \in R : Dom(c, d, r)
                          /\ \A j \in 1..Len(st) : m < j /\ st[j].k \in Joins
                                                     => Dom(c, d, st[j].back)
      BY DEF Sound, Live
    <2>2. \A j \in 1..Len(st) : st[j].k \in Joins => st[j].back \in pl BY DEF Sound, Held
    <2>3. \A j \in 1..Len(st) : m < j /\ st[j].k \in Joins => Dom(e, d, st[j].back)
      BY <1>3, <2>1, <2>2 DEF Kept
    <2>4. Defines(e[d], st[m].saved) BY <1>0, <1>1, <2>1
    <2>5. \A r \in R : Dom(e, d, r) BY <1>3, <2>1 DEF Kept
    <2> QED BY <2>3, <2>4, <2>5
  <1>7. ASSUME NEW m \in 1..Len(st) PROVE Held(st[m], e, pl, ins, sl)
    <2> DEFINE f == st[m]
    <2>1. Held(f, c, pl, ins, sl) BY DEF Sound
    <2> HIDE DEF f
    <2>2. ASSUME f.k \in Loopers PROVE LoopHead(e, pl, ins, f.back)
      <3>1. LoopHead(c, pl, ins, f.back) BY <2>1, <2>2 DEF Held
      <3>2. NoPhi(e[f.back]) BY <3>1, <1>0, <1>1 DEF LoopHead
      <3>3. \A x \in 1..Len(e) : \A y \in Nat : Edge(e, x, y) /\ y > f.back => x >= f.back
        BY <3>1, <1>4 DEF LoopHead
      <3> QED BY <3>1, <3>2, <3>3 DEF LoopHead
    <2>3. ASSUME f.k \in Joins
          PROVE  f.back \in pl \ {ins} /\ \A y \in 1..Len(e) : Edge(e, y, f.end) <=> y = f.back
      <3>1. f.back \in pl \ {ins} /\ \A y \in 1..Len(c) : Edge(c, y, f.end) <=> y = f.back
        BY <2>1, <2>3 DEF Held
      <3> QED BY <3>1, <1>0, <1>4
    <2>4. f.k = "init" => f.saved \in sl BY <2>1 DEF Held
    <2>5. Held(f, e, pl, ins, sl) BY <2>2, <2>3, <2>4 DEF Held
    <2> QED BY <2>5 DEF f
  <1>8. Ahead(st, D \cup F)
    <2> SUFFICES ASSUME NEW m \in 1..Len(st), st[m].k \in Loopers, NEW o \in F
                 PROVE  o > st[m].back
      BY DEF Sound, Ahead
    <2>1. LoopHead(c, pl, ins, st[m].back) BY DEF Sound, Held
    <2>2. st[m].back \in 1..Len(c) BY <2>1, <1>0 DEF LoopHead
    <2> QED BY <2>2, <1>0
  <1>9. Nested(st) BY DEF Sound
  <1> HIDE DEF F
  <1>10. Sound(st, e, pl, ins, sl, D \cup F, R) BY <1>6, <1>7, <1>8, <1>9 DEF Sound
  <1> QED BY <1>10 DEF e, F

-----------------------------------------------------------------------------
(* Steps of the builder.  st are the activations that stay, D the blocks   *)
(* that the step has in its hands.                                         *)

Fine(st, c, pl, ins, sl, D, R) ==
  Phis(c) /\ Uses(c, pl, sl) /\ Sound(st, c, pl, ins, sl, D, R)

LEMMA GraphBlank ==
  ASSUME NEW c, NEW pl, NEW ins, Graph(c, pl, ins)
  PROVE  Blank(c, pl) /\ \A b \in (1..Len(c)) \ pl : NoPhi(c[b]) /\ \A y : ~Edge(c, b, y)
  BY DEF Graph, Blank, NoPhi, Edge

LEMMA FineBlocks ==
  ASSUME NEW st, NEW c, NEW pl, NEW ins, NEW ls, NEW D, Builder(st, c, pl, ins, ls, D),
         NEW sl, NEW R, Fine(st, c, pl, ins, sl, D, R), R \subseteq pl, NEW k \in Nat
  PROVE  Fine(st, Blocks(c, k), pl, ins, sl, D \cup (Len(c) + 1..Len(c) + k), R)
  <1>1. c \in Codes BY BuilderFacts
  <1>2. Blank(c, pl) BY GraphBlank DEF Builder
  <1>3. Phis(c) /\ Uses(c, pl, sl) /\ Sound(st, c, pl, ins, sl, D, R) BY DEF Fine
  <1>4. Phis(Blocks(c, k)) BY <1>1, <1>3, PhisBlocks
  <1>5. Uses(Blocks(c, k), pl, sl) BY <1>1, <1>2, <1>3, UsesBlocks
  <1>6. Sound(st, Blocks(c, k), pl, ins, sl, D \cup (Len(c) + 1..Len(c) + k), R)
    BY <1>3, SoundBlocks
  <1> QED BY <1>4, <1>5, <1>6 DEF Fine

(* An instruction that uses what its block or the slots have.              *)
LEMMA PlainKept ==
  ASSUME NEW c \in Codes, NEW b \in 1..Len(c), NEW i \in Instrs, ~IsTerminator(i), NEW pl
  PROVE  Kept(c, Add(c, b, i), pl)
  <1> DEFINE e == Add(c, b, i)
  <1>1. Grown(c, e, b, Exits(i)) BY AddEdges
  <1>2. Exits(i) = {} BY DEF Exits
  <1> HIDE DEF e
  <1>3. Kept(c, e, pl) BY <1>1, <1>2, KeptForward
  <1> QED BY <1>3 DEF e

LEMMA FinePlain ==
  ASSUME NEW st, NEW c, NEW pl, NEW ins, NEW ls, NEW D, Builder(st, c, pl, ins, ls, D),
         NEW sl, NEW R, Fine(st, c, pl, ins, sl, D, R), R \subseteq pl,
         NEW i \in Instrs, ~IsTerminator(i), i.op # "phi", i.phi = {},
         \A v \in i.use : \/ v \in sl \/ Defines(c[ins], v)
                          \/ \E d \in pl : Defines(c[d], v) /\ Dom(c, d, ins)
  PROVE  Fine(st, Add(c, ins, i), pl, ins, sl, D, R)
  <1>1. c \in Codes /\ ins \in Nat /\ ins \in 1..Len(c) /\ pl \subseteq 1..Len(c) /\ st \in Stacks
    BY BuilderFacts
  <1>2. Blank(c, pl) /\ ins \in pl BY GraphBlank DEF Builder, Graph
  <1>3. Phis(c) /\ Uses(c, pl, sl) /\ Sound(st, c, pl, ins, sl, D, R) BY DEF Fine
  <1>4. Kept(c, Add(c, ins, i), pl) BY <1>1, PlainKept
  <1>5. Exits(i) = {} BY DEF Exits
  <1>6. Phis(Add(c, ins, i)) BY <1>1, <1>3, <1>5, PhisAdd
  <1>7. Uses(Add(c, ins, i), pl, sl)
    <2>1. \A v \in i.use : \/ v \in sl \/ Defines(c[ins], v)
                           \/ ins \in pl /\ \E d \in 1..Len(c) : Defines(c[d], v) /\ Dom(c, d, ins)
      BY <1>1, <1>2
    <2>2. \A in \in i.phi : in.from \in pl /\ (in.v # 0 => Reaches(c, sl, in.v, in.from))
      OBVIOUS
    <2> QED BY <1>1, <1>2, <1>3, <1>4, <2>1, <2>2, UsesAdd
  <1>8. Sound(st, Add(c, ins, i), pl, ins, sl, D, R)
    <2>1. \A m \in 1..Len(st) : Held(st[m], c, pl, ins, sl) BY <1>3 DEF Sound
    <2>2. \A m \in 1..Len(st) :
            /\ st[m].k \in Loopers => st[m].back <= ins
            /\ st[m].k \in Joins => st[m].back # ins
      BY <2>1 DEF Held, LoopHead
    <2>3. \A d \in pl : (\A r \in R : Dom(c, d, r)) => \A r \in R : Dom(Add(c, ins, i), d, r)
      BY <1>4 DEF Kept
    <2> QED BY <1>1, <1>3, <1>4, <1>5, <2>2, <2>3, SoundAdd
  <1> QED BY <1>6, <1>7, <1>8 DEF Fine

(* A terminator; the builder goes on in x.                                 *)
LEMMA FineMove ==
  ASSUME NEW st, NEW c, NEW pl, NEW ins, NEW ls, NEW D, Builder(st, c, pl, ins, ls, D),
         NEW sl, NEW R, Fine(st, c, pl, ins, sl, D, R),
         NEW i \in Instrs, IsTerminator(i), i.phi = {},
         \A v \in i.use : v \in sl \/ Defines(c[ins], v),
         Kept(c, Add(c, ins, i), pl), \A t \in Exits(i) : t \in 1..Len(c) => NoPhi(c[t]),
         NEW x \in D, NEW E, E \subseteq D, NEW Q,
         \/ Fed(st)
         \/ /\ \A m \in 1..Len(st) : st[m].k \in Joins => st[m].end \notin Exits(i)
            /\ \A d \in pl : (\A r \in R : Dom(c, d, r)) => \A r \in Q : Dom(Add(c, ins, i), d, r)
  PROVE  Fine(st, Add(c, ins, i), pl \cup {x}, x, sl, E, Q)
  <1>1. c \in Codes /\ ins \in Nat /\ ins \in 1..Len(c) /\ pl \subseteq 1..Len(c) /\ st \in Stacks
        /\ x \in Nat /\ Len(c) \in Nat
    BY BuilderFacts
  <1>2. Blank(c, pl) BY GraphBlank DEF Builder
  <1>3. Phis(c) /\ Uses(c, pl, sl) /\ Sound(st, c, pl, ins, sl, D, R) BY DEF Fine
  <1>4. i.op # "phi" BY DEF IsTerminator, Terminators
  <1>5. Phis(Add(c, ins, i)) BY <1>1, <1>3, <1>4, PhisAdd
  <1>6. Uses(Add(c, ins, i), pl \cup {x}, sl)
    <2>1. \A v \in i.use : \/ v \in sl \/ Defines(c[ins], v)
                           \/ ins \in pl /\ \E d \in 1..Len(c) : Defines(c[d], v) /\ Dom(c, d, ins)
      OBVIOUS
    <2>2. \A in \in i.phi : in.from \in pl /\ (in.v # 0 => Reaches(c, sl, in.v, in.from))
      OBVIOUS
    <2> QED BY <1>1, <1>2, <1>3, <2>1, <2>2, UsesAdd
  <1>7. Sound(st, Add(c, ins, i), pl \cup {x}, x, sl, E, Q)
    <2>0. Fed(st) => \A m \in 1..Len(st) : st[m].k \notin Joins
      BY DEF Fed, Joins, Hungry, Eaters
    <2>1. \A m \in 1..Len(st) : /\ st[m].k \in Joins => st[m].end \notin Exits(i)
                                /\ st[m].k \in Joins => st[m].back # x
      <3> SUFFICES ASSUME NEW m \in 1..Len(st), st[m].k \in Joins
                   PROVE  st[m].end \notin Exits(i) /\ st[m].back # x
        OBVIOUS
      <3>1. st[m].end \notin Exits(i) BY <2>0
      <3>2. st[m].back \in pl BY <1>3 DEF Sound, Held
      <3>3. x \notin pl BY BuilderFacts
      <3> QED BY <3>1, <3>2, <3>3
    <2>2. ASSUME NEW m \in 1..Len(st), st[m].k \in Loopers PROVE st[m].back <= x
      <3>1. st[m].back < x BY <1>3, <2>2 DEF Sound, Ahead
      <3>2. st[m] \in Frames BY <1>1, StackFacts
      <3> QED BY <1>1, <3>1, <3>2 DEF Frames
    <2>3. pl \subseteq pl \cup {x} OBVIOUS
    <2> QED BY <1>1, <1>3, <1>4, <2>1, <2>2, <2>3, SoundAdd
  <1> QED BY <1>5, <1>6, <1>7 DEF Fine

(* Branches to blocks that are not started, and back to a loop's head.     *)
LEMMA ForwardExits ==
  ASSUME NEW c, NEW pl, NEW ins, Graph(c, pl, ins), NEW i \in Instrs,
         Exits(i) \subseteq (1..Len(c)) \ pl
  PROVE  Kept(c, Add(c, ins, i), pl) /\ \A t \in Exits(i) : NoPhi(c[t])
  <1> DEFINE e == Add(c, ins, i)
  <1>1. c \in Codes /\ ins \in 1..Len(c) /\ ins \in pl BY DEF Graph
  <1>2. Grown(c, e, ins, Exits(i)) /\ Len(e) = Len(c)
    <2>1. Grown(c, e, ins, Exits(i)) BY <1>1, AddEdges
    <2>2. Len(e) = Len(c) BY <1>1, AddFacts, ZenonT(60)
    <2> QED BY <2>1, <2>2
  <1>3. \A t \in Exits(i) : NoPhi(c[t]) /\ \A y : ~Edge(c, t, y) BY GraphBlank
  <1> HIDE DEF e
  <1>4. \A t \in Exits(i) : \A y : ~Edge(e, t, y) BY <1>1, <1>2, <1>3 DEF Grown
  <1>5. Kept(c, e, pl)
    <2>1. pl \cap Exits(i) = {} /\ Exits(i) \subseteq 1..Len(e) BY <1>2
    <2> QED BY <1>2, <1>4, <2>1, KeptForward
  <1> QED BY <1>3, <1>5 DEF e

LEMMA BackExit ==
  ASSUME NEW c, NEW pl, NEW ins \in Nat, Graph(c, pl, ins), NEW i \in Instrs,
         NEW h \in Nat, Exits(i) = {h}, LoopHead(c, pl, ins, h)
  PROVE  Kept(c, Add(c, ins, i), pl) /\ \A t \in Exits(i) : NoPhi(c[t])
  <1> DEFINE e == Add(c, ins, i)
  <1>1. c \in Codes /\ ins \in 1..Len(c) BY DEF Graph
  <1>2. Grown(c, e, ins, {h}) BY <1>1, AddEdges
  <1> HIDE DEF e
  <1>3. /\ 2 <= h /\ h <= ins /\ NoPhi(c[h])
        /\ \A x \in 1..Len(c) : \A y \in Nat : Edge(c, x, y) /\ y > h => x >= h
    BY DEF LoopHead
  <1>4. Kept(c, e, pl) BY <1>2, <1>3, KeptBack
  <1> QED BY <1>3, <1>4 DEF e

(* The value that was computed last is there for the activation on top.    *)
Feeding(st, c, ins, v) ==
  st # <<>> /\ st[Len(st)].k \in Eaters => Defines(c[ins], v)

Good(st, c, pl, ins, sl, v) ==
  Fine(st, c, pl, ins, sl, {}, {ins}) /\ Feeding(st, c, ins, v)

LEMMA WaitingHeld ==
  ASSUME NEW k \in Quiet, NEW v \in Nat, NEW c, NEW pl, NEW ins, NEW sl
  PROVE  /\ Waiting(k) \in Frames /\ Waiting(k).k = k /\ Owed(Waiting(k)) = {}
         /\ [Waiting(k) EXCEPT !.saved = v] \in Frames
         /\ [Waiting(k) EXCEPT !.saved = v].k = k
         /\ [Waiting(k) EXCEPT !.saved = v].saved = v
         /\ Owed([Waiting(k) EXCEPT !.saved = v]) = {}
         /\ k \notin Joins /\ k \notin Loopers
         /\ k # "init" => Held(Waiting(k), c, pl, ins, sl)
         /\ k # "init" \/ v \in sl => Held([Waiting(k) EXCEPT !.saved = v], c, pl, ins, sl)
  <1>1. /\ Waiting(k) \in Frames /\ Waiting(k).k = k /\ Owed(Waiting(k)) = {}
        /\ [Waiting(k) EXCEPT !.saved = v] \in Frames
        /\ [Waiting(k) EXCEPT !.saved = v].k = k
        /\ Owed([Waiting(k) EXCEPT !.saved = v]) = {}
    BY WaitingFacts, 0 \in Nat DEF FrameOK
  <1>2. k \notin Joins /\ k \notin Loopers BY DEF Quiet, Joins, Loopers
  <1>3. [Waiting(k) EXCEPT !.saved = v].saved = v BY DEF Waiting, Frame
  <1> QED BY <1>1, <1>2, <1>3 DEF Held

LEMMA TopOfPush ==
  ASSUME NEW st \in Stacks, NEW f \in Frames
  PROVE  /\ Append(st, f) \in Stacks /\ Append(st, f)[Len(Append(st, f))] = f
         /\ Fed(st) /\ f.k \notin Hungry => Fed(Append(st, f))
  <1>1. /\ Append(st, f) \in Stacks /\ Len(Append(st, f)) = Len(st) + 1 /\ Len(st) \in Nat
        /\ \A i \in 1..Len(st) : Append(st, f)[i] = st[i]
        /\ Append(st, f)[Len(st) + 1] = f
    BY StackFacts
  <1>2. \A i \in 1..Len(st) + 1 : i \in 1..Len(st) \/ i = Len(st) + 1 BY <1>1
  <1> QED BY <1>1, <1>2 DEF Fed

(* The step ends with an activation and one that starts inside it.         *)
LEMMA FineEnter ==
  ASSUME NEW st \in Stacks, NEW c, NEW pl, NEW ins, NEW sl, NEW D, NEW R,
         Fine(st, c, pl, ins, sl, D, R), ins \in R,
         NEW f \in Frames, Held(f, c, pl, ins, sl), Owed(f) \subseteq D,
         f.k \in ExprKinds \/ Fed(st),
         f.k \in Loopers => \A o \in D : o > f.back,
         f.k \in Joins => f.back \in R,
         f.k = "opRhs" => \E d \in pl : Defines(c[d], f.saved) /\ \A r \in R : Dom(c, d, r),
         NEW g \in {"expr", "stmt"}, g = "expr" \/ (Fed(st) /\ f.k \notin Hungry),
         NEW v
  PROVE  Good(st \o <<f, Waiting(g)>>, c, pl, ins, sl, v)
  <1> DEFINE s == Append(st, f)
             w == Waiting(g)
             t == Append(s, w)
  <1>1. g \in Quiet /\ g # "init" /\ g \notin Eaters /\ g # "opRhs" BY QuietKinds DEF Eaters
  <1>2. /\ w \in Frames /\ w.k = g /\ Owed(w) = {} /\ g \notin Joins /\ g \notin Loopers
        /\ Held(w, c, pl, ins, sl)
    BY <1>1, WaitingHeld, 0 \in Nat
  <1> HIDE DEF w
  <1>3. Sound(st, c, pl, ins, sl, D, R) BY DEF Fine
  <1>4. Sound(s, c, pl, ins, sl, {}, {ins})
    <2>1. {} \subseteq D /\ {ins} \subseteq R OBVIOUS
    <2> QED BY <1>3, <2>1, SoundPush
  <1>5. s \in Stacks /\ (g = "expr" \/ Fed(s)) BY TopOfPush
  <1>6. t = st \o <<f, w>> BY <1>2, StackPush
  <1>7. t[Len(t)] = w BY <1>2, <1>5, TopOfPush
  <1>8. w.k \in ExprKinds \/ Fed(s) BY <1>2, <1>5 DEF ExprKinds
  <1> HIDE DEF s
  <1>9. Sound(t, c, pl, ins, sl, {}, {ins})
    <2>1. {} \subseteq {} /\ {ins} \subseteq {ins} OBVIOUS
    <2>2. w.k \notin Joins /\ w.k \notin Loopers /\ w.k # "opRhs" /\ Owed(w) \subseteq {}
      BY <1>1, <1>2
    <2> QED BY <1>2, <1>4, <1>5, <1>8, <2>1, <2>2, SoundPush
  <1>10. Feeding(t, c, ins, v) BY <1>1, <1>2, <1>7 DEF Feeding
  <1> HIDE DEF t
  <1>11. Fine(t, c, pl, ins, sl, {}, {ins}) BY <1>9 DEF Fine
  <1>12. Good(t, c, pl, ins, sl, v) BY <1>10, <1>11 DEF Good
  <1> QED BY <1>6, <1>12 DEF w

(* The step ends and no activation waits for a value.                      *)
LEMMA FineRest ==
  ASSUME NEW st \in Stacks, NEW c, NEW pl, NEW ins, NEW sl,
         Fine(st, c, pl, ins, sl, {}, {ins}), Fed(st), NEW v
  PROVE  /\ Good(st \o <<>>, c, pl, ins, sl, v)
         /\ Good(st \o <<Waiting("body")>>, c, pl, ins, sl, v)
  <1>1. st \o <<>> = st BY ConcatEmptySeq DEF Stacks
  <1>2. Feeding(st, c, ins, v)
    <2>1. st # <<>> => Len(st) \in 1..Len(st) BY StackFacts
    <2> QED BY <2>1 DEF Feeding, Fed, Hungry
  <1> DEFINE w == Waiting("body")
             t == Append(st, w)
  <1>3. "body" \in Quiet /\ "body" \notin Eaters /\ "body" # "opRhs" /\ "body" # "init"
    BY QuietKinds DEF Eaters
  <1>4. /\ w \in Frames /\ w.k = "body" /\ Owed(w) = {} /\ "body" \notin Joins
        /\ "body" \notin Loopers /\ Held(w, c, pl, ins, sl)
    BY <1>3, WaitingHeld, 0 \in Nat
  <1> HIDE DEF w
  <1>5. t = st \o <<w>> /\ t[Len(t)] = w BY <1>4, StackPush, TopOfPush
  <1>6. Sound(t, c, pl, ins, sl, {}, {ins})
    <2>1. Sound(st, c, pl, ins, sl, {}, {ins}) BY DEF Fine
    <2>2. {} \subseteq {} /\ {ins} \subseteq {ins} OBVIOUS
    <2>3. w.k \notin Joins /\ w.k \notin Loopers /\ w.k # "opRhs" /\ Owed(w) \subseteq {}
      BY <1>3, <1>4
    <2> QED BY <1>4, <2>1, <2>2, <2>3, SoundPush
  <1>7. Feeding(t, c, ins, v) BY <1>3, <1>4, <1>5 DEF Feeding
  <1> HIDE DEF t
  <1>8. Fine(t, c, pl, ins, sl, {}, {ins}) BY <1>6 DEF Fine
  <1>9. Good(t, c, pl, ins, sl, v) BY <1>7, <1>8 DEF Good
  <1>10. Good(st, c, pl, ins, sl, v) BY <1>2 DEF Good
  <1> QED BY <1>1, <1>5, <1>9, <1>10 DEF w

-----------------------------------------------------------------------------
(* The inductive invariant, on top of IInv.                                *)

Emitting == Good(stack, code, placed, insert, slots, value)

SSA ==
  /\ Visible \subseteq slots
  /\ phase = "emit" => Emitting
  /\ phase # "emit" => scopes = <<>> /\ Phis(code) /\ Uses(code, placed, slots)

(* The activations that stay when a statement starts.                      *)
Base == IF Top.k = "body" THEN stack ELSE Popped

LEMMA StackTop ==
  ASSUME Building, Walking
  PROVE  stack \in Stacks /\ Len(stack) \in 1..Len(stack)
  BY BuilderFacts, StackFacts DEF Building, Walking

LEMMA BaseFacts ==
  ASSUME Building, Emitting, AtStmt
  PROVE  /\ Builder(Base, code, placed, insert, loops, {}) /\ Base \in Stacks /\ Fed(Base)
         /\ Fine(Base, code, placed, insert, slots, {}, {insert}) /\ insert \in placed
  <1>0. Walking /\ Top.k \in {"body", "stmt"} BY DEF AtStmt, StmtFrames
  <1>1. Builder(Base, code, placed, insert, loops, {}) BY BeginBase DEF Base
  <1>2. Base \in Stacks /\ insert \in placed BY <1>1, BuilderFacts DEF Builder, Graph
  <1>3. Sound(stack, code, placed, insert, slots, {}, {insert}) BY DEF Emitting, Good, Fine
  <1>4. stack \in Stacks /\ stack # <<>> /\ Len(stack) \in 1..Len(stack)
    BY <1>0, StackTop DEF Walking
  <1>5. CASE Top.k = "body"
    <2>1. Base = stack BY <1>5 DEF Base
    <2>2. Fed(stack)
      <3> SUFFICES ASSUME NEW i \in 1..Len(stack) PROVE stack[i].k \notin Hungry BY DEF Fed
      <3>0. i = Len(stack) \/ i < Len(stack)
        <4>1. Len(stack) \in Nat BY <1>4, StackFacts
        <4> QED BY <4>1
      <3>1. CASE i = Len(stack) BY <3>1, <1>5 DEF Top, Hungry, Eaters
      <3>2. CASE i < Len(stack)
        <4>1. Top.k \notin ExprKinds BY <1>5 DEF ExprKinds
        <4> QED BY <4>1, <3>2, <1>3, <1>4 DEF Sound, Nested, Top
      <3> QED BY <3>0, <3>1, <3>2
    <2> QED BY <1>1, <1>2, <2>1, <2>2 DEF Emitting, Good
  <1>6. CASE Top.k = "stmt"
    <2>1. Base = Popped BY <1>6 DEF Base
    <2>2. Top.k \notin Joins /\ Top.k \notin ExprKinds BY <1>6 DEF Joins, ExprKinds
    <2>3. Owed(Top) = {} BY <1>0, <1>6, PopBase
    <2>4. Sound(Popped, code, placed, insert, slots, Owed(Top), {insert}) /\ Fed(Popped)
      BY <1>3, <1>4, <2>2, SoundPop DEF Top, Popped
    <2>5. Fine(Popped, code, placed, insert, slots, {}, {insert})
      BY <2>3, <2>4 DEF Fine, Emitting, Good
    <2> QED BY <1>1, <1>2, <2>1, <2>4, <2>5
  <1> QED BY <1>0, <1>5, <1>6

LEMMA PopFacts ==
  ASSUME Building, Emitting, Walking
  PROVE  /\ Fine(Popped, code, placed, insert, slots, Owed(Top),
                 IF Top.k \in Joins THEN {insert, Top.back} ELSE {insert})
         /\ Held(Top, code, placed, insert, slots) /\ Popped \in Stacks /\ Top \in Frames
         /\ Top.k \in Loopers => \A o \in Owed(Top) : o > Top.back
         /\ Top.k = "opRhs" =>
              \E d \in placed : Defines(code[d], Top.saved) /\ Dom(code, d, insert)
         /\ Top.k \notin ExprKinds => Fed(Popped)
         /\ Top.k \in Eaters => Defines(code[insert], value)
         /\ insert \in placed
  <1>1. stack \in Stacks /\ stack # <<>> /\ Len(stack) \in 1..Len(stack)
    BY StackTop DEF Walking
  <1>2. Sound(stack, code, placed, insert, slots, {}, {insert}) BY DEF Emitting, Good, Fine
  <1>3. Popped \in Stacks /\ Top \in Frames BY <1>1, StackFacts DEF Popped, Top
  <1>4. Top.k \in Eaters => Defines(code[insert], value)
    BY <1>1 DEF Emitting, Good, Feeding, Top
  <1>5. insert \in placed BY DEF Building, Builder, Graph
  <1>6. /\ Sound(Popped, code, placed, insert, slots, Owed(Top),
                 IF Top.k \in Joins THEN {insert, Top.back} ELSE {insert})
        /\ Held(Top, code, placed, insert, slots)
        /\ Top.k \in Loopers => \A o \in Owed(Top) : o > Top.back
        /\ Top.k = "opRhs" =>
             \E d \in placed : Defines(code[d], Top.saved) /\ Dom(code, d, insert)
        /\ Top.k \notin ExprKinds => Fed(Popped)
    BY <1>1, <1>2, SoundPop DEF Top, Popped
  <1>7. Phis(code) /\ Uses(code, placed, slots) BY DEF Emitting, Good, Fine
  <1> QED BY <1>3, <1>4, <1>5, <1>6, <1>7 DEF Fine

LEMMA BrParts ==
  ASSUME NEW b
  PROVE  Exits(Br(b)) = {b} /\ Br(b).phi = {} /\ Br(b).use = {}
  <1>1. Br(b).to = <<b>> /\ Br(b).op = "br" BY DEF Br, Instr
  <1>2. Len(<<b>>) = 1 /\ <<b>>[1] = b /\ (\A t \in 1..1 : t = 1) /\ 1 \in 1..1 OBVIOUS
  <1>3. Exits(Br(b)) = {b} BY <1>1, <1>2 DEF Exits, IsTerminator, Terminators, Targets
  <1> QED BY <1>3 DEF Br, Instr

LEMMA CondBrParts ==
  ASSUME NEW v, NEW b, NEW c, NEW n
  PROVE  /\ Exits(CondBr(v, b, c, n)) = {b, c} /\ CondBr(v, b, c, n).phi = {}
         /\ CondBr(v, b, c, n).use = {v}
  <1> DEFINE i == CondBr(v, b, c, n)
             g == i.to
  <1>1. g = <<b, c>> /\ i.op = "condbr" /\ i.phi = {} /\ i.use = {v} BY DEF CondBr, Instr
  <1>2. Len(g) = 2 /\ g[1] = b /\ g[2] = c BY <1>1
  <1>3. Targets(i) = {g[t] : t \in 1..Len(g)} BY DEF Targets
  <1> HIDE DEF g
  <1>4. {g[t] : t \in 1..Len(g)} = {b, c} BY <1>2
  <1>5. Exits(i) = {b, c} BY <1>1, <1>3, <1>4 DEF Exits, IsTerminator, Terminators
  <1> QED BY <1>1, <1>5

LEMMA RetParts ==
  ASSUME NEW u, NEW n
  PROVE  Exits(Ret(u, n)) = {} /\ Ret(u, n).phi = {} /\ Ret(u, n).use = u
  <1>1. Ret(u, n).to = <<>> BY DEF Ret, Instr
  <1>2. Len(<<>>) = 0 /\ \A t \in 1..0 : FALSE OBVIOUS
  <1> QED BY <1>1, <1>2 DEF Exits, Targets, Ret, Instr

LEMMA StoreParts ==
  ASSUME NEW v, NEW w, NEW n
  PROVE  Store(v, w, n).phi = {} /\ Store(v, w, n).use = {v, w} /\ Store(v, w, n).op # "phi"
  BY DEF Store, Instr

LEMMA EvalParts ==
  ASSUME NEW v, NEW u
  PROVE  /\ Eval(v, u).phi = {} /\ Eval(v, u).use = u /\ Eval(v, u).def = v
         /\ Eval(v, u).op # "phi"
  BY DEF Eval, Instr

LEMMA PhiParts ==
  ASSUME NEW v, NEW u
  PROVE  /\ Phi(v, u).phi = u /\ Phi(v, u).use = {} /\ Phi(v, u).def = v
         /\ Phi(v, u).op = "phi"
  BY DEF Phi, Instr

(* More slots than there were.                                             *)
LEMMA FineSlots ==
  ASSUME NEW st, NEW c, NEW pl, NEW ins, NEW sl, NEW D, NEW R, Fine(st, c, pl, ins, sl, D, R),
         NEW sm, sl \subseteq sm
  PROVE  Fine(st, c, pl, ins, sm, D, R)
  <1>1. Uses(c, pl, sm) BY UsesSlots DEF Fine
  <1>2. \A m \in 1..Len(st) : Held(st[m], c, pl, ins, sm) BY DEF Fine, Sound, Held
  <1>3. Sound(st, c, pl, ins, sm, D, R) BY <1>2 DEF Fine, Sound
  <1> QED BY <1>1, <1>3 DEF Fine

-----------------------------------------------------------------------------
(* Statements.                                                             *)

LEMMA QuietStmts ==
  ASSUME Building, Rest, Emitting,
         NullStmt \/ ExprStmt \/ Drop \/ CompoundStmt \/ CompoundEnd \/ ReturnStmt
  PROVE  Emitting'
  <1>1. CASE NullStmt \/ CompoundStmt
    <2>1. AtStmt /\ (stack' = Base \o <<>> \/ stack' = Base \o <<Waiting("body")>>)
          /\ UNCHANGED ir
      BY <1>1 DEF NullStmt, CompoundStmt, Begin, Base
    <2>2. Base \in Stacks /\ Fed(Base) /\ Fine(Base, code, placed, insert, slots, {}, {insert})
      BY <2>1, BaseFacts
    <2>3. /\ Good(Base \o <<>>, code, placed, insert, slots, value')
          /\ Good(Base \o <<Waiting("body")>>, code, placed, insert, slots, value')
      BY <2>2, FineRest
    <2> QED BY <2>1, <2>3 DEF Emitting, ir
  <1>2. CASE Drop \/ CompoundEnd
    <2>1. Walking /\ Top.k \in {"drop", "body"} /\ stack' = Popped \o <<>> /\ UNCHANGED ir
      BY <1>2 DEF Drop, CompoundEnd, At, Replace
    <2>2. Top.k \notin Joins /\ Top.k \notin ExprKinds BY <2>1 DEF Joins, ExprKinds
    <2>3. Owed(Top) = {} BY <2>1, PopBase
    <2>4. Popped \in Stacks /\ Fed(Popped)
          /\ Fine(Popped, code, placed, insert, slots, {}, {insert})
      BY <2>1, <2>2, <2>3, PopFacts
    <2>5. Good(Popped \o <<>>, code, placed, insert, slots, value') BY <2>4, FineRest
    <2> QED BY <2>1, <2>5 DEF Emitting, ir
  <1>3. CASE ExprStmt \/ ReturnStmt
    <2>1. PICK k \in {"drop", "return"} :
            AtStmt /\ stack' = Base \o <<Waiting(k), Waiting("expr")>> /\ UNCHANGED ir
      BY <1>3 DEF ExprStmt, ReturnStmt, Begin, Base
    <2>2. Base \in Stacks /\ Fed(Base) /\ Fine(Base, code, placed, insert, slots, {}, {insert})
      BY <2>1, BaseFacts
    <2> DEFINE f == Waiting(k)
    <2>3. k \in Quiet /\ k # "init" /\ k # "opRhs" BY QuietKinds
    <2>4. f \in Frames /\ f.k = k /\ Owed(f) = {} /\ k \notin Joins /\ k \notin Loopers
          /\ Held(f, code, placed, insert, slots)
      BY <2>3, WaitingHeld, 0 \in Nat
    <2> HIDE DEF f
    <2>5. Good(Base \o <<f, Waiting("expr")>>, code, placed, insert, slots, value')
      <3>1. insert \in {insert} /\ Owed(f) \subseteq {} /\ "expr" \in {"expr", "stmt"} BY <2>4
      <3>2. f.k \notin Joins /\ f.k \notin Loopers /\ f.k # "opRhs" BY <2>3, <2>4
      <3> QED BY <2>2, <2>4, <3>1, <3>2, FineEnter
    <2> QED BY <2>1, <2>5 DEF Emitting, ir, f
  <1> QED BY <1>1, <1>2, <1>3

LEMMA DeclGood ==
  ASSUME Building, Rest, Emitting, NEW hasInit \in BOOLEAN, DeclStmt(hasInit)
  PROVE  Emitting'
  <1> DEFINE f == [Waiting("init") EXCEPT !.saved = Node]
  <1>1. /\ AtStmt /\ slots' = slots \cup {Node} /\ UNCHANGED <<code, placed, insert>>
        /\ stack' = Base \o <<>> \/ stack' = Base \o <<f, Waiting("expr")>>
    BY DEF DeclStmt, Begin, Base
  <1>2. Base \in Stacks /\ Fed(Base) /\ Fine(Base, code, placed, insert, slots, {}, {insert})
    BY <1>1, BaseFacts
  <1>3. Fine(Base, code, placed, insert, slots', {}, {insert})
    <2>1. slots \subseteq slots' BY <1>1
    <2> QED BY <1>2, <2>1, FineSlots
  <1>4. Good(Base \o <<>>, code, placed, insert, slots', value') BY <1>2, <1>3, FineRest
  <1>5. "init" \in Quiet /\ Node \in Nat BY QuietKinds, NodeFacts
  <1>6. /\ f \in Frames /\ f.k = "init" /\ Owed(f) = {} /\ "init" \notin Joins
        /\ "init" \notin Loopers /\ Held(f, code, placed, insert, slots')
    <2>1. Node \in slots' BY <1>1
    <2> QED BY <1>5, <2>1, WaitingHeld
  <1> HIDE DEF f
  <1>7. Good(Base \o <<f, Waiting("expr")>>, code, placed, insert, slots', value')
    <2>1. insert \in {insert} /\ Owed(f) \subseteq {} /\ "expr" \in {"expr", "stmt"} BY <1>6
    <2>2. f.k \notin Joins /\ f.k \notin Loopers /\ f.k # "opRhs" BY <1>6
    <2> QED BY <1>2, <1>3, <1>6, <2>1, <2>2, FineEnter
  <1> QED BY <1>1, <1>4, <1>7 DEF Emitting

LEMMA LocalInitGood ==
  ASSUME Building, Rest, Emitting, LocalInit
  PROVE  Emitting'
  <1> DEFINE i == Store(value, Top.saved, Node)
  <1>1. /\ Walking /\ Top.k = "init" /\ stack' = Popped \o <<>> /\ code' = Add(code, insert, i)
        /\ UNCHANGED <<placed, insert, slots>>
    BY DEF LocalInit, At, Replace
  <1>2. Top.k \notin Joins /\ Top.k \notin ExprKinds /\ Top.k \in Eaters
    BY <1>1 DEF Joins, ExprKinds, Eaters
  <1>3. Owed(Top) = {} /\ Top.k # "bodyEnd" BY <1>1, PopBase
  <1>4. /\ Popped \in Stacks /\ Fed(Popped) /\ Top.saved \in slots /\ insert \in placed
        /\ Fine(Popped, code, placed, insert, slots, {}, {insert})
        /\ Defines(code[insert], value) /\ Top \in Frames
    BY <1>1, <1>2, <1>3, PopFacts DEF Held
  <1>5. Builder(Popped, code, placed, insert, loops, {}) BY <1>1, <1>3, PopBase
  <1>6. /\ i \in Instrs /\ ~IsTerminator(i) /\ i.op # "phi" /\ i.phi = {}
        /\ i.use = {value, Top.saved}
    <2>1. value \in Nat /\ Node \in Nat /\ Top.saved \in Nat
      BY <1>4, NodeFacts DEF Rest, Frames
    <2>2. i \in Instrs /\ ~IsTerminator(i) BY <2>1, StoreFacts
    <2>3. i.op # "phi" /\ i.phi = {} /\ i.use = {value, Top.saved} BY StoreParts
    <2> QED BY <2>2, <2>3
  <1> HIDE DEF i
  <1>7. Fine(Popped, Add(code, insert, i), placed, insert, slots, {}, {insert})
    <2>1. \A v \in i.use : v \in slots \/ Defines(code[insert], v) BY <1>4, <1>6
    <2>2. {insert} \subseteq placed BY <1>4
    <2> QED BY <1>4, <1>5, <1>6, <2>1, <2>2, FinePlain
  <1>8. Good(Popped \o <<>>, code', placed', insert', slots', value')
    BY <1>1, <1>4, <1>7, FineRest
  <1> QED BY <1>1, <1>8 DEF Emitting

(* The step ends with a value for the activation below.                    *)
LEMMA FineValue ==
  ASSUME NEW st \in Stacks, NEW c, NEW pl, NEW ins, NEW sl,
         Fine(st, c, pl, ins, sl, {}, {ins}), NEW v, Defines(c[ins], v)
  PROVE  Good(st \o <<>>, c, pl, ins, sl, v)
  <1>1. st \o <<>> = st BY ConcatEmptySeq DEF Stacks
  <1>2. Feeding(st, c, ins, v) BY DEF Feeding
  <1> QED BY <1>1, <1>2 DEF Good

(* The last instruction of the insertion block defines its value.          *)
LEMMA AddDefines ==
  ASSUME NEW c \in Codes, NEW b \in 1..Len(c), NEW i \in Instrs
  PROVE  Defines(Add(c, b, i)[b], i.def)
  <1> DEFINE e == Add(c, b, i)
             n == Len(c[b]) + 1
  <1>1. Len(c[b]) \in Nat /\ Len(e[b]) = n /\ e[b][n] = i BY AddFacts, ZenonT(60)
  <1>2. n \in 1..Len(e[b]) BY <1>1
  <1> HIDE DEF e, n
  <1> QED BY <1>1, <1>2 DEF Defines, e

LEMMA IfStmtGood ==
  ASSUME Building, Emitting, NEW hasElse \in BOOLEAN, IfStmt(hasElse)
  PROVE  Emitting'
  <1> DEFINE n == Len(code)
             k == IF hasElse THEN 3 ELSE 2
             c == Blocks(code, k)
             f == IF hasElse THEN Frame("ifCond", n + 1, n + 2, n + 3, 0)
                             ELSE Frame("ifCond", n + 1, 0, n + 2, 0)
             D == {} \cup (n + 1..n + k)
  <1>1. /\ code' = c /\ stack' = Base \o <<f, Waiting("expr")>>
        /\ UNCHANGED <<placed, insert, slots>> /\ AtStmt
    BY DEF IfStmt, Begin, NBlocks, Base
  <1>2. n \in Nat /\ n # 0 BY BuilderFacts DEF Building
  <1>3. /\ Builder(Base, code, placed, insert, loops, {}) /\ Base \in Stacks /\ Fed(Base)
        /\ Fine(Base, code, placed, insert, slots, {}, {insert}) /\ {insert} \subseteq placed
    BY <1>1, BaseFacts
  <1>4. k \in Nat OBVIOUS
  <1>5. Fine(Base, c, placed, insert, slots, D, {insert})
    <2> HIDE DEF k
    <2> QED BY <1>3, <1>4, FineBlocks
  <1>6. f \in Frames /\ f.k = "ifCond" /\ Owed(f) \subseteq D
    <2>1. "ifCond" \in FrameKinds /\ 0 \in Nat BY DEF FrameKinds
    <2>2. CASE hasElse
      <3>1. /\ f.k = "ifCond" /\ f.next = n + 1 /\ f.alt = n + 2 /\ f.end = n + 3 /\ k = 3
            /\ f \in Frames
        BY <1>2, <2>1, <2>2 DEF Frame, Frames
      <3>2. {n + 1, n + 2, n + 3} \subseteq n + 1..n + 3 BY <1>2
      <3> HIDE DEF f, k
      <3> QED BY <3>1, <3>2 DEF Owed
    <2>3. CASE ~hasElse
      <3>1. /\ f.k = "ifCond" /\ f.next = n + 1 /\ f.alt = 0 /\ f.end = n + 2 /\ k = 2
            /\ f \in Frames
        BY <1>2, <2>1, <2>3 DEF Frame, Frames
      <3>2. {n + 1, n + 2} \subseteq n + 1..n + 2 BY <1>2
      <3> HIDE DEF f, k
      <3> QED BY <3>1, <3>2 DEF Owed
    <2> QED BY <2>2, <2>3
  <1> HIDE DEF c, f, D
  <1>7. f.k \notin Joins /\ f.k \notin Loopers /\ f.k # "opRhs" /\ f.k # "init"
    BY <1>6 DEF Joins, Loopers
  <1>8. Held(f, c, placed, insert, slots) BY <1>7 DEF Held
  <1>9. Good(Base \o <<f, Waiting("expr")>>, c, placed, insert, slots, value')
    <2>1. insert \in {insert} /\ "expr" \in {"expr", "stmt"} OBVIOUS
    <2> QED BY <1>3, <1>5, <1>6, <1>7, <1>8, <2>1, FineEnter
  <1> QED BY <1>1, <1>9 DEF Emitting

LEMMA IfCondGood ==
  ASSUME Building, Rest, Emitting, IfCond
  PROVE  Emitting'
  <1> DEFINE b == Top.next
             d == IF Top.alt # 0 THEN Top.alt ELSE Top.end
             i == CondBr(value, b, d, Node)
             f == Frame("thenEnd", 0, Top.alt, Top.end, 0)
             c == Add(code, insert, i)
  <1>1. /\ Walking /\ Top.k = "ifCond" /\ code' = c /\ slots' = slots
        /\ placed' = placed \cup {b} /\ insert' = b
        /\ stack' = Popped \o <<f, Waiting("stmt")>>
    BY DEF IfCond, At, StartBlock, Replace
  <1>2. /\ Builder(Popped, code, placed, insert, loops, Owed(Top))
        /\ FrameOK(Top, Len(code)) /\ Len(code) \in Nat /\ Top \in Frames
    BY <1>1, PopBase, TopFacts
  <1>3. /\ b \in Nat /\ Top.alt \in Nat /\ Top.end \in Nat /\ b # 0 /\ Top.end # 0
        /\ {b, Top.alt, Top.end} \ {0} \subseteq 2..Len(code)
        /\ Owed(Top) = {b, Top.alt, Top.end} \ {0}
    BY <1>1, <1>2 DEF FrameOK, Frames, Owed
  <1>4. /\ b \in 2..Len(code) /\ d \in 2..Len(code) /\ d \in Nat /\ b \in Owed(Top)
        /\ d \in Owed(Top) /\ {Top.alt, Top.end} \ {0} \subseteq Owed(Top)
    BY <1>3
  <1>5. value \in Nat /\ Node \in Nat BY NodeFacts DEF Rest
  <1>6. Top.k \notin Joins /\ Top.k \notin ExprKinds /\ Top.k \in Eaters
    BY <1>1 DEF Joins, ExprKinds, Eaters
  <1>7. /\ Popped \in Stacks /\ Fed(Popped)
        /\ Fine(Popped, code, placed, insert, slots, Owed(Top), {insert})
        /\ Defines(code[insert], value)
    BY <1>1, <1>6, PopFacts
  <1>8. f \in Frames /\ f.k = "thenEnd" /\ Owed(f) = {Top.alt, Top.end} \ {0}
    <2>1. "thenEnd" \in FrameKinds /\ 0 \in Nat BY DEF FrameKinds
    <2>2. f.k = "thenEnd" /\ f.next = 0 /\ f.alt = Top.alt /\ f.end = Top.end /\ f \in Frames
      BY <1>3, <2>1 DEF Frame, Frames
    <2> HIDE DEF f
    <2>3. {0, Top.alt, Top.end} \ {0} = {Top.alt, Top.end} \ {0} OBVIOUS
    <2> QED BY <2>2, <2>3 DEF Owed
  <1> HIDE DEF b, d, f
  <1>9. i \in Instrs /\ IsTerminator(i) /\ i.phi = {} /\ i.use = {value} /\ Exits(i) = {b, d}
    <2>1. i \in Instrs /\ IsTerminator(i) BY <1>3, <1>4, <1>5, CondBrFacts
    <2>2. i.phi = {} /\ i.use = {value} /\ Exits(i) = {b, d} BY CondBrParts
    <2> QED BY <2>1, <2>2
  <1> HIDE DEF i
  <1>10. Kept(code, c, placed) /\ \A t \in Exits(i) : NoPhi(code[t])
    <2>1. Graph(code, placed, insert) BY <1>2 DEF Builder
    <2>2. Exits(i) \subseteq (1..Len(code)) \ placed BY <1>2, <1>4, <1>9, BuilderFacts
    <2> QED BY <1>9, <2>1, <2>2, ForwardExits
  <1> DEFINE E == Owed(f)
  <1>11. Fine(Popped, c, placed \cup {b}, b, slots, E, {b})
    <2>1. E \subseteq Owed(Top) BY <1>4, <1>8
    <2>2. \A v \in i.use : v \in slots \/ Defines(code[insert], v) BY <1>7, <1>9
    <2> HIDE DEF E
    <2> QED BY <1>2, <1>4, <1>7, <1>9, <1>10, <2>1, <2>2, FineMove
  <1> HIDE DEF c
  <1>12. f.k \notin Joins /\ f.k \notin Loopers /\ f.k # "opRhs" /\ f.k # "init" /\ f.k \notin Hungry
    BY <1>8 DEF Joins, Loopers, Hungry, Eaters
  <1>13. Held(f, c, placed', b, slots) BY <1>12 DEF Held
  <1>14. Good(Popped \o <<f, Waiting("stmt")>>, c, placed', b, slots, value')
    <2>1. b \in {b} /\ "stmt" \in {"expr", "stmt"} OBVIOUS
    <2>2. Fine(Popped, c, placed', b, slots, E, {b}) BY <1>1, <1>11
    <2> QED BY <1>7, <1>8, <1>12, <1>13, <2>1, <2>2, FineEnter
  <1> QED BY <1>1, <1>14 DEF Emitting

(* A branch to a block that the statement on top still has to start.       *)
LEMMA BrForward ==
  ASSUME NEW st, NEW c, NEW pl, NEW ins, NEW ls, NEW D, Builder(st, c, pl, ins, ls, D),
         NEW b \in D
  PROVE  /\ Br(b) \in Instrs /\ IsTerminator(Br(b)) /\ Br(b).phi = {} /\ Br(b).use = {}
         /\ Exits(Br(b)) = {b} /\ Kept(c, Add(c, ins, Br(b)), pl)
         /\ \A t \in Exits(Br(b)) : NoPhi(c[t])
  <1>1. b \in 2..Len(c) /\ b \in (1..Len(c)) \ pl /\ b \in Nat
    <2>1. b \in 2..Len(c) /\ b \in (1..Len(c)) \ pl /\ 2..Len(c) \subseteq Nat BY BuilderFacts
    <2> QED BY <2>1
  <1>2. Br(b) \in Instrs /\ IsTerminator(Br(b)) BY <1>1, BrFacts
  <1>3. Br(b).phi = {} /\ Br(b).use = {} /\ Exits(Br(b)) = {b} BY BrParts
  <1>4. Graph(c, pl, ins) BY DEF Builder
  <1>5. Exits(Br(b)) \subseteq (1..Len(c)) \ pl BY <1>1, <1>3
  <1>6. Kept(c, Add(c, ins, Br(b)), pl) /\ \A t \in Exits(Br(b)) : NoPhi(c[t])
    BY <1>2, <1>4, <1>5, ForwardExits
  <1> QED BY <1>2, <1>3, <1>6

LEMMA JoinGood ==
  ASSUME Building, Emitting, ThenEnd \/ ElseEnd
  PROVE  Emitting'
  <1> DEFINE b == Top.end
             i == Br(b)
             c == Add(code, insert, i)
  <1>1. /\ Walking /\ Top.k \in {"thenEnd", "elseEnd"} /\ slots' = slots
        /\ code' = BranchTo(code, b) /\ placed' = placed \cup {b} /\ insert' = b
        /\ stack' = Popped \o <<>>
    BY DEF ThenEnd, ElseEnd, At, StartBlock, Replace
  <1>2. /\ Builder(Popped, code, placed, insert, loops, Owed(Top))
        /\ FrameOK(Top, Len(code)) /\ Top \in Frames
    BY <1>1, PopBase, TopFacts
  <1>3. b \in Nat /\ b \in Owed(Top)
    <2>1. Top.end \in Nat /\ Top.end # 0 BY <1>1, <1>2 DEF FrameOK, Frames
    <2> QED BY <2>1 DEF Owed
  <1>4. Top.k \notin Joins /\ Top.k \notin ExprKinds BY <1>1 DEF Joins, ExprKinds
  <1>5. /\ Popped \in Stacks /\ Fed(Popped)
        /\ Fine(Popped, code, placed, insert, slots, Owed(Top), {insert})
    BY <1>1, <1>4, PopFacts
  <1> HIDE DEF b
  <1>6. code' = c BY <1>1, <1>3, BranchToFacts
  <1>7. /\ i \in Instrs /\ IsTerminator(i) /\ i.phi = {} /\ i.use = {}
        /\ Kept(code, c, placed) /\ \A t \in Exits(i) : NoPhi(code[t])
    BY <1>2, <1>3, BrForward
  <1> HIDE DEF i
  <1>8. Fine(Popped, c, placed \cup {b}, b, slots, {}, {b})
    <2>1. \A v \in i.use : v \in slots \/ Defines(code[insert], v) BY <1>7
    <2>2. {} \subseteq Owed(Top) OBVIOUS
    <2> QED BY <1>2, <1>3, <1>5, <1>7, <2>1, <2>2, FineMove
  <1> HIDE DEF c
  <1>9. Good(Popped \o <<>>, c, placed \cup {b}, b, slots, value') BY <1>5, <1>8, FineRest
  <1> QED BY <1>1, <1>6, <1>9 DEF Emitting

LEMMA ElseStartGood ==
  ASSUME Building, Emitting, ElseStart
  PROVE  Emitting'
  <1> DEFINE b == Top.alt
             f == Frame("elseEnd", 0, 0, Top.end, 0)
             i == Br(Top.end)
             c == Add(code, insert, i)
  <1>1. /\ Walking /\ Top.k = "thenEnd" /\ b # 0 /\ slots' = slots
        /\ code' = BranchTo(code, Top.end)
        /\ placed' = placed \cup {b} /\ insert' = b
        /\ stack' = Popped \o <<f, Waiting("stmt")>>
    BY DEF ElseStart, At, StartBlock, Replace
  <1>2. /\ Builder(Popped, code, placed, insert, loops, Owed(Top))
        /\ FrameOK(Top, Len(code)) /\ Top \in Frames
    BY <1>1, PopBase, TopFacts
  <1>3. b \in Owed(Top) /\ Top.end \in Nat /\ Top.end \in Owed(Top)
    <2>1. Top.end \in Nat /\ Top.end # 0 BY <1>1, <1>2 DEF FrameOK, Frames
    <2> QED BY <1>1, <2>1 DEF Owed
  <1>4. Top.k \notin Joins /\ Top.k \notin ExprKinds BY <1>1 DEF Joins, ExprKinds
  <1>5. /\ Popped \in Stacks /\ Fed(Popped)
        /\ Fine(Popped, code, placed, insert, slots, Owed(Top), {insert})
    BY <1>1, <1>4, PopFacts
  <1>6. code' = c BY <1>1, <1>3, BranchToFacts
  <1>7. f \in Frames /\ f.k = "elseEnd" /\ Owed(f) \subseteq Owed(Top)
    <2>1. "elseEnd" \in FrameKinds /\ 0 \in Nat BY DEF FrameKinds
    <2>2. f.k = "elseEnd" /\ f.next = 0 /\ f.alt = 0 /\ f.end = Top.end /\ f \in Frames
      BY <1>3, <2>1 DEF Frame, Frames
    <2> HIDE DEF f
    <2> QED BY <1>3, <2>2 DEF Owed
  <1> HIDE DEF b, f
  <1>8. /\ i \in Instrs /\ IsTerminator(i) /\ i.phi = {} /\ i.use = {}
        /\ Kept(code, c, placed) /\ \A t \in Exits(i) : NoPhi(code[t])
    BY <1>2, <1>3, BrForward
  <1> HIDE DEF i
  <1> DEFINE E == Owed(f)
  <1>9. Fine(Popped, c, placed \cup {b}, b, slots, E, {b})
    <2>1. \A v \in i.use : v \in slots \/ Defines(code[insert], v) BY <1>8
    <2>2. E \subseteq Owed(Top) BY <1>7
    <2> HIDE DEF E
    <2> QED BY <1>2, <1>3, <1>5, <1>8, <2>1, <2>2, FineMove
  <1> HIDE DEF c
  <1>10. f.k \notin Joins /\ f.k \notin Loopers /\ f.k # "opRhs" /\ f.k # "init" /\ f.k \notin Hungry
    BY <1>7 DEF Joins, Loopers, Hungry, Eaters
  <1>11. Held(f, c, placed', b, slots) BY <1>10 DEF Held
  <1>12. Good(Popped \o <<f, Waiting("stmt")>>, c, placed', b, slots, value')
    <2>1. b \in {b} /\ "stmt" \in {"expr", "stmt"} OBVIOUS
    <2>2. Fine(Popped, c, placed', b, slots, E, {b}) BY <1>1, <1>9
    <2> QED BY <1>5, <1>7, <1>10, <1>11, <2>1, <2>2, FineEnter
  <1> QED BY <1>1, <1>6, <1>12 DEF Emitting

(* An edge of the graph ends in one of its blocks.                         *)
LEMMA EdgeInto ==
  ASSUME NEW c, Edges(c), NEW x \in 1..Len(c), NEW y, Edge(c, x, y)
  PROVE  y \in 2..Len(c)
  <1>1. PICK j \in 1..Len(c[x]) : \E t \in 1..Len(c[x][j].to) : c[x][j].to[t] = y BY DEF Edge
  <1>2. Into(c[x][j], Len(c)) BY DEF Edges
  <1> QED BY <1>1, <1>2 DEF Into

(* The head of a loop is new when control branches to it.                  *)
LEMMA NewHead ==
  ASSUME NEW c \in Codes, Edges(c), NEW ins \in 1..Len(c), NEW k \in Nat, NEW b \in Nat,
         b = Len(c) + 1, NEW d \in Codes, d = Blocks(c, k), b \in 1..Len(d), 2 <= b,
         Br(b) \in Instrs, NEW pl, b \in pl
  PROVE  LoopHead(Add(d, ins, Br(b)), pl, b, b)
  <1> DEFINE e == Add(d, ins, Br(b))
  <1>1. /\ Len(c) \in Nat /\ Len(d) = Len(c) + k
        /\ \A x \in Len(c) + 1..Len(c) + k : d[x] = <<>>
    BY BlocksFacts
  <1>2. ins \in 1..Len(d) /\ ins # b /\ b \in Len(c) + 1..Len(c) + k BY <1>1
  <1>3. Grown(c, d, 0, {}) BY BlocksGrown
  <1>4. Exits(Br(b)) = {b} BY BrParts
  <1>5. Grown(d, e, ins, {b}) BY <1>2, <1>4, AddEdges
  <1>6. Len(e) = Len(d) /\ e[b] = d[b] BY <1>2, AddFacts, ZenonT(60)
  <1> HIDE DEF e
  <1>7. NoPhi(e[b])
    <2>1. e[b] = <<>> BY <1>1, <1>2, <1>6
    <2>2. \A j \in 1..Len(<<>>) : FALSE OBVIOUS
    <2> QED BY <2>1, <2>2 DEF NoPhi
  <1>8. ASSUME NEW x \in 1..Len(e), NEW y \in Nat, Edge(e, x, y), y > b PROVE x >= b
    <2>1. Edge(d, x, y)
      <3>1. y # b BY <1>8
      <3> QED BY <3>1, <1>5, <1>8 DEF Grown
    <2>2. x \in 1..Len(c) /\ Edge(c, x, y) BY <2>1, <1>3, <1>6 DEF Grown
    <2>3. y \in 2..Len(c) BY <2>2, EdgeInto
    <2> QED BY <1>1, <1>8, <2>3
  <1>9. b <= b OBVIOUS
  <1> QED BY <1>7, <1>8, <1>9 DEF LoopHead, e

LEMMA WhileStmtGood ==
  ASSUME Building, Emitting, WhileStmt
  PROVE  Emitting'
  <1> DEFINE n == Len(code)
             b == n + 1
             c == Blocks(code, 3)
             f == Frame("whileCond", n + 2, 0, n + 3, n + 1)
             i == Br(b)
             e == Add(c, insert, i)
             D == n + 1..n + 3
             E == {n + 2, n + 3}
  <1>1. /\ AtStmt /\ code' = e /\ stack' = Base \o <<f, Waiting("expr")>> /\ slots' = slots
        /\ placed' = placed \cup {b} /\ insert' = b
    BY DEF WhileStmt, Begin, StartBlock, NBlocks, Base
  <1>2. n \in Nat /\ n # 0 BY BuilderFacts DEF Building
  <1>3. /\ Builder(Base, code, placed, insert, loops, {}) /\ Base \in Stacks /\ Fed(Base)
        /\ Fine(Base, code, placed, insert, slots, {}, {insert}) /\ {insert} \subseteq placed
    BY <1>1, BaseFacts
  <1>4. Builder(Base, c, placed, insert, loops, D) /\ Len(c) = n + 3
    BY <1>3, 3 \in Nat, BuilderCreate
  <1>5. Fine(Base, c, placed, insert, slots, D, {insert})
    <2>1. Fine(Base, c, placed, insert, slots, {} \cup D, {insert})
      BY <1>3, 3 \in Nat, FineBlocks
    <2>2. {} \cup D = D OBVIOUS
    <2> HIDE DEF D
    <2> QED BY <2>1, <2>2
  <1>6. b \in D /\ E \subseteq D /\ b \in Nat /\ 2 <= b /\ b \in 1..n + 3 /\ b = n + 1
        /\ \A o \in E : o > b
    BY <1>2
  <1>7. f \in Frames /\ f.k = "whileCond" /\ Owed(f) \subseteq E /\ f.back = b
    <2>1. "whileCond" \in FrameKinds /\ 0 \in Nat BY DEF FrameKinds
    <2>2. /\ f.k = "whileCond" /\ f.next = n + 2 /\ f.alt = 0 /\ f.end = n + 3 /\ f.back = b
          /\ f \in Frames
      BY <1>2, <2>1 DEF Frame, Frames
    <2> HIDE DEF f
    <2> QED BY <2>2 DEF Owed
  <1> HIDE DEF D, b
  <1>8. /\ i \in Instrs /\ IsTerminator(i) /\ i.phi = {} /\ i.use = {}
        /\ Kept(c, e, placed) /\ \A t \in Exits(i) : NoPhi(c[t])
    <2> HIDE DEF c
    <2> QED BY <1>4, <1>6, BrForward
  <1>9. LoopHead(e, placed \cup {b}, b, b)
    <2>1. code \in Codes /\ Edges(code) /\ insert \in 1..Len(code)
      BY BuilderFacts DEF Building, Builder, Graph
    <2>2. c \in Codes /\ b \in 1..Len(c) BY <1>4, <1>6, BuilderFacts
    <2>3. b \in placed \cup {b} OBVIOUS
    <2> QED BY <1>6, <1>8, <2>1, <2>2, <2>3, 3 \in Nat, NewHead
  <1> HIDE DEF i, c
  <1>10. Fine(Base, e, placed \cup {b}, b, slots, E, {b})
    <2>1. \A v \in i.use : v \in slots \/ Defines(c[insert], v) BY <1>8
    <2> HIDE DEF E
    <2> QED BY <1>3, <1>4, <1>5, <1>6, <1>8, <2>1, FineMove
  <1> HIDE DEF e, f, E
  <1>11. f.k \notin Joins /\ f.k # "opRhs" /\ f.k # "init" BY <1>7 DEF Joins
  <1>12. Held(f, e, placed', b, slots) BY <1>1, <1>7, <1>9, <1>11 DEF Held
  <1>13. Good(Base \o <<f, Waiting("expr")>>, e, placed', b, slots, value')
    <2>1. b \in {b} /\ "expr" \in {"expr", "stmt"} OBVIOUS
    <2>2. Fine(Base, e, placed', b, slots, E, {b}) BY <1>1, <1>10
    <2>3. f.k \in Loopers => \A o \in E : o > f.back BY <1>6, <1>7
    <2> QED BY <1>3, <1>7, <1>11, <1>12, <2>1, <2>2, <2>3, FineEnter
  <1> QED BY <1>1, <1>13 DEF Emitting

LEMMA WhileCondGood ==
  ASSUME Building, Rest, Emitting, WhileCond
  PROVE  Emitting'
  <1> DEFINE b == Top.next
             h == Top.back
             i == CondBr(value, b, Top.end, Node)
             f == Frame("bodyEnd", 0, 0, Top.end, Top.back)
             c == Add(code, insert, i)
             E == {Top.end}
  <1>1. /\ Walking /\ Top.k = "whileCond" /\ code' = c /\ slots' = slots
        /\ placed' = placed \cup {b} /\ insert' = b
        /\ stack' = Popped \o <<f, Waiting("stmt")>>
    BY DEF WhileCond, At, StartBlock, Replace
  <1>2. /\ Builder(Popped, code, placed, insert, loops, Owed(Top))
        /\ FrameOK(Top, Len(code)) /\ Top \in Frames
    BY <1>1, PopBase, TopFacts
  <1>3. /\ b \in Nat /\ Top.end \in Nat /\ h \in Nat /\ b # 0 /\ Top.end # 0
        /\ b \in Owed(Top) /\ E \subseteq Owed(Top) /\ Top.end \in Owed(Top)
    <2>1. b \in Nat /\ Top.end \in Nat /\ h \in Nat /\ b # 0 /\ Top.end # 0
      BY <1>1, <1>2 DEF FrameOK, Frames
    <2> QED BY <2>1 DEF Owed
  <1>4. value \in Nat /\ Node \in Nat BY NodeFacts DEF Rest
  <1>5. Top.k \notin Joins /\ Top.k \notin ExprKinds /\ Top.k \in Eaters /\ Top.k \in Loopers
    BY <1>1 DEF Joins, ExprKinds, Eaters, Loopers
  <1>6. /\ Popped \in Stacks /\ Fed(Popped) /\ LoopHead(code, placed, insert, h)
        /\ Fine(Popped, code, placed, insert, slots, Owed(Top), {insert})
        /\ Defines(code[insert], value) /\ \A o \in Owed(Top) : o > h
    BY <1>1, <1>5, PopFacts DEF Held
  <1>7. f \in Frames /\ f.k = "bodyEnd" /\ Owed(f) \subseteq E /\ f.back = h
    <2>1. "bodyEnd" \in FrameKinds /\ 0 \in Nat BY DEF FrameKinds
    <2>2. f.k = "bodyEnd" /\ f.next = 0 /\ f.alt = 0 /\ f.end = Top.end /\ f.back = h /\ f \in Frames
      BY <1>3, <2>1 DEF Frame, Frames
    <2> HIDE DEF f
    <2> QED BY <2>2 DEF Owed
  <1>8. /\ code \in Codes /\ placed \subseteq 1..Len(code) /\ insert \in Nat
        /\ insert \in 1..Len(code) /\ b \in 2..Len(code) /\ Top.end \in 2..Len(code)
        /\ {b, Top.end} \subseteq (1..Len(code)) \ placed
    BY <1>2, <1>3, BuilderFacts
  <1>9. i \in Instrs /\ IsTerminator(i) /\ i.phi = {} /\ i.use = {value} /\ Exits(i) = {b, Top.end}
    <2>1. i \in Instrs /\ IsTerminator(i) BY <1>3, <1>4, <1>8, CondBrFacts
    <2>2. i.phi = {} /\ i.use = {value} /\ Exits(i) = {b, Top.end} BY CondBrParts
    <2> QED BY <2>1, <2>2
  <1> HIDE DEF b, f, i, h, E
  <1>10. Kept(code, c, placed) /\ \A t \in Exits(i) : NoPhi(code[t])
    <2>1. Graph(code, placed, insert) BY <1>2 DEF Builder
    <2> QED BY <1>8, <1>9, <2>1, ForwardExits
  <1>11. Fine(Popped, c, placed \cup {b}, b, slots, E, {b})
    <2>1. \A v \in i.use : v \in slots \/ Defines(code[insert], v) BY <1>6, <1>9
    <2> QED BY <1>2, <1>3, <1>6, <1>9, <1>10, <2>1, FineMove
  <1>12. LoopHead(c, placed \cup {b}, b, h)
    <2>1. i.op # "phi" BY <1>9 DEF IsTerminator, Terminators
    <2>2. b > h BY <1>3, <1>6
    <2>3. h <= b BY <1>3, <2>2
    <2>4. placed \subseteq placed \cup {b} OBVIOUS
    <2> QED BY <1>3, <1>6, <1>8, <1>9, <2>1, <2>3, <2>4, LoopHeadAdd
  <1> HIDE DEF c
  <1>13. f.k \notin Joins /\ f.k # "opRhs" /\ f.k # "init" /\ f.k \notin Hungry
    BY <1>7 DEF Joins, Hungry, Eaters
  <1>14. Held(f, c, placed', b, slots) BY <1>1, <1>7, <1>12, <1>13 DEF Held
  <1>15. Good(Popped \o <<f, Waiting("stmt")>>, c, placed', b, slots, value')
    <2>1. b \in {b} /\ "stmt" \in {"expr", "stmt"} OBVIOUS
    <2>2. Fine(Popped, c, placed', b, slots, E, {b}) BY <1>1, <1>11
    <2>3. f.k \in Loopers => \A o \in E : o > f.back BY <1>3, <1>6, <1>7
    <2> QED BY <1>6, <1>7, <1>13, <1>14, <2>1, <2>2, <2>3, FineEnter
  <1> QED BY <1>1, <1>15 DEF Emitting

LEMMA BodyEndGood ==
  ASSUME Building, Emitting, BodyEnd
  PROVE  Emitting'
  <1> DEFINE b == Top.end
             h == Top.back
             i == Br(h)
             m == SubSeq(loops, 1, Len(loops) - 1)
             c == Add(code, insert, i)
  <1>1. /\ Walking /\ Top.k = "bodyEnd" /\ code' = BranchTo(code, h) /\ slots' = slots
        /\ placed' = placed \cup {b} /\ insert' = b
        /\ stack' = Popped \o <<>>
    BY DEF BodyEnd, At, StartBlock, Replace
  <1>2. /\ Builder(Popped, code, placed, insert, m, Owed(Top))
        /\ FrameOK(Top, Len(code)) /\ Top \in Frames
    <2>1. Builder(Popped, code, placed, insert, m, Owed(Top))
      BY <1>1, BuilderLeave DEF Building, Walking, Top, Popped
    <2> QED BY <1>1, <2>1, TopFacts
  <1>3. h \in Nat /\ h \in 2..Len(code) /\ b \in Owed(Top)
    <2>1. b # 0 /\ h \in Nat /\ h \in 2..Len(code) BY <1>1, <1>2 DEF FrameOK, Frames
    <2> QED BY <2>1 DEF Owed
  <1>4. Top.k \notin Joins /\ Top.k \notin ExprKinds /\ Top.k \in Loopers
    BY <1>1 DEF Joins, ExprKinds, Loopers
  <1>5. /\ Popped \in Stacks /\ Fed(Popped) /\ LoopHead(code, placed, insert, h)
        /\ Fine(Popped, code, placed, insert, slots, Owed(Top), {insert})
    BY <1>1, <1>4, PopFacts DEF Held
  <1> HIDE DEF b, m, h
  <1>6. code' = c BY <1>1, <1>3, BranchToFacts
  <1>7. i \in Instrs /\ IsTerminator(i) /\ i.phi = {} /\ i.use = {} /\ Exits(i) = {h}
    <2>1. i \in Instrs /\ IsTerminator(i) BY <1>3, BrFacts
    <2>2. i.phi = {} /\ i.use = {} /\ Exits(i) = {h} BY BrParts
    <2> QED BY <2>1, <2>2
  <1> HIDE DEF i
  <1>8. Kept(code, c, placed) /\ \A t \in Exits(i) : NoPhi(code[t])
    <2>1. Graph(code, placed, insert) /\ insert \in Nat BY <1>2, BuilderFacts DEF Builder
    <2> QED BY <1>3, <1>5, <1>7, <2>1, BackExit
  <1>9. Fine(Popped, c, placed \cup {b}, b, slots, {}, {b})
    <2>1. \A v \in i.use : v \in slots \/ Defines(code[insert], v) BY <1>7
    <2>2. {} \subseteq Owed(Top) OBVIOUS
    <2> QED BY <1>2, <1>3, <1>5, <1>7, <1>8, <2>1, <2>2, FineMove
  <1> HIDE DEF c
  <1>10. Good(Popped \o <<>>, c, placed \cup {b}, b, slots, value') BY <1>5, <1>9, FineRest
  <1> QED BY <1>1, <1>6, <1>10 DEF Emitting

(* The entry of loops_ that break and continue read is that of the         *)
(* innermost loop body the walk is in.                                     *)
LEMMA InnermostFrame ==
  ASSUME Building, LoopDepth > 0
  PROVE  \E i \in 1..Len(stack) :
           /\ stack[i].k = "bodyEnd" /\ loops[Len(loops)] = LoopOf(stack[i])
           /\ \A j \in i + 1..Len(stack) : stack[j].k # "bodyEnd"
  <1> DEFINE B == BodiesOf(stack)
  <1>1. Bodies = B BY DEF Bodies, BodiesOf
  <1>2. stack \in Stacks /\ Len(stack) \in Nat BY BuilderFacts, StackFacts DEF Building
  <1>3. /\ Len(loops) = Cardinality(B)
        /\ \A i \in B : loops[NestingIn(stack, i)] = LoopOf(stack[i])
    BY DEF Building, Builder, LoopsInv
  <1>4. B \in SUBSET (1..Len(stack)) BY DEF BodiesOf
  <1>5. B # {}
    <2>1. SUFFICES ASSUME B = {} PROVE FALSE OBVIOUS
    <2>2. Cardinality(B) = 0 BY <2>1, FS_EmptySet
    <2> QED BY <1>1, <2>2 DEF LoopDepth
  <1>6. \A i \in B : i \in 1..Len(stack) /\ stack[i].k = "bodyEnd" BY DEF BodiesOf
  <1>7. \A i \in B : NestingIn(stack, i) = Cardinality({j \in B : j <= i}) BY DEF NestingIn
  <1> HIDE DEF B
  <1>8. PICK i \in B : \A j \in B : j <= i BY <1>2, <1>4, <1>5, LastPlace
  <1>9. {j \in B : j <= i} = B BY <1>8
  <1>10. NestingIn(stack, i) = Len(loops) BY <1>3, <1>7, <1>9
  <1>11. \A j \in i + 1..Len(stack) : stack[j].k # "bodyEnd"
    <2>1. \A j \in i + 1..Len(stack) : j \in 1..Len(stack) /\ ~(j <= i) BY <1>2, <1>6
    <2>2. \A j \in 1..Len(stack) : stack[j].k = "bodyEnd" => j \in B BY DEF B, BodiesOf
    <2> QED BY <1>8, <2>1, <2>2
  <1> QED BY <1>3, <1>6, <1>10, <1>11

(* The statement that ends the insertion block goes on in a dead one.      *)
LEMMA DeadFine ==
  ASSUME NEW st, Builder(st, code, placed, insert, loops, {}), Fed(st),
         Fine(st, code, placed, insert, slots, {}, {insert}), insert \in placed,
         NEW i \in Instrs, IsTerminator(i), i.phi = {},
         \A v \in i.use : v \in slots \/ Defines(code[insert], v),
         Kept(Blocks(code, 1), Add(Blocks(code, 1), insert, i), placed),
         \A t \in Exits(i) : NoPhi(Blocks(code, 1)[t]),
         EndAndStartDead(i), stack' = st \o <<>>, slots' = slots
  PROVE  Emitting'
  <1> DEFINE n == Len(code) + 1
             c == Blocks(code, 1)
  <1>1. Len(code) \in Nat /\ st \in Stacks /\ code \in Codes /\ insert \in 1..Len(code)
    BY BuilderFacts
  <1>2. Builder(st, c, placed, insert, loops, Len(code) + 1..Len(code) + 1)
    BY BuilderCreate, 1 \in Nat
  <1>3. Len(code) + 1..Len(code) + 1 = {n} BY <1>1
  <1>4. c[insert] = code[insert] BY <1>1, 1 \in Nat, BlocksFacts
  <1>5. code' = Add(c, insert, i) /\ placed' = placed \cup {n} /\ insert' = n
    BY DEF EndAndStartDead, StartBlock, NBlocks
  <1>6. Fine(st, c, placed, insert, slots, {} \cup (Len(code) + 1..Len(code) + 1), {insert})
    <2>1. {insert} \subseteq placed OBVIOUS
    <2> QED BY <2>1, 1 \in Nat, FineBlocks
  <1>7. Fine(st, c, placed, insert, slots, {n}, {insert})
    <2>1. {} \cup (Len(code) + 1..Len(code) + 1) = {n} BY <1>3
    <2> HIDE DEF n
    <2> QED BY <1>6, <2>1
  <1>8. Builder(st, c, placed, insert, loops, {n}) BY <1>2, <1>3
  <1>9. Kept(c, Add(c, insert, i), placed) /\ \A t \in Exits(i) : NoPhi(c[t]) OBVIOUS
  <1> HIDE DEF c, n
  <1>10. Fine(st, Add(c, insert, i), placed \cup {n}, n, slots, {}, {n})
    <2>1. n \in {n} /\ {} \subseteq {n} OBVIOUS
    <2>2. \A v \in i.use : v \in slots \/ Defines(c[insert], v) BY <1>4
    <2>3. \A t \in Exits(i) : t \in 1..Len(c) => NoPhi(c[t]) BY <1>9
    <2> QED BY <1>7, <1>8, <1>9, <2>1, <2>2, <2>3, FineMove
  <1>11. Good(st \o <<>>, Add(c, insert, i), placed \cup {n}, n, slots, value')
    BY <1>1, <1>10, FineRest
  <1> QED BY <1>5, <1>11 DEF Emitting

(* A return branches nowhere.                                              *)
LEMMA RetKept ==
  ASSUME NEW st, Builder(st, code, placed, insert, loops, {}),
         NEW i \in Instrs, Exits(i) = {}
  PROVE  /\ Kept(Blocks(code, 1), Add(Blocks(code, 1), insert, i), placed)
         /\ \A t \in Exits(i) : NoPhi(Blocks(code, 1)[t])
  <1> DEFINE c == Blocks(code, 1)
  <1>1. Builder(st, c, placed, insert, loops, Len(code) + 1..Len(code) + 1)
    BY BuilderCreate, 1 \in Nat
  <1> HIDE DEF c
  <1>2. Graph(c, placed, insert) BY <1>1 DEF Builder
  <1>3. Exits(i) \subseteq (1..Len(c)) \ placed OBVIOUS
  <1>4. Kept(c, Add(c, insert, i), placed) /\ \A t \in Exits(i) : NoPhi(c[t])
    BY <1>2, <1>3, ForwardExits
  <1> QED BY <1>4 DEF c

(* A break branches to a block the loop has yet to start, a continue back  *)
(* to its head.                                                            *)
LEMMA JumpKept ==
  ASSUME Building, Emitting, LoopDepth > 0, NEW b,
         b \in {loops[Len(loops)].breakTo, loops[Len(loops)].continueTo}
  PROVE  /\ Br(b) \in Instrs /\ IsTerminator(Br(b)) /\ Br(b).phi = {} /\ Br(b).use = {}
         /\ Kept(Blocks(code, 1), Add(Blocks(code, 1), insert, Br(b)), placed)
         /\ \A t \in Exits(Br(b)) : NoPhi(Blocks(code, 1)[t])
  <1> DEFINE c == Blocks(code, 1)
             i == Br(b)
  <1>1. PICK m \in 1..Len(stack) :
          stack[m].k = "bodyEnd" /\ loops[Len(loops)] = LoopOf(stack[m])
    BY InnermostFrame
  <1>2. b = stack[m].end \/ b = stack[m].back BY <1>1 DEF LoopOf
  <1>3. /\ Builder(stack, code, placed, insert, loops, {}) /\ code \in Codes
        /\ Len(code) \in Nat /\ insert \in Nat
    BY BuilderFacts DEF Building
  <1>4. Builder(stack, c, placed, insert, loops, Len(code) + 1..Len(code) + 1)
        /\ Len(c) = Len(code) + 1
    BY <1>3, BuilderCreate, 1 \in Nat
  <1>5. LoopHead(c, placed, insert, stack[m].back)
    <2>1. Fine(stack, code, placed, insert, slots, {}, {insert}) BY DEF Emitting, Good
    <2>2. {insert} \subseteq placed BY <1>3 DEF Builder, Graph
    <2>3. Fine(stack, c, placed, insert, slots, {} \cup (Len(code) + 1..Len(code) + 1), {insert})
      BY <1>3, <2>1, <2>2, 1 \in Nat, FineBlocks
    <2>4. Held(stack[m], c, placed, insert, slots) BY <2>3 DEF Fine, Sound
    <2>5. stack[m].k \in Loopers BY <1>1 DEF Loopers
    <2> QED BY <2>4, <2>5 DEF Held
  <1>6. FrameOK(stack[m], Len(code)) /\ Owed(stack[m]) \cap placed = {}
    BY <1>1, <1>3 DEF Builder, Owes
  <1>7. /\ stack[m].end \in Owed(stack[m]) /\ stack[m].end \in Nat /\ stack[m].back \in Nat
        /\ stack[m].end \in 2..Len(code) /\ stack[m].back \in 2..Len(code)
    <2>1. /\ stack[m].end # 0 /\ stack[m].end \in Nat /\ stack[m].back \in Nat
          /\ stack[m].back \in 2..Len(code) /\ Owed(stack[m]) \subseteq 2..Len(code)
      BY <1>1, <1>6 DEF FrameOK, Frames
    <2>2. stack[m].end \in Owed(stack[m]) BY <2>1 DEF Owed
    <2> QED BY <2>1, <2>2
  <1>8. b \in Nat /\ b \in 2..Len(code) BY <1>2, <1>7
  <1>9. i \in Instrs /\ IsTerminator(i) BY <1>8, BrFacts
  <1>10. i.phi = {} /\ i.use = {} /\ Exits(i) = {b} BY BrParts
  <1>11. Graph(c, placed, insert) BY <1>4 DEF Builder
  <1> HIDE DEF c, i
  <1>12. Kept(c, Add(c, insert, i), placed) /\ \A t \in Exits(i) : NoPhi(c[t])
    <2>1. CASE b = stack[m].end
      <3>1. b \in (1..Len(c)) \ placed
        <4>1. b \notin placed BY <2>1, <1>6, <1>7
        <4>2. b \in 1..Len(c) BY <1>3, <1>4, <1>8
        <4> QED BY <4>1, <4>2
      <3> QED BY <3>1, <1>9, <1>10, <1>11, ForwardExits
    <2>2. CASE b = stack[m].back BY <2>2, <1>3, <1>5, <1>8, <1>9, <1>10, <1>11, BackExit
    <2> QED BY <2>1, <2>2, <1>2
  <1> QED BY <1>9, <1>10, <1>12 DEF c, i

LEMMA DeadGood ==
  ASSUME Building, Rest, Emitting, BreakStmt \/ ContinueStmt \/ ReturnVoid
         \/ \E isVoid \in BOOLEAN : ReturnValue(isVoid)
  PROVE  Emitting'
  <1>0. Node \in Nat /\ value \in Nat BY NodeFacts DEF Rest
  <1>1. CASE BreakStmt \/ ContinueStmt
    <2>1. PICK b \in {loops[Len(loops)].breakTo, loops[Len(loops)].continueTo} :
            /\ AtStmt /\ LoopDepth > 0 /\ stack' = Base \o <<>> /\ EndAndStartDead(Br(b))
            /\ slots' = slots
      BY <1>1 DEF BreakStmt, ContinueStmt, Begin, Base
    <2> DEFINE i == Br(b)
    <2>2. /\ i \in Instrs /\ IsTerminator(i) /\ i.phi = {} /\ i.use = {}
          /\ Kept(Blocks(code, 1), Add(Blocks(code, 1), insert, i), placed)
          /\ \A t \in Exits(i) : NoPhi(Blocks(code, 1)[t])
      BY <2>1, JumpKept
    <2>3. EndAndStartDead(i) BY <2>1
    <2> HIDE DEF i
    <2>4. /\ Builder(Base, code, placed, insert, loops, {}) /\ Fed(Base)
          /\ Fine(Base, code, placed, insert, slots, {}, {insert}) /\ insert \in placed
      BY <2>1, BaseFacts
    <2>5. \A v \in i.use : v \in slots \/ Defines(code[insert], v) BY <2>2
    <2> QED BY <2>1, <2>2, <2>3, <2>4, <2>5, DeadFine
  <1>2. CASE ReturnVoid
    <2> DEFINE i == Ret({}, Node)
    <2>1. AtStmt /\ stack' = Base \o <<>> /\ EndAndStartDead(i) /\ slots' = slots
      BY <1>2 DEF ReturnVoid, Begin, Base
    <2>2. i \in Instrs /\ IsTerminator(i) BY <1>0, RetFacts
    <2>3. i.phi = {} /\ i.use = {} /\ Exits(i) = {} BY RetParts
    <2> HIDE DEF i
    <2>4. /\ Builder(Base, code, placed, insert, loops, {}) /\ Fed(Base)
          /\ Fine(Base, code, placed, insert, slots, {}, {insert}) /\ insert \in placed
      BY <2>1, BaseFacts
    <2>5. /\ Kept(Blocks(code, 1), Add(Blocks(code, 1), insert, i), placed)
          /\ \A t \in Exits(i) : NoPhi(Blocks(code, 1)[t])
      BY <2>2, <2>3, <2>4, RetKept
    <2>6. \A v \in i.use : v \in slots \/ Defines(code[insert], v) BY <2>3
    <2> QED BY <2>1, <2>2, <2>3, <2>4, <2>5, <2>6, DeadFine
  <1>3. CASE \E isVoid \in BOOLEAN : ReturnValue(isVoid)
    <2>1. PICK u \in {{}, {value}} :
            /\ Walking /\ Top.k = "return" /\ stack' = Popped \o <<>>
            /\ EndAndStartDead(Ret(u, Node)) /\ slots' = slots
      BY <1>3 DEF ReturnValue, At, Replace
    <2> DEFINE i == Ret(u, Node)
    <2>2. u \in SUBSET Nat BY <1>0
    <2>3. i \in Instrs /\ IsTerminator(i) BY <1>0, <2>2, RetFacts
    <2>4. i.phi = {} /\ i.use = u /\ Exits(i) = {} BY RetParts
    <2>5. EndAndStartDead(i) BY <2>1
    <2> HIDE DEF i
    <2>6. Top.k \notin Joins /\ Top.k \notin ExprKinds /\ Top.k \in Eaters
      BY <2>1 DEF Joins, ExprKinds, Eaters
    <2>7. Owed(Top) = {} /\ Builder(Popped, code, placed, insert, loops, {})
      BY <2>1, PopBase
    <2>8. /\ Fed(Popped) /\ Fine(Popped, code, placed, insert, slots, {}, {insert})
          /\ insert \in placed /\ Defines(code[insert], value)
      BY <2>1, <2>6, <2>7, PopFacts
    <2>9. /\ Kept(Blocks(code, 1), Add(Blocks(code, 1), insert, i), placed)
          /\ \A t \in Exits(i) : NoPhi(Blocks(code, 1)[t])
      BY <2>3, <2>4, <2>7, RetKept
    <2>10. \A v \in i.use : v \in slots \/ Defines(code[insert], v) BY <2>4, <2>8
    <2> QED BY <2>1, <2>3, <2>4, <2>5, <2>7, <2>8, <2>9, <2>10, DeadFine
  <1> QED BY <1>1, <1>2, <1>3

-----------------------------------------------------------------------------
(* Expressions.                                                            *)

LEMMA QuietExprs ==
  ASSUME Building, Rest, Emitting, Operands \/ (\E k \in {"and", "or"} : Logical(k)) \/ OperatorLhs
  PROVE  Emitting'
  <1>0. value \in Nat BY DEF Rest
  <1>1. PICK k \in {"op", "opRhs", "and", "or"}, v \in {0, value} :
          /\ Walking /\ Top.k \in {"expr", "op"} /\ UNCHANGED ir
          /\ stack' = Popped \o <<[Waiting(k) EXCEPT !.saved = v], Waiting("expr")>>
          /\ k = "opRhs" => v = value /\ Top.k = "op"
    <2>1. \A k : [Waiting(k) EXCEPT !.saved = 0] = Waiting(k) BY DEF Waiting, Frame
    <2>2. CASE Operands BY <2>1, <2>2 DEF Operands, At, Replace
    <2>3. CASE \E k \in {"and", "or"} : Logical(k) BY <2>1, <2>3 DEF Logical, At, Replace
    <2>4. CASE OperatorLhs BY <2>4 DEF OperatorLhs, At, Replace, ir
    <2> QED BY <2>2, <2>3, <2>4
  <1> DEFINE f == [Waiting(k) EXCEPT !.saved = v]
  <1>2. k \in Quiet /\ k # "init" /\ v \in Nat BY <1>0, <1>1, QuietKinds
  <1>3. /\ f \in Frames /\ f.k = k /\ f.saved = v /\ Owed(f) = {} /\ k \notin Joins /\ k \notin Loopers
        /\ Held(f, code, placed, insert, slots)
    BY <1>2, WaitingHeld
  <1> HIDE DEF f
  <1>4. Owed(Top) = {} BY <1>1, PopBase
  <1>5. Top.k \notin Joins /\ (Top.k = "op" => Top.k \in Eaters) BY <1>1 DEF Joins, Eaters
  <1>6. /\ Popped \in Stacks /\ Fine(Popped, code, placed, insert, slots, {}, {insert})
        /\ insert \in placed /\ (Top.k = "op" => Defines(code[insert], value))
    BY <1>1, <1>4, <1>5, PopFacts
  <1>7. f.k = "opRhs" =>
          \E d \in placed : Defines(code[d], f.saved) /\ \A r \in {insert} : Dom(code, d, r)
    <2> SUFFICES ASSUME f.k = "opRhs"
                 PROVE  Defines(code[insert], f.saved) /\ \A r \in {insert} : Dom(code, insert, r)
      BY <1>6
    <2>1. Edges(code) /\ Len(code) \in Nat \ {0} BY BuilderFacts DEF Building, Builder, Graph
    <2>2. Dom(code, insert, insert) BY <2>1, DomSelf
    <2> QED BY <1>1, <1>3, <1>6, <2>2
  <1>8. Good(Popped \o <<f, Waiting("expr")>>, code, placed, insert, slots, value')
    <2>1. insert \in {insert} /\ Owed(f) \subseteq {} /\ "expr" \in {"expr", "stmt"} BY <1>3
    <2>2. f.k \in ExprKinds BY <1>3 DEF ExprKinds
    <2>3. f.k \notin Joins /\ f.k \notin Loopers BY <1>3
    <2> QED BY <1>3, <1>6, <1>7, <2>1, <2>2, <2>3, FineEnter
  <1> QED BY <1>1, <1>8 DEF Emitting, ir, f

LEMMA EvalGood ==
  ASSUME Building, Rest, Emitting, Visible \subseteq slots,
         Operator \/ (\E slot \in Visible \cup {0} : Leaf(slot))
  PROVE  Emitting'
  <1>0. Node \in Nat /\ value \in Nat BY NodeFacts DEF Rest
  <1>1. PICK u \in SUBSET Nat :
          /\ Walking /\ Top.k \in {"expr", "opRhs"} /\ stack' = Popped \o <<>>
          /\ code' = Add(code, insert, Eval(Node, u)) /\ UNCHANGED <<placed, insert, slots>>
          /\ value' = Node
          /\ u \subseteq slots \/ (Top.k = "opRhs" /\ u = {Top.saved, value})
    <2>1. CASE Operator
      <3>1. /\ Walking /\ Top.k = "opRhs" /\ stack' = Popped \o <<>> /\ value' = Node
            /\ code' = Add(code, insert, Eval(Node, {Top.saved, value}))
            /\ UNCHANGED <<placed, insert, slots>>
        BY <2>1 DEF Operator, At, Replace, Return
      <3>2. Top.saved \in Nat BY <3>1, TopFacts DEF Frames
      <3>3. {Top.saved, value} \in SUBSET Nat BY <1>0, <3>2
      <3> QED BY <3>1, <3>3
    <2>2. CASE \E slot \in Visible \cup {0} : Leaf(slot)
      <3>1. PICK slot \in Visible \cup {0} : Leaf(slot) BY <2>2
      <3>2. /\ Walking /\ Top.k = "expr" /\ stack' = Popped \o <<>> /\ value' = Node
            /\ code' = Add(code, insert, Eval(Node, {slot} \ {0}))
            /\ UNCHANGED <<placed, insert, slots>>
        BY <3>1 DEF Leaf, At, Replace, Return
      <3>3. slots \subseteq Nat BY DEF Rest
      <3>4. {slot} \ {0} \subseteq slots /\ {slot} \ {0} \in SUBSET Nat BY <3>3
      <3> QED BY <3>2, <3>4
    <2> QED BY <2>1, <2>2
  <1> DEFINE i == Eval(Node, u)
             c == Add(code, insert, i)
  <1>2. i \in Instrs /\ ~IsTerminator(i) BY <1>0, EvalFacts
  <1>3. i.phi = {} /\ i.use = u /\ i.def = Node /\ i.op # "phi" BY EvalParts
  <1>4. code' = c BY <1>1
  <1> HIDE DEF i
  <1>5. Owed(Top) = {} /\ Builder(Popped, code, placed, insert, loops, {}) BY <1>1, PopBase
  <1>6. Top.k \notin Joins /\ (Top.k = "opRhs" => Top.k \in Eaters) BY <1>1 DEF Joins, Eaters
  <1>7. /\ Popped \in Stacks /\ Fine(Popped, code, placed, insert, slots, {}, {insert})
        /\ insert \in placed
        /\ Top.k = "opRhs" =>
             /\ Defines(code[insert], value)
             /\ \E d \in placed : Defines(code[d], Top.saved) /\ Dom(code, d, insert)
    BY <1>1, <1>5, <1>6, PopFacts
  <1>8. Fine(Popped, c, placed, insert, slots, {}, {insert})
    <2>1. \A v \in i.use : \/ v \in slots \/ Defines(code[insert], v)
                           \/ \E d \in placed : Defines(code[d], v) /\ Dom(code, d, insert)
      BY <1>1, <1>3, <1>7
    <2>2. {insert} \subseteq placed BY <1>7
    <2> QED BY <1>2, <1>3, <1>5, <1>7, <2>1, <2>2, FinePlain
  <1>9. Defines(c[insert], Node)
    <2>1. code \in Codes /\ insert \in 1..Len(code) BY <1>5, BuilderFacts
    <2> QED BY <1>2, <1>3, <2>1, AddDefines
  <1> HIDE DEF c
  <1>10. Good(Popped \o <<>>, c, placed, insert, slots, Node) BY <1>7, <1>8, <1>9, FineValue
  <1> QED BY <1>1, <1>4, <1>10 DEF Emitting

LEMMA SoundPhi ==
  ASSUME NEW st \in Stacks, NEW c \in Codes, NEW pl, pl \subseteq 1..Len(c),
         NEW ins \in Nat, ins \in 1..Len(c), NEW i \in Instrs, ~IsTerminator(i),
         NEW sl, NEW D, NEW R, R \subseteq pl, Sound(st, c, pl, ins, sl, D, R),
         \A m \in 1..Len(st) : st[m].k \in Loopers => st[m].back # ins
  PROVE  Sound(st, Add(c, ins, i), pl, ins, sl, D, R)
  <1>1. Kept(c, Add(c, ins, i), pl) BY PlainKept
  <1>2. Exits(i) = {} BY DEF Exits
  <1>3. \A m \in 1..Len(st) : Held(st[m], c, pl, ins, sl) BY DEF Sound
  <1>4. \A m \in 1..Len(st) :
          /\ st[m].k \in Loopers /\ i.op = "phi" => st[m].back # ins
          /\ st[m].k \in Joins => st[m].end \notin Exits(i)
    BY <1>2
  <1>5. \A m \in 1..Len(st) :
          /\ st[m].k \in Loopers => st[m].back <= ins
          /\ st[m].k \in Joins => st[m].back # ins
    BY <1>3 DEF Held, LoopHead
  <1>6. \A d \in pl : (\A r \in R : Dom(c, d, r)) => \A r \in R : Dom(Add(c, ins, i), d, r)
    BY <1>1 DEF Kept
  <1> QED BY <1>1, <1>4, <1>5, <1>6, SoundAdd

(* The phi goes first into the block it starts.                            *)
LEMMA FinePhi ==
  ASSUME NEW st, NEW c, NEW pl, NEW ins, NEW ls, NEW D, Builder(st, c, pl, ins, ls, D),
         NEW sl, Fine(st, c, pl, ins, sl, {}, {ins}),
         NEW i \in Instrs, i.op = "phi", ~IsTerminator(i), i.use = {}, c[ins] = <<>>,
         \E x, y \in 1..Len(c) : /\ Names(i.phi, x, y)
                                 /\ \A z \in 1..Len(c) : Edge(c, z, ins) <=> z = x \/ z = y,
         \A in \in i.phi : in.from \in pl /\ (in.v # 0 => Reaches(c, sl, in.v, in.from)),
         \A m \in 1..Len(st) : st[m].k \in Loopers => st[m].back # ins
  PROVE  Fine(st, Add(c, ins, i), pl, ins, sl, {}, {ins})
  <1> DEFINE e == Add(c, ins, i)
  <1>1. c \in Codes /\ ins \in Nat /\ ins \in 1..Len(c) /\ pl \subseteq 1..Len(c) /\ st \in Stacks
    BY BuilderFacts
  <1>2. Blank(c, pl) /\ ins \in pl BY GraphBlank DEF Builder, Graph
  <1>3. Phis(c) /\ Uses(c, pl, sl) /\ Sound(st, c, pl, ins, sl, {}, {ins}) BY DEF Fine
  <1>4. Kept(c, e, pl) BY <1>1, PlainKept
  <1>5. Exits(i) = {} BY DEF Exits
  <1>6. Phis(e) BY <1>1, <1>3, <1>5, PhisAdd
  <1>7. Uses(e, pl, sl)
    <2>1. pl \subseteq pl /\ \A v \in i.use : FALSE OBVIOUS
    <2> QED BY <1>1, <1>2, <1>3, <1>4, <2>1, UsesAdd
  <1>8. Sound(st, e, pl, ins, sl, {}, {ins})
    <2>1. {ins} \subseteq pl BY <1>2
    <2> QED BY <1>1, <1>3, <2>1, SoundPhi
  <1> QED BY <1>6, <1>7, <1>8 DEF Fine

(* The graph when the left operand has branched: rhs, a block of its own,  *)
(* and end, the block of the phi, have one predecessor.                    *)
LEMMA LhsGraph ==
  ASSUME Building, NEW i \in Instrs, Exits(i) = {Len(code) + 1, Len(code) + 2}
  PROVE  LET d   == Blocks(code, 2)
             e   == Add(d, insert, i)
             rhs == Len(code) + 1
             end == Len(code) + 2
         IN  /\ Grown(d, e, insert, Exits(i)) /\ Len(e) = Len(d)
             /\ \A x \in 1..Len(d) : ~Edge(d, x, rhs)
             /\ \A x \in 1..Len(e) : Edge(e, x, end) <=> x = insert
             /\ {rhs, end} \subseteq (1..Len(d)) \ placed
  <1> DEFINE d   == Blocks(code, 2)
             e   == Add(d, insert, i)
             rhs == Len(code) + 1
             end == Len(code) + 2
  <1>1. /\ code \in Codes /\ Len(code) \in Nat /\ insert \in 1..Len(code)
        /\ placed \subseteq 1..Len(code) /\ Edges(code)
    BY BuilderFacts DEF Building, Builder, Graph
  <1>2. d \in Codes /\ Len(d) = Len(code) + 2 BY <1>1, 2 \in Nat, BlocksFacts
  <1>3. Grown(code, d, 0, {}) BY <1>1, 2 \in Nat, BlocksGrown
  <1> HIDE DEF d
  <1>4. insert \in 1..Len(d) /\ {rhs, end} \subseteq (1..Len(d)) \ placed /\ rhs \notin 2..Len(code)
        /\ end \notin 2..Len(code)
    <2>1. /\ insert \in 1..Len(d) /\ rhs \in 1..Len(d) /\ end \in 1..Len(d)
          /\ rhs \notin 2..Len(code) /\ end \notin 2..Len(code)
          /\ rhs \notin 1..Len(code) /\ end \notin 1..Len(code)
      BY <1>1, <1>2
    <2> QED BY <1>1, <2>1
  <1>5. Grown(d, e, insert, Exits(i)) /\ Len(e) = Len(d)
    <2>1. d \in Codes /\ insert \in 1..Len(d) BY <1>2, <1>4
    <2>2. Grown(d, Add(d, insert, i), insert, Exits(i)) BY <2>1, AddEdges
    <2>3. Len(Add(d, insert, i)) = Len(d) BY <2>1, AddFacts, ZenonT(60)
    <2> QED BY <2>2, <2>3
  <1> HIDE DEF e
  <1>6. Exits(i) = {rhs, end} OBVIOUS
  <1> HIDE DEF rhs, end
  <1>7. ASSUME NEW x \in 1..Len(d), NEW y \in {rhs, end} PROVE ~Edge(d, x, y)
    <2> SUFFICES ASSUME Edge(d, x, y) PROVE FALSE OBVIOUS
    <2>1. x \in 1..Len(code) /\ Edge(code, x, y) BY <1>3 DEF Grown
    <2>2. y \in 2..Len(code) BY <1>1, <2>1, EdgeInto
    <2> QED BY <1>4, <2>2
  <1>8. \A x \in 1..Len(e) : Edge(e, x, end) <=> x = insert
    <2>1. \A x \in 1..Len(e) : Edge(e, x, end) <=> Edge(d, x, end) \/ (x = insert /\ end \in Exits(i))
      BY <1>5 DEF Grown
    <2> QED BY <1>5, <1>7, <1>6, <2>1
  <1> QED BY <1>4, <1>5, <1>7, <1>8 DEF d, e, rhs, end

LEMMA LogicalLhsGood ==
  ASSUME Building, Rest, Emitting, LogicalLhs
  PROVE  Emitting'
  <1> DEFINE n == Len(code)
             rhs == n + 1
             end == n + 2
             c == Blocks(code, 2)
             i == IF Top.k = "and" THEN CondBr(value, rhs, end, Node)
                                   ELSE CondBr(value, end, rhs, Node)
             f == Frame(IF Top.k = "and" THEN "andRhs" ELSE "orRhs", 0, 0, end, insert)
             e == Add(c, insert, i)
             D == n + 1..n + 2
             E == {end}
             R == {insert}
             Q == {insert, rhs}
  <1>1. /\ Walking /\ Top.k \in {"and", "or"} /\ code' = e /\ slots' = slots
        /\ placed' = placed \cup {rhs} /\ insert' = rhs
        /\ stack' = Popped \o <<f, Waiting("expr")>>
    BY DEF LogicalLhs, StartBlock, Replace, NBlocks
  <1>2. /\ n \in Nat /\ n # 0 /\ insert \in Nat /\ Graph(code, placed, insert) /\ insert \in placed
        /\ insert \in 1..n
    BY BuilderFacts DEF Building, Builder, Graph
  <1>3. Builder(Popped, code, placed, insert, loops, {}) /\ Owed(Top) = {} BY <1>1, PopBase
  <1>4. Builder(Popped, c, placed, insert, loops, D) /\ Len(c) = n + 2
    BY <1>3, 2 \in Nat, BuilderCreate
  <1>5. /\ rhs \in D /\ E \subseteq D /\ rhs \in Nat /\ end \in Nat /\ end # 0 /\ rhs # 1
        /\ rhs \in 2..n + 2 /\ end \in 2..n + 2 /\ rhs # insert
        /\ rhs \notin 2..n /\ end \notin 2..n /\ rhs = n + 1 /\ end = n + 2
    BY <1>2
  <1>6. value \in Nat /\ Node \in Nat BY NodeFacts DEF Rest
  <1>7. /\ f \in Frames /\ f.k \in Joins /\ f.end = end /\ f.back = insert /\ Owed(f) \subseteq E
        /\ f.k \in ExprKinds /\ f.k \notin Loopers /\ f.k # "opRhs" /\ f.k # "init"
    <2>1. 0 \in Nat /\ "andRhs" \in FrameKinds /\ "orRhs" \in FrameKinds BY DEF FrameKinds
    <2>2. /\ f.k \in {"andRhs", "orRhs"} /\ f.next = 0 /\ f.alt = 0 /\ f.end = end
          /\ f.back = insert /\ f \in Frames
      BY <1>2, <1>5, <2>1 DEF Frame, Frames
    <2> HIDE DEF f
    <2>3. Owed(f) \subseteq E BY <2>2 DEF Owed
    <2> QED BY <2>2, <2>3 DEF Joins, ExprKinds, Loopers
  <1>8. i \in Instrs /\ IsTerminator(i) /\ i.phi = {} /\ i.use = {value} /\ Exits(i) = {rhs, end}
    <2> HIDE DEF n, rhs, end, c
    <2>1. CASE Top.k = "and"
      <3>1. i = CondBr(value, rhs, end, Node) BY <2>1
      <3>2. i \in Instrs /\ IsTerminator(i) BY <1>5, <1>6, <3>1, CondBrFacts
      <3>3. i.phi = {} /\ i.use = {value} /\ Exits(i) = {rhs, end} BY <3>1, CondBrParts
      <3> QED BY <3>2, <3>3
    <2>2. CASE Top.k # "and"
      <3>1. i = CondBr(value, end, rhs, Node) BY <2>2
      <3>2. i \in Instrs /\ IsTerminator(i) BY <1>5, <1>6, <3>1, CondBrFacts
      <3>3. i.phi = {} /\ i.use = {value} /\ Exits(i) = {end, rhs} BY <3>1, CondBrParts
      <3> QED BY <3>2, <3>3
    <2> QED BY <2>1, <2>2
  <1> HIDE DEF f, i
  <1>9. Top.k \notin Joins /\ Top.k \in Eaters BY <1>1 DEF Joins, Eaters
  <1>10. /\ Popped \in Stacks /\ Fine(Popped, code, placed, insert, slots, {}, R)
         /\ Defines(code[insert], value)
    BY <1>1, <1>3, <1>9, PopFacts
  <1>11. /\ Grown(c, e, insert, Exits(i)) /\ Len(e) = Len(c)
         /\ \A x \in 1..Len(c) : ~Edge(c, x, rhs)
         /\ \A x \in 1..Len(e) : Edge(e, x, end) <=> x = insert
         /\ Exits(i) \subseteq (1..Len(c)) \ placed
    <2>1. Exits(i) = {Len(code) + 1, Len(code) + 2} BY <1>8
    <2>2. /\ Grown(c, e, insert, Exits(i)) /\ Len(e) = Len(c)
          /\ \A x \in 1..Len(c) : ~Edge(c, x, rhs)
          /\ \A x \in 1..Len(e) : Edge(e, x, end) <=> x = insert
          /\ {rhs, end} \subseteq (1..Len(c)) \ placed
      BY <1>8, <2>1, LhsGraph
    <2> HIDE DEF c, e, rhs, end
    <2> QED BY <1>8, <2>2
  <1>12. c[insert] = code[insert]
    <2>1. code \in Codes BY <1>2 DEF Graph
    <2> QED BY <1>2, <2>1, 2 \in Nat, BlocksFacts
  <1>13. Fine(Popped, c, placed, insert, slots, D, R)
    <2>1. R \subseteq placed BY <1>2
    <2>2. Fine(Popped, c, placed, insert, slots, {} \cup D, R)
      BY <1>3, <1>10, <2>1, 2 \in Nat, FineBlocks
    <2>3. {} \cup D = D OBVIOUS
    <2> HIDE DEF D, c
    <2> QED BY <2>2, <2>3
  <1>14. \A m \in 1..Len(Popped) : Popped[m].k \in Joins => Popped[m].end \notin Exits(i)
    <2> SUFFICES ASSUME NEW m \in 1..Len(Popped), Popped[m].k \in Joins
                 PROVE  Popped[m].end \notin Exits(i)
      OBVIOUS
    <2>1. FrameOK(Popped[m], n) BY <1>3 DEF Builder, Owes
    <2>2. Popped[m].end # 0 BY <2>1 DEF FrameOK, Joins
    <2>3. Popped[m].end \in 2..n BY <2>1, <2>2 DEF FrameOK, Owed
    <2> HIDE DEF rhs, end, n
    <2> QED BY <1>5, <1>8, <2>3
  <1> HIDE DEF D, rhs, end, c
  <1>15. Kept(c, e, placed) /\ \A t \in Exits(i) : NoPhi(c[t])
    <2>1. Graph(c, placed, insert) BY <1>4 DEF Builder
    <2> QED BY <1>8, <1>11, <2>1, ForwardExits
  <1> HIDE DEF e
  <1>16. \A d \in placed : (\A r \in R : Dom(c, d, r)) => \A r \in Q : Dom(e, d, r)
    <2> SUFFICES ASSUME NEW d \in placed, Dom(c, d, insert)
                 PROVE  Dom(e, d, insert) /\ Dom(e, d, rhs)
      OBVIOUS
    <2>1. Dom(e, d, insert) BY <1>2, <1>15 DEF Kept
    <2>2. \A x \in 1..Len(c) : Edge(c, x, rhs) => x = insert BY <1>11
    <2>3. Dom(e, d, rhs) BY <1>5, <1>11, <2>2, DomJoin
    <2> QED BY <2>1, <2>3
  <1>17. Fine(Popped, e, placed \cup {rhs}, rhs, slots, E, Q)
    <2>1. \A v \in i.use : v \in slots \/ Defines(c[insert], v) BY <1>8, <1>10, <1>12
    <2>2. Kept(c, Add(c, insert, i), placed)
          /\ \A d \in placed : (\A r \in R : Dom(c, d, r))
                                 => \A r \in Q : Dom(Add(c, insert, i), d, r)
      BY <1>15, <1>16 DEF e
    <2>3. \A t \in Exits(i) : t \in 1..Len(c) => NoPhi(c[t]) BY <1>15
    <2> HIDE DEF E, R, Q
    <2>4. Fine(Popped, Add(c, insert, i), placed \cup {rhs}, rhs, slots, E, Q)
      <3>1. /\ Builder(Popped, c, placed, insert, loops, D)
            /\ Fine(Popped, c, placed, insert, slots, D, R) /\ rhs \in D /\ E \subseteq D
            /\ i \in Instrs /\ IsTerminator(i) /\ i.phi = {}
        BY <1>4, <1>5, <1>8, <1>13
      <3>2. /\ \A m \in 1..Len(Popped) : Popped[m].k \in Joins => Popped[m].end \notin Exits(i)
            /\ \A d \in placed : (\A r \in R : Dom(c, d, r))
                                => \A r \in Q : Dom(Add(c, insert, i), d, r)
        BY <1>14, <2>2
      <3>3. Kept(c, Add(c, insert, i), placed) BY <2>2
      <3> QED BY <3>1, <3>2, <3>3, <2>1, <2>3, FineMove
    <2> QED BY <2>4 DEF e
  <1>18. Held(f, e, placed', rhs, slots)
    <2>1. insert \in placed' \ {rhs} BY <1>1, <1>2, <1>5
    <2> QED BY <1>7, <1>11, <2>1 DEF Held
  <1>19. Good(Popped \o <<f, Waiting("expr")>>, e, placed', rhs, slots, value')
    <2>1. rhs \in Q /\ insert \in Q /\ "expr" \in {"expr", "stmt"} OBVIOUS
    <2>2. Fine(Popped, e, placed', rhs, slots, E, Q) BY <1>1, <1>17
    <2> HIDE DEF E, Q
    <2> QED BY <1>7, <1>10, <1>18, <2>1, <2>2, FineEnter
  <1> QED BY <1>1, <1>19 DEF Emitting

(* The graph when the right operand has branched: both operands end in a   *)
(* branch to the block of the phi.                                         *)
LEMMA RhsGraph ==
  ASSUME Building, Emitting, Walking, Top.k \in Joins
  PROVE  LET b == Top.end
             c == Add(code, insert, Br(b))
         IN  /\ Builder(Popped, c, placed \cup {b}, b, loops, {})
             /\ Fine(Popped, c, placed \cup {b}, b, slots, {}, {b})
             /\ c[b] = <<>> /\ b \notin placed /\ Top.back # insert
             /\ {insert, Top.back} \subseteq placed /\ placed \subseteq 1..Len(c)
             /\ \A z \in 1..Len(c) : Edge(c, z, b) <=> z = Top.back \/ z = insert
             /\ Reaches(c, slots, value, insert)
             /\ \A m \in 1..Len(Popped) : Popped[m].k \in Loopers => Popped[m].back # b
  <1> DEFINE b == Top.end
             i == Br(b)
             c == Add(code, insert, i)
             D == Owed(Top)
             R == {insert, Top.back}
             Q == {b}
             E == {}
  <1>1. /\ Builder(Popped, code, placed, insert, loops, D)
        /\ FrameOK(Top, Len(code)) /\ Top \in Frames
    <2>1. Top.k # "bodyEnd" BY DEF Joins
    <2> QED BY <2>1, PopBase, TopFacts
  <1>2. b \in Nat /\ D = {b} /\ b \in D /\ b # 1
    <2>1. b \in Nat /\ b # 0 /\ Top.next = 0 /\ Top.alt = 0
      BY <1>1 DEF FrameOK, Frames, Joins
    <2>2. D = {b} BY <2>1 DEF Owed
    <2>3. b \in 2..Len(code) BY <2>2, <1>1 DEF FrameOK
    <2> QED BY <2>1, <2>2, <2>3
  <1>3. /\ Fine(Popped, code, placed, insert, slots, D, R)
        /\ Top.back \in placed \ {insert} /\ insert \in placed
        /\ \A x \in 1..Len(code) : Edge(code, x, b) <=> x = Top.back
        /\ Defines(code[insert], value)
    <2>1. Top.k \in Eaters BY DEF Joins, Eaters
    <2> QED BY <2>1, PopFacts DEF Held
  <1>4. /\ code \in Codes /\ insert \in 1..Len(code) /\ placed \subseteq 1..Len(code)
        /\ b \in 1..Len(code) /\ b \notin placed /\ Len(code) \in Nat \ {0}
    BY <1>1, <1>2, BuilderFacts
  <1>5. code[b] = <<>> BY <1>1, <1>4 DEF Builder, Graph
  <1> HIDE DEF b, D
  <1>6. /\ i \in Instrs /\ IsTerminator(i) /\ i.phi = {} /\ i.use = {} /\ Exits(i) = {b}
        /\ Kept(code, Add(code, insert, i), placed) /\ \A t \in Exits(i) : NoPhi(code[t])
    BY <1>1, <1>2, BrForward
  <1>7. Into(i, Len(code))
    <2>1. b \in 2..Len(code) BY <1>2, <1>4
    <2> QED BY <1>2, <2>1, BrFacts
  <1> HIDE DEF i
  <1>8. /\ Grown(code, c, insert, {b}) /\ Len(c) = Len(code) /\ c[b] = <<>>
        /\ Defines(c[insert], value) /\ c \in Codes
    <2>1. Grown(code, c, insert, Exits(i)) BY <1>4, <1>6, AddEdges
    <2>2. Len(c) = Len(code) /\ c \in Codes BY <1>4, <1>6, AddFacts, ZenonT(60)
    <2>3. c[b] = <<>>
      <3>1. \A d \in 1..Len(code) : d # insert => c[d] = code[d] BY <1>4, <1>6, AddFacts, ZenonT(60)
      <3> QED BY <1>3, <1>4, <1>5, <3>1
    <2>4. \A j \in 1..Len(code[insert]) : j \in 1..Len(c[insert]) /\ c[insert][j] = code[insert][j]
      BY <1>4, <2>1 DEF Grown
    <2>5. Defines(c[insert], value) BY <1>3, <2>4 DEF Defines
    <2> QED BY <1>6, <2>1, <2>2, <2>3, <2>5
  <1>9. Builder(Popped, c, placed \cup {b}, b, loops, D \ {b}) BY <1>1, <1>2, <1>6, <1>7, BuilderMove
  <1>10. D \ {b} = {} BY <1>2
  <1>11. Builder(Popped, c, placed \cup {b}, b, loops, {}) BY <1>9, <1>10
  <1>12. \A m \in 1..Len(Popped) : Popped[m].k \in Joins => Popped[m].end \notin Exits(i)
    <2> SUFFICES ASSUME NEW m \in 1..Len(Popped), Popped[m].k \in Joins PROVE Popped[m].end # b
      BY <1>6
    <2>1. FrameOK(Popped[m], Len(code)) /\ Owed(Popped[m]) \cap (placed \cup D) = {}
      BY <1>1 DEF Builder, Owes
    <2>2. Popped[m].end # 0 BY <2>1 DEF FrameOK, Joins
    <2>3. Popped[m].end \in Owed(Popped[m]) BY <2>2 DEF Owed
    <2> QED BY <1>2, <2>1, <2>3
  <1>13. \A d \in placed : (\A r \in R : Dom(code, d, r)) => \A r \in Q : Dom(c, d, r)
    <2> SUFFICES ASSUME NEW d \in placed, Dom(code, d, insert), Dom(code, d, Top.back)
                 PROVE  Dom(c, d, b)
      OBVIOUS
    <2>1. \A x \in 1..Len(code) : Edge(code, x, b) => x = Top.back BY <1>3
    <2> QED BY <1>2, <1>8, <2>1, DomJoin
  <1>14. Fine(Popped, c, placed \cup {b}, b, slots, E, Q)
    <2>1. /\ \A v \in i.use : v \in slots \/ Defines(code[insert], v)
          /\ \A t \in Exits(i) : t \in 1..Len(code) => NoPhi(code[t])
          /\ E \subseteq D
      BY <1>6
    <2>2. \A d \in placed : (\A r \in R : Dom(code, d, r))
                              => \A r \in Q : Dom(Add(code, insert, i), d, r)
      BY <1>13
    <2> HIDE DEF E, Q, R
    <2>3. Fine(Popped, Add(code, insert, i), placed \cup {b}, b, slots, E, Q)
      BY <1>1, <1>2, <1>3, <1>6, <1>12, <2>1, <2>2, FineMove
    <2> QED BY <2>3
  <1> HIDE DEF c
  <1>15. \A z \in 1..Len(c) : Edge(c, z, b) <=> z = Top.back \/ z = insert
    <2>1. \A z \in 1..Len(c) : Edge(c, z, b) <=> Edge(code, z, b) \/ (z = insert /\ b \in {b})
      BY <1>8 DEF Grown
    <2> QED BY <1>3, <1>8, <2>1
  <1>16. Reaches(c, slots, value, insert)
    <2>1. Edges(c) /\ Len(c) \in Nat \ {0} BY <1>11, BuilderFacts DEF Builder, Graph
    <2>2. Dom(c, insert, insert) BY <2>1, DomSelf
    <2> QED BY <1>4, <1>8, <2>2 DEF Reaches
  <1>17. \A m \in 1..Len(Popped) : Popped[m].k \in Loopers => Popped[m].back # b
    <2>1. \A m \in 1..Len(Popped) : Held(Popped[m], code, placed, insert, slots)
      BY <1>3 DEF Fine, Sound
    <2> QED BY <1>4, <2>1 DEF Held, LoopHead
  <1>18. {insert, Top.back} \subseteq placed /\ placed \subseteq 1..Len(c) /\ Top.back # insert
    BY <1>3, <1>4, <1>8
  <1> QED BY <1>4, <1>8, <1>11, <1>14, <1>15, <1>16, <1>17, <1>18 DEF b, c, i

LEMMA LogicalRhsGood ==
  ASSUME Building, Rest, Emitting, LogicalRhs
  PROVE  Emitting'
  <1> DEFINE b == Top.end
             c == Add(code, insert, Br(b))
             in == {Incoming(Top.back, 0, Top.k = "orRhs"), Incoming(insert, value, FALSE)}
             i == Phi(Node, in)
             P == placed \cup {b}
  <1>1. /\ Walking /\ Top.k \in Joins /\ code' = Add(c, b, i) /\ slots' = slots
        /\ placed' = P /\ insert' = b /\ stack' = Popped \o <<>> /\ value' = Node
    BY DEF LogicalRhs, StartBlock, Replace, Return, Joins
  <1>2. value \in Nat /\ Node \in Nat /\ Top \in Frames /\ insert \in Nat
    BY <1>1, NodeFacts, TopFacts, BuilderFacts DEF Rest, Building
  <1>3. i \in Instrs /\ ~IsTerminator(i)
    <2>1. (Top.k = "orRhs") \in BOOLEAN /\ Top.back \in Nat BY <1>2 DEF Frames
    <2>2. in \in SUBSET [from: Nat, v: Nat, const: BOOLEAN] BY <1>2, <2>1 DEF Incoming
    <2> HIDE DEF in
    <2> QED BY <1>2, <2>2, PhiFacts
  <1>4. i.phi = in /\ i.use = {} /\ i.def = Node /\ i.op = "phi"
    <2> HIDE DEF in
    <2> QED BY PhiParts
  <1>5. /\ Builder(Popped, c, P, b, loops, {}) /\ Fine(Popped, c, P, b, slots, {}, {b})
        /\ c[b] = <<>> /\ b \notin placed /\ Top.back # insert
        /\ {insert, Top.back} \subseteq placed /\ placed \subseteq 1..Len(c)
        /\ \A z \in 1..Len(c) : Edge(c, z, b) <=> z = Top.back \/ z = insert
        /\ Reaches(c, slots, value, insert)
        /\ \A m \in 1..Len(Popped) : Popped[m].k \in Loopers => Popped[m].back # b
    BY <1>1, RhsGraph
  <1>6. Names(in, Top.back, insert) BY <1>5 DEF Names
  <1>7. \A n \in in : n.from \in P /\ (n.v # 0 => Reaches(c, slots, n.v, n.from))
    BY <1>5 DEF Incoming
  <1> HIDE DEF b, c, in, i
  <1>8. Fine(Popped, Add(c, b, i), P, b, slots, {}, {b})
    <2>1. \E x, y \in 1..Len(c) : /\ Names(i.phi, x, y)
                                  /\ \A z \in 1..Len(c) : Edge(c, z, b) <=> z = x \/ z = y
      BY <1>4, <1>5, <1>6
    <2>2. \A n \in i.phi : n.from \in P /\ (n.v # 0 => Reaches(c, slots, n.v, n.from))
      BY <1>4, <1>7
    <2> HIDE DEF P
    <2> QED BY <1>3, <1>4, <1>5, <2>1, <2>2, FinePhi
  <1>9. Defines(Add(c, b, i)[b], Node)
    <2>1. c \in Codes /\ b \in 1..Len(c) BY <1>5, BuilderFacts
    <2> QED BY <1>3, <1>4, <2>1, AddDefines
  <1>10. Popped \in Stacks BY <1>5, BuilderFacts
  <1> DEFINE e == Add(c, b, i)
  <1> HIDE DEF e, P
  <1>11. Good(Popped \o <<>>, e, P, b, slots, Node) BY <1>8, <1>9, <1>10, FineValue DEF e
  <1> QED BY <1>1, <1>11 DEF Emitting, e

-----------------------------------------------------------------------------
(* Functions.                                                              *)

(* An entry block with the stores of the parameters.                       *)
LEMMA EntryFine ==
  ASSUME NEW c, NEW sl, NEW D, NEW pl, NEW R, Len(c) = 1,
         \A j \in 1..Len(c[1]) : /\ c[1][j].op = "store" /\ c[1][j].phi = {}
                                 /\ c[1][j].use \subseteq sl
  PROVE  Fine(<<>>, c, pl, 1, sl, D, R)
  <1>1. \A b \in 1..Len(c) : b = 1 OBVIOUS
  <1>2. Phis(c) BY <1>1 DEF Phis
  <1>3. Uses(c, pl, sl) BY <1>1 DEF Uses, Before
  <1>4. \A m \in 1..Len(<<>>) : FALSE OBVIOUS
  <1>5. Sound(<<>>, c, pl, 1, sl, D, R) BY <1>4 DEF Sound, Nested, Ahead, Live
  <1> QED BY <1>2, <1>3, <1>5 DEF Fine

LEMMA EmitFunctionGood ==
  ASSUME IInv, NEW params \in Nat, EmitFunction(params)
  PROVE  Emitting'
  <1> DEFINE entry == [p \in 1..params |-> Store(p, p, p)]
             c == <<entry>>
             sl == 1..params
             pl == {1}
             body == <<Waiting("body")>>
  <1>1. code' = c /\ placed' = pl /\ insert' = 1 /\ slots' = sl /\ stack' = body
    BY DEF EmitFunction
  <1>2. \A p \in sl : Store(p, p, p).phi = {} /\ Store(p, p, p).use = {p} /\ Store(p, p, p).op = "store"
    BY DEF Store, Instr
  <1>3. \A p \in sl : Store(p, p, p) \in Instrs BY StoreFacts
  <1>4. Len(entry) = params /\ \A p \in sl : entry[p] = Store(p, p, p) BY <1>3
  <1> HIDE DEF entry
  <1>5. Len(c) = 1 /\ c[1] = entry OBVIOUS
  <1>6. \A j \in 1..Len(c[1]) : c[1][j].op = "store" /\ c[1][j].phi = {} /\ c[1][j].use \subseteq sl
    BY <1>2, <1>4, <1>5
  <1> HIDE DEF c, sl, pl
  <1>7. Fine(<<>>, c, pl, 1, sl, {}, {1}) BY <1>5, <1>6, EntryFine
  <1>8. <<>> \in Stacks /\ Fed(<<>>)
    <2>1. <<>> \in Seq(Frames) /\ \A m \in 1..Len(<<>>) : FALSE OBVIOUS
    <2> QED BY <2>1 DEF Stacks, Fed
  <1>9. <<>> \o body = body
    <2>1. Waiting("body") \in Frames BY WaitingFacts, QuietKinds, 0 \in Nat DEF FrameOK
    <2>2. body \in Seq(Frames) BY <2>1
    <2> QED BY <2>2, ConcatEmptySeq
  <1>10. Good(<<>> \o body, c, pl, 1, sl, value') BY <1>7, <1>8, FineRest
  <1> QED BY <1>1, <1>9, <1>10 DEF Emitting

LEMMA FinishFunctionGood ==
  ASSUME Building, Rest, Emitting, FinishFunction
  PROVE  Phis(code') /\ Uses(code', placed', slots')
  <1> DEFINE i == Ret({}, Node)
             c == Add(code, insert, i)
  <1>1. /\ UNCHANGED <<placed, slots>>
        /\ code' = IF IsTerminated(code[insert]) THEN code ELSE c
    BY DEF FinishFunction
  <1>2. Phis(code) /\ Uses(code, placed, slots) BY DEF Emitting, Good, Fine
  <1>3. i \in Instrs /\ IsTerminator(i)
    <2>1. Node \in Nat BY NodeFacts
    <2> QED BY <2>1, RetFacts, {} \in SUBSET Nat
  <1>4. Exits(i) = {} /\ i.phi = {} /\ i.use = {} BY RetParts
  <1>5. i.op # "phi" BY DEF Ret, Instr
  <1>6. Graph(code, placed, insert) /\ Blank(code, placed) BY GraphBlank DEF Building, Builder
  <1>7. code \in Codes /\ insert \in 1..Len(code) BY <1>6 DEF Graph
  <1> HIDE DEF i
  <1>8. Kept(code, c, placed)
    <2>1. Exits(i) \subseteq (1..Len(code)) \ placed BY <1>4
    <2> QED BY <1>3, <1>6, <2>1, ForwardExits
  <1>9. Phis(c) BY <1>2, <1>3, <1>4, <1>5, <1>7, PhisAdd
  <1>10. Uses(c, placed, slots)
    <2>1. \A v \in i.use : FALSE BY <1>4
    <2>2. \A in \in i.phi : FALSE BY <1>4
    <2>3. placed \subseteq placed OBVIOUS
    <2> QED BY <1>2, <1>3, <1>6, <1>7, <1>8, <2>1, <2>2, <2>3, UsesAdd
  <1> QED BY <1>1, <1>2, <1>9, <1>10

-----------------------------------------------------------------------------
(* The names in scope are slots.                                           *)

LEMMA VisibleSlots ==
  ASSUME Rest, Visible \subseteq slots, phase = "done" => scopes = <<>>, [Next]_vars
  PROVE  Visible' \subseteq slots'
  <1>0. scopes \in Seq(SUBSET Nat) /\ Len(scopes) \in Nat BY LenProperties DEF Rest
  <1>1. \A m \in 1..Len(scopes) : scopes[m] \subseteq slots BY DEF Visible
  <1>2. SUFFICES \A m \in 1..Len(scopes') : scopes'[m] \subseteq slots' BY DEF Visible
  <1>3. CASE UNCHANGED <<scopes, slots>> BY <1>1, <1>3
  <1>4. CASE FinishFunction \/ NextFunction
    <2>1. scopes' = <<>> BY <1>4 DEF FinishFunction, NextFunction
    <2>2. \A m \in 1..Len(<<>>) : FALSE OBVIOUS
    <2> QED BY <2>1, <2>2
  <1>5. CASE \E params \in 0..MaxParams : EmitFunction(params)
    <2>1. PICK params \in 0..MaxParams : EmitFunction(params) BY <1>5
    <2> DEFINE sl == 1..params
    <2>2. scopes' = <<sl>> /\ slots' = sl BY <2>1 DEF EmitFunction
    <2> HIDE DEF sl
    <2>3. Len(<<sl>>) = 1 /\ <<sl>>[1] = sl /\ \A m \in 1..1 : m = 1 OBVIOUS
    <2> QED BY <2>2, <2>3
  <1>6. CASE \E hasInit \in BOOLEAN : DeclStmt(hasInit)
    <2>1. /\ slots' = slots \cup {Node}
          /\ scopes' = [scopes EXCEPT ![Len(scopes)] = @ \cup {Node}]
      BY <1>6 DEF DeclStmt
    <2>2. DOMAIN scopes = 1..Len(scopes) BY <1>0
    <2>3. scopes' \in Seq(SUBSET Nat) BY <2>1, NodeFacts, ScopeFacts
    <2>4. DOMAIN scopes' = DOMAIN scopes BY <2>1
    <2>5. DOMAIN scopes' = 1..Len(scopes') BY <2>3
    <2>6. \A m \in DOMAIN scopes :
            scopes'[m] = IF m = Len(scopes) THEN scopes[m] \cup {Node} ELSE scopes[m]
      BY <2>1
    <2> QED BY <1>1, <2>1, <2>2, <2>4, <2>5, <2>6
  <1>7. CASE CompoundStmt
    <2>1. slots' = slots /\ scopes' = Append(scopes, {}) BY <1>7 DEF CompoundStmt, ir
    <2>2. /\ Len(scopes') = Len(scopes) + 1 /\ scopes'[Len(scopes) + 1] = {}
          /\ \A m \in 1..Len(scopes) : scopes'[m] = scopes[m]
      BY <1>0, <2>1, {} \in SUBSET Nat, AppendProperties
    <2>3. \A m \in 1..Len(scopes') : m \in 1..Len(scopes) \/ m = Len(scopes) + 1
      BY <1>0, <2>2
    <2> QED BY <1>1, <2>1, <2>2, <2>3
  <1>8. CASE CompoundEnd
    <2>1. slots' = slots /\ scopes' = SubSeq(scopes, 1, Len(scopes) - 1) BY <1>8 DEF CompoundEnd, ir
    <2>2. CASE scopes = <<>>
      <3>1. Len(scopes) = 0 /\ Len(scopes) - 1 = -1 BY <2>2
      <3>2. Len(SubSeq(scopes, 1, -1)) = 0 BY <2>2
      <3>3. \A m \in 1..0 : FALSE OBVIOUS
      <3> QED BY <2>1, <3>1, <3>2, <3>3
    <2>3. CASE scopes # <<>>
      <3>1. /\ Len(scopes') = Len(scopes) - 1
            /\ \A m \in 1..Len(scopes) - 1 : scopes'[m] = scopes[m]
        BY <1>0, <2>1, <2>3, FrontFacts
      <3>2. \A m \in 1..Len(scopes') : m \in 1..Len(scopes) /\ m \in 1..Len(scopes) - 1
        BY <1>0, <3>1
      <3> QED BY <1>1, <2>1, <3>1, <3>2
    <2> QED BY <2>2, <2>3
  <1>9. \/ UNCHANGED <<scopes, slots>> \/ FinishFunction \/ NextFunction
        \/ (\E params \in 0..MaxParams : EmitFunction(params))
        \/ (\E hasInit \in BOOLEAN : DeclStmt(hasInit)) \/ CompoundStmt \/ CompoundEnd
    BY DEF Next, StmtStep, ExprStep, NullStmt, ExprStmt, Drop, LocalInit, IfStmt, IfCond,
       ThenEnd, ElseStart, ElseEnd, WhileStmt, WhileCond, BodyEnd, BreakStmt, ContinueStmt,
       ReturnVoid, ReturnStmt, ReturnValue, Leaf, Operands, OperatorLhs, Operator, Logical,
       LogicalLhs, LogicalRhs, ir, vars
  <1> QED BY <1>3, <1>4, <1>5, <1>6, <1>7, <1>8, <1>9

-----------------------------------------------------------------------------
(* The invariant holds in every state.                                     *)

LEMMA SSAInit == Init => SSA
  <1> SUFFICES ASSUME Init PROVE SSA OBVIOUS
  <1>1. /\ phase = "idle" /\ code = <<>> /\ placed = {} /\ slots = {} /\ scopes = <<>>
    BY DEF Init
  <1>2. \A m \in 1..Len(<<>>) : FALSE OBVIOUS
  <1>3. Visible \subseteq slots BY <1>1, <1>2 DEF Visible
  <1>4. Phis(code) /\ Uses(code, placed, slots) BY <1>1, <1>2 DEF Phis, Uses
  <1> QED BY <1>1, <1>3, <1>4 DEF SSA

(* A step of the walk.                                                     *)
LEMMA WalkGood ==
  ASSUME Building, Rest, Emitting, Visible \subseteq slots, StmtStep \/ ExprStep
  PROVE  Emitting'
  <1>1. CASE StmtStep
    <2>1. ASSUME NEW hasInit \in BOOLEAN, DeclStmt(hasInit) PROVE Emitting' BY <2>1, DeclGood
    <2>2. ASSUME NEW hasElse \in BOOLEAN, IfStmt(hasElse) PROVE Emitting' BY <2>2, IfStmtGood
    <2>3. CASE NullStmt \/ ExprStmt \/ Drop \/ CompoundStmt \/ CompoundEnd \/ ReturnStmt
      BY <2>3, QuietStmts
    <2>4. CASE LocalInit BY <2>4, LocalInitGood
    <2>5. CASE IfCond BY <2>5, IfCondGood
    <2>6. CASE ThenEnd \/ ElseEnd BY <2>6, JoinGood
    <2>7. CASE ElseStart BY <2>7, ElseStartGood
    <2>8. CASE WhileStmt BY <2>8, WhileStmtGood
    <2>9. CASE WhileCond BY <2>9, WhileCondGood
    <2>10. CASE BodyEnd BY <2>10, BodyEndGood
    <2>11. CASE BreakStmt \/ ContinueStmt \/ ReturnVoid
                \/ \E isVoid \in BOOLEAN : ReturnValue(isVoid)
      BY <2>11, DeadGood
    <2> QED BY <1>1, <2>1, <2>2, <2>3, <2>4, <2>5, <2>6, <2>7, <2>8, <2>9, <2>10, <2>11 DEF StmtStep
  <1>2. CASE ExprStep
    <2>1. CASE Operands \/ (\E k \in {"and", "or"} : Logical(k)) \/ OperatorLhs
      BY <2>1, QuietExprs
    <2>2. CASE Operator \/ (\E slot \in Visible \cup {0} : Leaf(slot)) BY <2>2, EvalGood
    <2>3. CASE LogicalLhs BY <2>3, LogicalLhsGood
    <2>4. CASE LogicalRhs BY <2>4, LogicalRhsGood
    <2> QED BY <1>2, <2>1, <2>2, <2>3, <2>4 DEF ExprStep
  <1> QED BY <1>1, <1>2

LEMMA SSAStep == IInv /\ SSA /\ [Next]_vars => SSA'
  <1> SUFFICES ASSUME IInv, SSA, [Next]_vars PROVE SSA' OBVIOUS
  <1>1. Visible' \subseteq slots' BY VisibleSlots DEF IInv, SSA
  <1>2. ASSUME NEW params \in 0..MaxParams, EmitFunction(params) PROVE SSA'
    <2>1. params \in Nat BY BoundsAssumption
    <2>2. Emitting' BY <1>2, <2>1, EmitFunctionGood
    <2>3. phase' = "emit" BY <1>2 DEF EmitFunction
    <2> QED BY <1>1, <2>2, <2>3 DEF SSA
  <1>3. CASE FinishFunction
    <2>1. phase = "emit" /\ phase' = "done" /\ scopes' = <<>>
      BY <1>3 DEF FinishFunction, At, Walking
    <2>2. Building /\ Rest /\ Emitting BY <2>1 DEF IInv, SSA
    <2>3. Phis(code') /\ Uses(code', placed', slots') BY <1>3, <2>2, FinishFunctionGood
    <2> QED BY <1>1, <2>1, <2>3 DEF SSA
  <1>4. CASE NextFunction
    <2>1. /\ phase = "done" /\ phase' = "idle" /\ scopes' = scopes
          /\ code' = <<>> /\ placed' = {} /\ slots' = {}
      BY <1>4 DEF NextFunction
    <2>2. \A m \in 1..Len(<<>>) : FALSE OBVIOUS
    <2>3. Phis(code') /\ Uses(code', placed', slots') BY <2>1, <2>2 DEF Phis, Uses
    <2> QED BY <1>1, <2>1, <2>3 DEF SSA
  <1>5. CASE StmtStep \/ ExprStep
    <2>1. phase = "emit" /\ phase' = "emit"
      BY <1>5 DEF StmtStep, ExprStep, AtStmt, At, Walking, NullStmt, ExprStmt, Drop, LocalInit,
         DeclStmt, CompoundStmt, CompoundEnd, IfStmt, IfCond, ThenEnd, ElseStart, ElseEnd,
         WhileStmt, WhileCond, BodyEnd, BreakStmt, ContinueStmt, ReturnVoid, ReturnStmt,
         ReturnValue, Leaf, Operands, OperatorLhs, Operator, Logical, LogicalLhs, LogicalRhs
    <2>2. Building /\ Rest /\ Emitting /\ Visible \subseteq slots BY <2>1 DEF IInv, SSA
    <2>3. Emitting' BY <1>5, <2>2, WalkGood
    <2> QED BY <1>1, <2>1, <2>3 DEF SSA
  <1>6. CASE UNCHANGED vars
    <2>1. UNCHANGED <<phase, code, placed, insert, slots, stack, value, scopes>>
      BY <1>6 DEF vars
    <2> QED BY <1>1, <2>1 DEF SSA, Emitting
  <1> QED BY <1>2, <1>3, <1>4, <1>5, <1>6 DEF Next

(* SSA form is kept: the emitted code is Fine in every state of the walk.  *)
THEOREM StaysSSA == Spec => [](IInv /\ SSA)
  <1>1. Init => IInv /\ SSA BY IInvInit, SSAInit
  <1>2. (IInv /\ SSA) /\ [Next]_vars => (IInv /\ SSA)' BY IInvStep, SSAStep
  <1> QED BY <1>1, <1>2, PTL DEF Spec

-----------------------------------------------------------------------------
(* What the invariant is for.                                              *)

LEMMA SSACode == SSA => Phis(code) /\ Uses(code, placed, slots)
  BY DEF SSA, Emitting, Good, Fine

LEMMA TwoNamed ==
  ASSUME NEW phi, NEW x, NEW y, Names(phi, x, y)
  PROVE  /\ {in.from : in \in phi} = {x, y}
         /\ Cardinality(phi) = 2 /\ Cardinality({x, y}) = 2
  <1>0. \A a, b : a # b => Cardinality({a, b}) = 2
    <2> SUFFICES ASSUME NEW a, NEW b, a # b PROVE Cardinality({a, b}) = 2 OBVIOUS
    <2>1. IsFiniteSet({b}) /\ Cardinality({b}) = 1 BY FS_Singleton
    <2>2. a \notin {b} /\ {b} \cup {a} = {a, b} OBVIOUS
    <2>3. Cardinality({b} \cup {a}) = 1 + 1 BY <2>1, <2>2, FS_AddElement
    <2> QED BY <2>2, <2>3
  <1>1. PICK v, k, w, l : phi = {Incoming(x, v, k), Incoming(y, w, l)} BY DEF Names
  <1>2. Incoming(x, v, k).from = x /\ Incoming(y, w, l).from = y /\ x # y BY DEF Names, Incoming
  <1>3. Incoming(x, v, k) # Incoming(y, w, l) BY <1>2
  <1>4. Cardinality(phi) = 2 BY <1>0, <1>1, <1>3
  <1>5. {in.from : in \in phi} = {x, y}
    <2> DEFINE a == Incoming(x, v, k)
               b == Incoming(y, w, l)
    <2>1. phi = {a, b} /\ a.from = x /\ b.from = y BY <1>1, <1>2
    <2> HIDE DEF a, b
    <2> QED BY <2>1
  <1> QED BY <1>0, <1>2, <1>4, <1>5

LEMMA SSAPhiNamesPreds == SSA => PhiNamesPreds
  <1> SUFFICES ASSUME SSA, NEW b \in Block, NEW j \in 1..Len(code[b]), code[b][j].op = "phi"
               PROVE  /\ j = 1
                      /\ {in.from : in \in code[b][j].phi} = Preds(b)
                      /\ Cardinality(code[b][j].phi) = Cardinality(Preds(b))
    BY DEF PhiNamesPreds
  <1>1. b \in 1..Len(code) /\ Block = 1..Len(code) BY DEF Block, NBlocks
  <1>2. Phis(code) BY SSACode
  <1>3. j = 1 /\ \E x, y \in 1..Len(code) :
                   /\ Names(code[b][j].phi, x, y)
                   /\ \A z \in 1..Len(code) : Edge(code, z, b) <=> z = x \/ z = y
    BY <1>1, <1>2 DEF Phis
  <1>4. PICK x, y \in 1..Len(code) :
          /\ Names(code[b][j].phi, x, y)
          /\ \A z \in 1..Len(code) : Edge(code, z, b) <=> z = x \/ z = y
    BY <1>3
  <1>5. Preds(b) = {x, y} BY <1>1, <1>4, EdgeSuccs DEF Preds
  <1>6. /\ {in.from : in \in code[b][j].phi} = {x, y}
        /\ Cardinality(code[b][j].phi) = 2 /\ Cardinality({x, y}) = 2
    <2> DEFINE phi == code[b][j].phi
    <2>1. Names(phi, x, y) BY <1>4
    <2> HIDE DEF phi
    <2>2. /\ {in.from : in \in phi} = {x, y}
          /\ Cardinality(phi) = 2 /\ Cardinality({x, y}) = 2
      BY <2>1, TwoNamed
    <2> QED BY <2>2 DEF phi
  <1> QED BY <1>3, <1>5, <1>6

(* Every phi names each block that branches to its own once.               *)
THEOREM PhisComplete == Spec => []PhiNamesPreds
  BY StaysSSA, SSAPhiNamesPreds, PTL

LEMMA CodeEdges == IInv => code \in Codes /\ Edges(code) /\ Len(code) \in Nat
  <1> SUFFICES ASSUME IInv PROVE code \in Codes /\ Edges(code) /\ Len(code) \in Nat OBVIOUS
  <1>1. CASE phase = "idle"
    <2>1. code = <<>> BY <1>1 DEF IInv
    <2>2. Len(<<>>) = 0 /\ \A m \in 1..0 : FALSE OBVIOUS
    <2> QED BY <2>1, <2>2 DEF Edges, Codes
  <1>2. CASE phase = "emit"
    <2>1. Building BY <1>2 DEF IInv
    <2> QED BY <2>1, BuilderFacts DEF Building, Builder, Graph
  <1>3. CASE phase = "done"
    <2>1. Finished(code, placed, insert) BY <1>3 DEF IInv
    <2> QED BY <2>1, LenProperties DEF Finished, Codes
  <1> QED BY <1>1, <1>2, <1>3 DEF IInv

LEMMA SSAUsesDominated == IInv /\ SSA => UsesDominated
  <1> SUFFICES ASSUME IInv, SSA, NEW b \in Block, NEW j \in 1..Len(code[b])
               PROVE  /\ \A v \in code[b][j].use : AvailableAt(v, b, j)
                      /\ \A in \in code[b][j].phi :
                           in.v # 0 => AvailableAt(in.v, in.from, Len(code[in.from]) + 1)
    BY DEF UsesDominated
  <1>1. b \in 1..Len(code) /\ Block = 1..Len(code) BY DEF Block, NBlocks
  <1>2. Uses(code, placed, slots) BY SSACode
  <1>3. code \in Codes /\ Edges(code) /\ Len(code) \in Nat \ {0} BY <1>1, CodeEdges
  <1>4. \A d, x : Dom(code, d, x) => Dominates(d, x) BY <1>3, DomDominates
  <1>5. ASSUME NEW v \in code[b][j].use PROVE AvailableAt(v, b, j)
    <2>1. Before(code, slots, v, b, j) BY <1>1, <1>2 DEF Uses
    <2> QED BY <1>1, <1>4, <2>1 DEF Before, AvailableAt
  <1>6. ASSUME NEW in \in code[b][j].phi, in.v # 0
        PROVE  AvailableAt(in.v, in.from, Len(code[in.from]) + 1)
    <2>1. Reaches(code, slots, in.v, in.from) BY <1>1, <1>2, <1>6 DEF Uses
    <2> DEFINE v == in.v
               x == in.from
    <2> HIDE DEF v, x
    <2>2. CASE v \in slots BY <2>2 DEF AvailableAt, v
    <2>3. CASE v \notin slots
      <3>1. PICK d \in 1..Len(code) : Defines(code[d], v) /\ Dom(code, d, x)
        BY <2>1, <2>3 DEF Reaches, v, x
      <3>2. PICK i \in 1..Len(code[d]) : code[d][i].def = v BY <3>1 DEF Defines
      <3>3. d = x => i < Len(code[x]) + 1
        <4>1. Len(code[d]) \in Nat BY <1>3, ElementOfSeq, LenProperties DEF Codes
        <4> QED BY <3>2, <4>1
      <3>4. Dominates(d, x) BY <1>4, <3>1
      <3>5. AvailableAt(v, x, Len(code[x]) + 1) BY <1>1, <3>2, <3>3, <3>4 DEF AvailableAt
      <3> QED BY <3>5 DEF v, x
    <2> QED BY <2>2, <2>3
  <1> QED BY <1>5, <1>6

(* Every operand is defined on every path to its use.                      *)
THEOREM OperandsDominated == Spec => []UsesDominated
  BY StaysSSA, SSAUsesDominated, PTL

-----------------------------------------------------------------------------
(***************************************************************************)
(* The text of a body, and what it is for the blocks to say what its nodes *)
(* call for, in their order.                                               *)
(*                                                                         *)
(* Two functions that the code does not have tie the walk to the text: L   *)
(* says at which node a block begins, K for which node an activation was   *)
(* started.  Struct and Linked are about the text, Meant about each        *)
(* instruction, Marks about what the activations remember of both.         *)
(***************************************************************************)

(* How many of the first n members of s are in S.                          *)
Tally(s, S, n) == Cardinality({m \in 1..n : s[m] \in S})

(* Three classes of constructs: the nodes that open and close them, those  *)
(* that end a part, the activations that hold them open.                   *)
Classes    == {"if", "while", "logic"}
Opens(x)   == CASE x = "if" -> {"if"} [] x = "while" -> {"while"} [] x = "logic" -> {"and", "or"}
Closes(x)  == CASE x = "if" -> {"endif"} [] x = "while" -> {"endwhile"} [] x = "logic" -> {"endlogic"}
Ends(x)    == IF x = "if" THEN {"else", "endif"} ELSE Closes(x)
Holders(x) == CASE x = "if" -> {"ifCond", "thenEnd", "elseEnd"} [] x = "while" -> Loopers
                [] x = "logic" -> Joins

(* How many constructs of class x node n is in.                            *)
Nest(s, x, n) == Tally(s, Opens(x), n) - Tally(s, Closes(x), n - 1)

(* e is the end of n's construct: the first of E on n's level.             *)
Met(s, x, E, n, e) ==
  /\ e \in n + 1..Len(s) /\ s[e] \in E /\ Nest(s, x, e) = Nest(s, x, n)
  /\ \A k \in n + 1..e - 1 : ~(s[k] \in E /\ Nest(s, x, k) = Nest(s, x, n))
Shut(s, x, n, e) == Met(s, x, Closes(x), n, e)

(* Node m is on level l, which has not been left since.                    *)
Pending(s, x, m, l) ==
  /\ m \in 1..Len(s) /\ Nest(s, x, m) = l
  /\ \A k \in m + 1..Len(s) : /\ Nest(s, x, k) >= l
                              /\ s[k] \in Ends(x) => Nest(s, x, k) > l

(* Nodes that control passes from f on, before it meets node m.            *)
Passed == {"decl", "drop", "{", "if", "while", "endif"}
Calm(s, f, m) == \A k \in f..m - 1 : s[k] \in Passed

(* The nodes inside an operand: whole expressions.                         *)
Exprs == {"leaf", "op", "and", "or", "endlogic"}
Inner(s, n, e) ==
  \A k \in n + 1..e - 1 : /\ s[k] \in Exprs
                          /\ s[k] \in {"and", "or"} => \E d \in k + 1..e - 1 : Shut(s, "logic", k, d)

(* Node n is in the while statement at w, and in none inside it.           *)
Direct(s, w, n) ==
  /\ w \in 1..n - 1 /\ s[w] = "while" /\ w + 1 <= Len(s) /\ s[w + 1] = "leaf"
  /\ \A k \in w + 1..n - 1 :
       /\ ~(s[k] = "endwhile" /\ Nest(s, "while", k) = Nest(s, "while", w))
       /\ s[k] = "while" => \E e \in k + 1..n - 1 : Shut(s, "while", k, e)

-----------------------------------------------------------------------------
(* The text against the activations; K[i] is the node activation i is for. *)

KindsOf(st) == [i \in 1..Len(st) |-> st[i].k]
(* How many of the first i activations hold a construct of class x open.   *)
Rank(st, x, i) == Tally(KindsOf(st), Holders(x), i)

(* What is open in the text is what the activations hold open;             *)
Levels(st, s) ==
  \A x \in Classes :
    Tally(s, Opens(x), Len(s)) - Tally(s, Closes(x), Len(s)) = Rank(st, x, Len(st))

(* the node an activation is for is the one it was started for,            *)
Stands(f, k, s) ==
  /\ f.k \in Loopers => s[k] = "while" /\ (k < Len(s) => s[k + 1] = "leaf")
  /\ f.k = "andRhs" => s[k] = "and"
  /\ f.k = "orRhs" => s[k] = "or"
  /\ f.k \in Joins => \A j \in k + 1..Len(s) : s[j] \in Exprs

(* still open, and in order; and whatever is not held has its end.         *)
Opened(st, K, s) ==
  \A x \in {"while", "logic"} :
    /\ \A i \in 1..Len(st) : st[i].k \in Holders(x) =>
         Pending(s, x, K[i], Rank(st, x, i)) /\ Stands(st[i], K[i], s)
    /\ \A i, j \in 1..Len(st) : i < j /\ st[i].k \in Holders(x) /\ st[j].k \in Holders(x) => K[i] < K[j]
    /\ \A n \in 1..Len(s) : s[n] \in Opens(x) =>
         \/ \E e \in n + 1..Len(s) : Shut(s, x, n, e)
         \/ \E i \in 1..Len(st) : st[i].k \in Holders(x) /\ K[i] = n

(* Between the operands of && and || are expressions only.                 *)
Nests(s) == \A n, e \in 1..Len(s) : s[n] \in {"and", "or"} /\ Shut(s, "logic", n, e) => Inner(s, n, e)

Struct(st, K, s) == s \in Seq(Kinds) /\ Levels(st, s) /\ Opened(st, K, s) /\ Nests(s)

-----------------------------------------------------------------------------
(* Labels: block b begins at node L[b].                                    *)

(* The node control is at when it comes to instruction j of block b.       *)
From(L, c, b, j) == IF j = 1 THEN L[b] ELSE c[b][j - 1].node + 1
LastOf(is) == is[Len(is)]

(* Control that leaves the order of the nodes at m goes on at l.           *)
Dest(s, m, l) ==
  CASE s[m] = "then" -> Met(s, "if", {"else", "endif"}, m, l - 1)
    [] s[m] = "else" -> Met(s, "if", {"endif"}, m, l - 1)
    [] s[m] \in {"do", "break"} -> Met(s, "while", {"endwhile"}, m, l - 1)
    [] OTHER -> Met(s, "logic", {"endlogic"}, m, l)

(* Activation i will start the block y that node m leads to.               *)
Owner(st, K, s, m, i, y) ==
  CASE s[m] = "then" -> /\ st[i].k = "thenEnd" /\ y = (IF st[i].alt # 0 THEN st[i].alt ELSE st[i].end)
                        /\ Pending(s, "if", m, Rank(st, "if", i))
    [] s[m] = "else" -> /\ st[i].k = "elseEnd" /\ y = st[i].end
                        /\ Pending(s, "if", m, Rank(st, "if", i))
    [] s[m] \in {"do", "break"} -> /\ st[i].k = "bodyEnd" /\ y = st[i].end
                                   /\ Pending(s, "while", m, Rank(st, "while", i))
    [] OTHER -> st[i].k \in Joins /\ y = st[i].end /\ m = K[i]

(* Node m leads to block y, which stands where it should, or will.         *)
Far(st, K, L, c, pl, s, m, y) ==
  \/ /\ y \in pl /\ Dest(s, m, L[y])
     /\ s[m] \in {"and", "or"} => c[y] # <<>> /\ c[y][1].op = "phi" /\ c[y][1].node = L[y]
  \/ y \notin pl /\ \E i \in 1..Len(st) : Owner(st, K, s, m, i, y)

(* Of a branch, the block for the next node, and the other one.            *)
Near(s, i) == IF s[i.node] = "or" THEN i.to[2] ELSE i.to[1]
Away(s, i) == IF s[i.node] = "or" THEN i.to[1] ELSE i.to[2]

(* A plain branch to y is met at node m, coming from node f.               *)
Goes(st, K, L, c, pl, s, f, m, y) ==
  \/ y \in pl /\ L[y] = m /\ (m = f => c[y] # <<>> /\ c[y][1].op # "br")
  \/ /\ m \in 1..Len(s) /\ s[m] \in {"continue", "endwhile"}
     /\ y \in pl /\ Direct(s, L[y] - 1, m) /\ c[y] # <<>> /\ c[y][1].op = "eval"
  \/ m \in 1..Len(s) /\ s[m] \in {"else", "break"} /\ Far(st, K, L, c, pl, s, m, y)

(* A branch on the value of the node before.                               *)
Branching(st, K, L, c, pl, s, i) ==
  LET m == i.node
  IN  /\ s[m] \in {"then", "do", "and", "or"} /\ i.use = {m - 1} /\ m >= 2 /\ Len(i.to) = 2
      /\ Near(s, i) \in pl /\ L[Near(s, i)] = m + 1
      /\ Far(st, K, L, c, pl, s, m, Away(s, i)) /\ Near(s, i) # Away(s, i)

(* A phi takes the left value if that decided, else the right one.         *)
Joined(L, c, s, b, i) ==
  \E n \in 1..i.node - 1, x, y \in 1..Len(c) :
    /\ s[n] \in {"and", "or"} /\ Shut(s, "logic", n, i.node)
    /\ i.phi = {Incoming(x, 0, s[n] = "or"), Incoming(y, i.node - 1, FALSE)}
    /\ c[x] # <<>> /\ LastOf(c[x]).op = "condbr" /\ LastOf(c[x]).node = n /\ Away(s, LastOf(c[x])) = b
    /\ c[y] # <<>> /\ LastOf(c[y]).op = "br"

(* Instruction j of block b does what its node calls for, and between      *)
(* the instruction before and that node control only passes.               *)
Meant(st, K, L, c, pl, s, b, j) ==
  LET i == c[b][j]
      f == From(L, c, b, j)
  IN  IF i.op = "br"
      THEN \E m \in f..Len(s) + 1 : Calm(s, f, m) /\ Goes(st, K, L, c, pl, s, f, m, i.to[1])
      ELSE /\ i.node \in f..Len(s) /\ Calm(s, f, i.node)
           /\ i.op = "eval" => s[i.node] \in {"leaf", "op"} /\ i.def = i.node
           /\ i.op = "store" => s[i.node] \in {"param", "store"}
           /\ i.op = "phi" => j = 1 /\ L[b] = i.node /\ i.def = i.node /\ s[i.node] = "endlogic" /\ Joined(L, c, s, b, i)
           /\ i.op = "ret" => \/ s[i.node] = "return" /\ i.use = {}
                              \/ s[i.node] = "retval" /\ i.use = {i.node - 1} /\ i.node >= 2
           /\ i.op = "condbr" => Branching(st, K, L, c, pl, s, i)

(* What a loop goes back to, and what the left operand ended with.         *)
Marked(f, n, L, c, ins, s) ==
  /\ f.k \in Loopers =>
       /\ L[f.back] = n + 1
       /\ IF n < Len(s) THEN c[f.back] # <<>> /\ c[f.back][1].op = "eval"
          ELSE ins = f.back /\ c[ins] = <<>>
  /\ f.k \in Joins =>
       LET t == LastOf(c[f.back])
       IN  c[f.back] # <<>> /\ t.op = "condbr" /\ t.node = n /\ Away(s, t) = f.end

Marks(st, K, L, c, ins, s) == \A i \in 1..Len(st) : Marked(st[i], K[i], L, c, ins, s)

(* Where control leaves the order of the nodes, it has somewhere to go.    *)
Linked(st, K, s) ==
  \A m \in 1..Len(s) :
    /\ s[m] \in {"else", "break"} =>
         \/ \E l \in 1..Len(s) + 1 : Dest(s, m, l)
         \/ \E i \in 1..Len(st) : \E y \in {st[i].alt, st[i].end} : Owner(st, K, s, m, i, y)
    /\ s[m] \in {"continue", "endwhile"} => \E w \in 1..m - 1 : Direct(s, w, m)

(* Blocks begin in the text, the entry at its first node.                  *)
Labels(L, pl, s) == (\A b \in pl : L[b] \in 1..Len(s) + 1) /\ L[1] = 1

(* The node the next instruction of block b would come from.               *)
Begun(L, c, b) == From(L, c, b, Len(c[b]) + 1)

(* While a body is emitted.                                                *)
Faith(st, K, L, c, pl, ins, s) ==
  /\ Struct(st, K, s)
  /\ Labels(L, pl, s)
  /\ \A b \in pl : \A j \in 1..Len(c[b]) : Meant(st, K, L, c, pl, s, b, j)
  /\ Linked(st, K, s)
  /\ Begun(L, c, ins) \in 1..Len(s) + 1 /\ Calm(s, Begun(L, c, ins), Len(s) + 1)
  /\ Marks(st, K, L, c, ins, s)

(* An activation that waits for a value gets that of the last node.        *)
Ready(st, s, v) ==
  st # <<>> => /\ st[Len(st)].k \in Hungry => v = Len(s) /\ Len(s) >= 1
               /\ s # <<>> /\ s[Len(s)] = "while" => st[Len(st)].k = "expr"

-----------------------------------------------------------------------------
(* A finished function.                                                    *)

(* The return that code generation adds, at the end of the text.           *)
LastRet(L, c, s, b, j) ==
  LET i == c[b][j]
      f == From(L, c, b, j)
  IN  i.op = "ret" /\ i.use = {} /\ i.node = Len(s) + 1 /\ f \in 1..Len(s) + 1 /\ Calm(s, f, i.node)

Whole(K, L, c, s) ==
  /\ Struct(<<>>, K, s)
  /\ Labels(L, 1..Len(c), s)
  /\ Linked(<<>>, K, s)
  /\ \A b \in 1..Len(c) : \A j \in 1..Len(c[b]) :
       Meant(<<>>, K, L, c, 1..Len(c), s, b, j) \/ LastRet(L, c, s, b, j)

-----------------------------------------------------------------------------
(* Counting.                                                               *)

LEMMA TallyFacts ==
  ASSUME NEW s, NEW S, NEW n \in Nat
  PROVE  /\ Tally(s, S, n) \in Nat /\ Tally(s, S, 0) = 0
         /\ Tally(s, S, n + 1) = Tally(s, S, n) + (IF s[n + 1] \in S THEN 1 ELSE 0)
  <1> DEFINE T(m) == {k \in 1..m : s[k] \in S}
  <1>1. IsFiniteSet(1..n) BY FS_Interval
  <1>2. IsFiniteSet(T(n)) /\ Cardinality(T(n)) \in Nat BY <1>1, FS_Subset, FS_CardinalityType
  <1>3. T(0) = {} /\ n + 1 \notin T(n) OBVIOUS
  <1>4. \A k \in 1..n + 1 : k \in 1..n \/ k = n + 1 OBVIOUS
  <1>5. n + 1 \in 1..n + 1 /\ 1..n \subseteq 1..n + 1 OBVIOUS
  <1>6. CASE s[n + 1] \in S
    <2>1. T(n + 1) = T(n) \cup {n + 1} BY <1>4, <1>5, <1>6
    <2> QED BY <2>1, <1>2, <1>3, <1>6, FS_AddElement, FS_EmptySet DEF Tally
  <1>7. CASE s[n + 1] \notin S
    <2>1. T(n + 1) = T(n) BY <1>4, <1>5, <1>7
    <2> QED BY <2>1, <1>2, <1>3, <1>7, FS_EmptySet DEF Tally
  <1> QED BY <1>6, <1>7

LEMMA TallySame ==
  ASSUME NEW s, NEW t, NEW S, NEW n \in Nat, \A k \in 1..n : s[k] \in S <=> t[k] \in S
  PROVE  Tally(s, S, n) = Tally(t, S, n)
  <1>1. {k \in 1..n : s[k] \in S} = {k \in 1..n : t[k] \in S} OBVIOUS
  <1> QED BY <1>1 DEF Tally

LEMMA TallyOrder ==
  ASSUME NEW s, NEW S, NEW m \in Nat, NEW n \in Nat, m <= n
  PROVE  /\ Tally(s, S, m) <= Tally(s, S, n)
         /\ (\E k \in m + 1..n : s[k] \in S) => Tally(s, S, m) < Tally(s, S, n)
  <1> DEFINE T(l) == {k \in 1..l : s[k] \in S}
  <1>1. IsFiniteSet(1..n) BY FS_Interval
  <1>2. IsFiniteSet(T(n)) BY <1>1, FS_Subset
  <1>3. T(m) \subseteq T(n) OBVIOUS
  <1>4. IsFiniteSet(T(m)) BY <1>2, <1>3, FS_Subset
  <1>5. /\ Cardinality(T(m)) \in Nat /\ Cardinality(T(n)) \in Nat
        /\ Cardinality(T(m)) <= Cardinality(T(n))
        /\ Cardinality(T(m)) = Cardinality(T(n)) => T(m) = T(n)
    BY <1>2, <1>3, <1>4, FS_Subset, FS_CardinalityType
  <1>6. ASSUME NEW k \in m + 1..n, s[k] \in S PROVE T(m) # T(n)
    <2>1. k \in 1..n /\ k \notin 1..m OBVIOUS
    <2>2. k \in T(n) /\ k \notin T(m) BY <2>1, <1>6
    <2> QED BY <2>2
  <1>7. (\E k \in m + 1..n : s[k] \in S) => T(m) # T(n) BY <1>6
  <1> HIDE DEF T
  <1>8. /\ Cardinality(T(m)) <= Cardinality(T(n))
        /\ (\E k \in m + 1..n : s[k] \in S) => Cardinality(T(m)) < Cardinality(T(n))
    BY <1>5, <1>7
  <1> QED BY <1>8 DEF Tally, T

(* The classes of constructs.                                              *)
LEMMA ClassFacts ==
  /\ Opens("if") = {"if"} /\ Closes("if") = {"endif"} /\ Ends("if") = {"else", "endif"}
  /\ Opens("while") = {"while"} /\ Closes("while") = {"endwhile"} /\ Ends("while") = {"endwhile"}
  /\ Opens("logic") = {"and", "or"} /\ Closes("logic") = {"endlogic"} /\ Ends("logic") = {"endlogic"}
  /\ Holders("if") = {"ifCond", "thenEnd", "elseEnd"}
  /\ Holders("while") = {"whileCond", "bodyEnd"} /\ Holders("logic") = {"andRhs", "orRhs"}
  BY DEF Opens, Closes, Ends, Holders, Loopers, Joins

LEMMA NestFacts ==
  ASSUME NEW s, NEW x, NEW n \in Nat \ {0}
  PROVE  Nest(s, x, n) \in Int
  <1>1. n - 1 \in Nat OBVIOUS
  <1>2. Tally(s, Opens(x), n) \in Nat /\ Tally(s, Closes(x), n - 1) \in Nat BY <1>1, TallyFacts
  <1> QED BY <1>2 DEF Nest

(* t is a text that begins with s.                                         *)
Follows(s, t) ==
  /\ s \in Seq(Kinds) /\ t \in Seq(Kinds) /\ Len(s) \in Nat /\ Len(t) \in Nat /\ Len(s) <= Len(t)
  /\ \A k \in 1..Len(s) : t[k] = s[k]

LEMMA FollowsAppend ==
  ASSUME NEW s \in Seq(Kinds), NEW k \in Kinds
  PROVE  /\ Follows(s, s) /\ Follows(s, Append(s, k))
         /\ Len(Append(s, k)) = Len(s) + 1 /\ Append(s, k)[Len(s) + 1] = k
         /\ Append(s, k) \in Seq(Kinds)
  BY AppendProperties, LenProperties DEF Follows

LEMMA NestSame ==
  ASSUME NEW s, NEW t, Follows(s, t), NEW x, NEW n \in 1..Len(s)
  PROVE  Nest(t, x, n) = Nest(s, x, n)
  <1>1. n \in Nat /\ n - 1 \in Nat BY DEF Follows
  <1>2. (\A k \in 1..n : t[k] = s[k]) /\ (\A k \in 1..n - 1 : t[k] = s[k]) BY DEF Follows
  <1>3. Tally(t, Opens(x), n) = Tally(s, Opens(x), n) BY <1>1, <1>2, TallySame
  <1>4. Tally(t, Closes(x), n - 1) = Tally(s, Closes(x), n - 1) BY <1>1, <1>2, TallySame
  <1> QED BY <1>3, <1>4 DEF Nest

(* What is settled by a text is settled by those that begin with it.       *)
LEMMA MetKept ==
  ASSUME NEW s, NEW t, Follows(s, t), NEW x, NEW E, NEW n \in 1..Len(s), NEW e, Met(s, x, E, n, e)
  PROVE  Met(t, x, E, n, e)
  <1>1. e \in n + 1..Len(s) /\ e \in 1..Len(s) /\ e \in n + 1..Len(t) BY DEF Met, Follows
  <1>2. \A k \in n + 1..e - 1 : k \in 1..Len(s) BY <1>1 DEF Follows
  <1>3. \A k \in 1..Len(s) : Nest(t, x, k) = Nest(s, x, k) /\ t[k] = s[k] BY NestSame DEF Follows
  <1> QED BY <1>1, <1>2, <1>3 DEF Met

LEMMA InnerKept ==
  ASSUME NEW s, NEW t, Follows(s, t), NEW n \in 1..Len(s), NEW e \in 1..Len(s) + 1, Inner(s, n, e)
  PROVE  Inner(t, n, e)
  <1> SUFFICES ASSUME NEW k \in n + 1..e - 1
               PROVE  /\ t[k] \in Exprs
                      /\ t[k] \in {"and", "or"} => \E d \in k + 1..e - 1 : Shut(t, "logic", k, d)
    BY DEF Inner
  <1>1. k \in 1..Len(s) /\ t[k] = s[k] BY DEF Follows
  <1>2. ASSUME NEW d, Shut(s, "logic", k, d) PROVE Shut(t, "logic", k, d)
    BY <1>1, <1>2, MetKept DEF Shut
  <1> QED BY <1>1, <1>2 DEF Inner

LEMMA DirectKept ==
  ASSUME NEW s, NEW t, Follows(s, t), NEW w, NEW n \in 1..Len(s), Direct(s, w, n)
  PROVE  Direct(t, w, n)
  <1>1. Len(s) \in Nat /\ Len(t) \in Nat /\ Len(s) <= Len(t) BY DEF Follows
  <1>2. w \in 1..n - 1 BY DEF Direct
  <1>3. w \in 1..Len(s) /\ w + 1 \in 1..Len(s) /\ w + 1 <= Len(t) BY <1>1, <1>2
  <1>4. t[w] = s[w] /\ t[w + 1] = s[w + 1] /\ Nest(t, "while", w) = Nest(s, "while", w)
    BY <1>3, NestSame DEF Follows
  <1>5. ASSUME NEW k \in w + 1..n - 1
        PROVE  /\ ~(t[k] = "endwhile" /\ Nest(t, "while", k) = Nest(t, "while", w))
               /\ t[k] = "while" => \E e \in k + 1..n - 1 : Shut(t, "while", k, e)
    <2>1. k \in 1..Len(s) BY <1>1, <1>2
    <2>2. t[k] = s[k] /\ Nest(t, "while", k) = Nest(s, "while", k) BY <2>1, NestSame DEF Follows
    <2>3. ASSUME NEW e, Shut(s, "while", k, e) PROVE Shut(t, "while", k, e)
      BY <2>1, <2>3, MetKept DEF Shut
    <2> QED BY <1>4, <2>2, <2>3 DEF Direct
  <1> QED BY <1>2, <1>3, <1>4, <1>5 DEF Direct

LEMMA DestKept ==
  ASSUME NEW s, NEW t, Follows(s, t), NEW m \in 1..Len(s), NEW l, Dest(s, m, l)
  PROVE  Dest(t, m, l)
  <1>1. t[m] = s[m] BY DEF Follows
  <1>2. \A x, E, e : Met(s, x, E, m, e) => Met(t, x, E, m, e) BY MetKept
  <1> QED BY <1>1, <1>2 DEF Dest

LEMMA CalmKept ==
  ASSUME NEW s, NEW t, Follows(s, t), NEW f \in Nat \ {0}, NEW m, m \in 1..Len(s) + 1, Calm(s, f, m)
  PROVE  Calm(t, f, m)
  <1>1. \A k \in f..m - 1 : k \in 1..Len(s) BY DEF Follows
  <1> QED BY <1>1 DEF Calm, Follows

-----------------------------------------------------------------------------
(* The constructs the activations hold open.                               *)

LEMMA RankFacts ==
  ASSUME NEW st, NEW x, NEW i \in Nat
  PROVE  /\ Rank(st, x, i) \in Nat /\ Rank(st, x, 0) = 0
         /\ i + 1 \in 1..Len(st) =>
              Rank(st, x, i + 1) = Rank(st, x, i) + (IF st[i + 1].k \in Holders(x) THEN 1 ELSE 0)
  <1> DEFINE s == KindsOf(st)
             S == Holders(x)
  <1>1. i + 1 \in 1..Len(st) => s[i + 1] = st[i + 1].k BY DEF KindsOf
  <1> HIDE DEF s, S
  <1>2. /\ Tally(s, S, i) \in Nat /\ Tally(s, S, 0) = 0
        /\ Tally(s, S, i + 1) = Tally(s, S, i) + (IF s[i + 1] \in S THEN 1 ELSE 0)
    BY TallyFacts
  <1>3. \A j : Rank(st, x, j) = Tally(s, S, j) BY DEF Rank, s, S
  <1>4. i + 1 \in 1..Len(st) =>
          Rank(st, x, i + 1) = Rank(st, x, i) + (IF st[i + 1].k \in S THEN 1 ELSE 0)
    BY <1>1, <1>2, <1>3
  <1> QED BY <1>2, <1>3, <1>4 DEF S

LEMMA RankSame ==
  ASSUME NEW st, NEW tt, NEW x, NEW i \in Nat, Len(st) \in Nat, Len(tt) \in Nat, i <= Len(st), i <= Len(tt),
         \A j \in 1..i : st[j].k \in Holders(x) <=> tt[j].k \in Holders(x)
  PROVE  Rank(st, x, i) = Rank(tt, x, i)
  <1>1. \A j \in 1..i : j \in 1..Len(st) /\ j \in 1..Len(tt) OBVIOUS
  <1>2. \A j \in 1..i : KindsOf(st)[j] = st[j].k /\ KindsOf(tt)[j] = tt[j].k BY <1>1 DEF KindsOf
  <1>3. \A j \in 1..i : KindsOf(st)[j] \in Holders(x) <=> KindsOf(tt)[j] \in Holders(x) BY <1>1, <1>2
  <1> QED BY <1>3, TallySame DEF Rank

LEMMA RankOrder ==
  ASSUME NEW st \in Stacks, NEW x, NEW j \in 1..Len(st), NEW i \in 0..j
  PROVE  /\ Rank(st, x, i) <= Rank(st, x, j)
         /\ i < j /\ st[j].k \in Holders(x) => Rank(st, x, i) < Rank(st, x, j)
         /\ Rank(st, x, i) \in Nat /\ Rank(st, x, j) \in Nat
  <1>1. Len(st) \in Nat BY StackFacts
  <1>2. i \in Nat /\ j \in Nat /\ i <= j BY <1>1
  <1>3. KindsOf(st)[j] = st[j].k BY DEF KindsOf
  <1>4. i < j /\ st[j].k \in Holders(x) => \E m \in i + 1..j : KindsOf(st)[m] \in Holders(x)
    BY <1>2, <1>3
  <1> QED BY <1>2, <1>4, TallyOrder, RankFacts DEF Rank

(* The level of a new node is that of the activations that are open.       *)
LEMMA NestNew ==
  ASSUME NEW st \in Stacks, NEW s \in Seq(Kinds), NEW k \in Kinds, NEW x \in Classes, Levels(st, s)
  PROVE  /\ Nest(Append(s, k), x, Len(s) + 1)
              = Rank(st, x, Len(st)) + (IF k \in Opens(x) THEN 1 ELSE 0)
         /\ Rank(st, x, Len(st)) \in Nat
         /\ Tally(Append(s, k), Opens(x), Len(s) + 1) - Tally(Append(s, k), Closes(x), Len(s) + 1)
              = Rank(st, x, Len(st)) + (IF k \in Opens(x) THEN 1 ELSE 0)
                                     - (IF k \in Closes(x) THEN 1 ELSE 0)
  <1> DEFINE t == Append(s, k)
             n == Len(s)
  <1>1. n \in Nat /\ t[n + 1] = k /\ \A j \in 1..n : t[j] = s[j] BY FollowsAppend DEF Follows
  <1>2. Rank(st, x, Len(st)) \in Nat BY StackFacts, RankFacts
  <1>3. Tally(s, Opens(x), n) - Tally(s, Closes(x), n) = Rank(st, x, Len(st)) BY DEF Levels
  <1> HIDE DEF t, n
  <1>4. Tally(t, Opens(x), n) = Tally(s, Opens(x), n) /\ Tally(t, Closes(x), n) = Tally(s, Closes(x), n)
    BY <1>1, TallySame
  <1>5. /\ Tally(t, Opens(x), n + 1) = Tally(t, Opens(x), n) + (IF t[n + 1] \in Opens(x) THEN 1 ELSE 0)
        /\ Tally(t, Closes(x), n + 1) = Tally(t, Closes(x), n) + (IF t[n + 1] \in Closes(x) THEN 1 ELSE 0)
        /\ Tally(t, Opens(x), n) \in Nat /\ Tally(t, Closes(x), n) \in Nat
    <2>1. \A S : /\ Tally(t, S, n + 1) = Tally(t, S, n) + (IF t[n + 1] \in S THEN 1 ELSE 0)
                 /\ Tally(t, S, n) \in Nat
      BY <1>1, TallyFacts
    <2> QED BY <2>1
  <1>6. n + 1 - 1 = n BY <1>1
  <1>7. Nest(t, x, n + 1) = Rank(st, x, Len(st)) + (IF k \in Opens(x) THEN 1 ELSE 0)
    BY <1>1, <1>2, <1>3, <1>4, <1>5, <1>6 DEF Nest
  <1>8. Tally(t, Opens(x), n + 1) - Tally(t, Closes(x), n + 1)
          = Rank(st, x, Len(st)) + (IF k \in Opens(x) THEN 1 ELSE 0) - (IF k \in Closes(x) THEN 1 ELSE 0)
    BY <1>1, <1>2, <1>3, <1>4, <1>5
  <1> QED BY <1>2, <1>7, <1>8 DEF t, n

(* A node stays on its level until that is left.                           *)
LEMMA PendingGrows ==
  ASSUME NEW st \in Stacks, NEW s \in Seq(Kinds), NEW k \in Kinds, NEW x \in Classes, Levels(st, s),
         NEW m, NEW l \in Nat, Pending(s, x, m, l), l <= Rank(st, x, Len(st)),
         k \in Ends(x) => l < Rank(st, x, Len(st))
  PROVE  Pending(Append(s, k), x, m, l)
  <1> DEFINE t == Append(s, k)
             n == Len(s)
  <1>1. /\ n \in Nat /\ Len(t) = n + 1 /\ t[n + 1] = k /\ Follows(s, t) /\ (\A j \in 1..n : t[j] = s[j])
    BY FollowsAppend DEF Follows
  <1>2. /\ Nest(t, x, n + 1) = Rank(st, x, Len(st)) + (IF k \in Opens(x) THEN 1 ELSE 0)
        /\ Rank(st, x, Len(st)) \in Nat
    BY NestNew
  <1>3. \A j \in 1..n : Nest(t, x, j) = Nest(s, x, j) BY <1>1, NestSame
  <1>4. m \in 1..n /\ Nest(s, x, m) = l BY DEF Pending
  <1>5. m \in 1..n + 1 /\ Nest(t, x, m) = l BY <1>1, <1>3, <1>4
  <1>6. ASSUME NEW j \in m + 1..n + 1
        PROVE  Nest(t, x, j) >= l /\ (t[j] \in Ends(x) => Nest(t, x, j) > l)
    <2>1. CASE j = n + 1 BY <2>1, <1>1, <1>2
    <2>2. CASE j # n + 1
      <3>1. j \in m + 1..n /\ j \in 1..n BY <2>2, <1>1, <1>4
      <3> QED BY <3>1, <1>1, <1>3 DEF Pending
    <2> QED BY <2>1, <2>2
  <1> HIDE DEF t, n
  <1> QED BY <1>1, <1>5, <1>6 DEF Pending, t

(* The end of a construct is the first on its level.                       *)
LEMMA MetNow ==
  ASSUME NEW st \in Stacks, NEW s \in Seq(Kinds), NEW k \in Kinds, NEW x \in Classes, Levels(st, s),
         NEW m, Pending(s, x, m, Rank(st, x, Len(st))), NEW E, E \subseteq Ends(x), k \in E, k \notin Opens(x)
  PROVE  Met(Append(s, k), x, E, m, Len(s) + 1)
  <1> DEFINE t == Append(s, k)
             n == Len(s)
             l == Rank(st, x, Len(st))
  <1>1. /\ n \in Nat /\ Len(t) = n + 1 /\ t[n + 1] = k /\ Follows(s, t) /\ (\A j \in 1..n : t[j] = s[j])
    BY FollowsAppend DEF Follows
  <1>2. Nest(t, x, n + 1) = l /\ l \in Nat BY NestNew
  <1>3. \A j \in 1..n : Nest(t, x, j) = Nest(s, x, j) BY <1>1, NestSame
  <1>4. m \in 1..n /\ Nest(s, x, m) = l BY DEF Pending
  <1>5. n + 1 \in m + 1..n + 1 /\ Nest(t, x, m) = l BY <1>1, <1>3, <1>4
  <1>6. ASSUME NEW j \in m + 1..n + 1 - 1 PROVE ~(t[j] \in E /\ Nest(t, x, j) = l)
    <2>1. j \in m + 1..n /\ j \in 1..n BY <1>1, <1>4
    <2>2. s[j] \in Ends(x) => Nest(s, x, j) > l BY <2>1 DEF Pending
    <2> QED BY <2>1, <2>2, <1>1, <1>2, <1>3
  <1> HIDE DEF t, n, l
  <1>7. Met(t, x, E, m, n + 1) BY <1>1, <1>2, <1>5, <1>6 DEF Met
  <1> QED BY <1>7 DEF t, n

LEMMA InnerNow ==
  ASSUME NEW t, NEW m, NEW n \in Nat,
         \A h \in m + 1..n : /\ t[h] \in Exprs
                             /\ t[h] \in {"and", "or"} => \E d \in h + 1..n : Shut(t, "logic", h, d)
  PROVE  Inner(t, m, n + 1)
  <1>1. n + 1 - 1 = n OBVIOUS
  <1>2. \A h \in m + 1..n + 1 - 1 :
          /\ t[h] \in Exprs
          /\ t[h] \in {"and", "or"} => \E d \in h + 1..n + 1 - 1 : Shut(t, "logic", h, d)
    BY <1>1
  <1> QED BY <1>2 DEF Inner

(* There is one.                                                           *)
LEMMA MetOnce ==
  ASSUME NEW s, NEW x, NEW E, NEW n \in Nat, NEW d, Met(s, x, E, n, d), NEW e, Met(s, x, E, n, e), Len(s) \in Nat
  PROVE  d = e
  <1>1. d \in n + 1..Len(s) /\ e \in n + 1..Len(s) BY DEF Met
  <1>2. ~(d < e)
    <2>1. SUFFICES ASSUME d < e PROVE FALSE OBVIOUS
    <2>2. d \in n + 1..e - 1 BY <1>1, <2>1
    <2> QED BY <2>2 DEF Met
  <1>3. ~(e < d)
    <2>1. SUFFICES ASSUME e < d PROVE FALSE OBVIOUS
    <2>2. e \in n + 1..d - 1 BY <1>1, <2>1
    <2> QED BY <2>2 DEF Met
  <1> QED BY <1>1, <1>2, <1>3

(* Two stacks that share their first p activations, and differ in the last *)
(* at most.                                                                *)
Shared(st, tt, K, J, p) ==
  /\ st \in Stacks /\ tt \in Stacks /\ p \in Nat
  /\ Len(st) \in p..p + 1 /\ Len(tt) \in p..p + 1
  /\ \A i \in 1..p : tt[i] = st[i] /\ J[i] = K[i]

LEMMA SharedFacts ==
  ASSUME NEW st, NEW tt, NEW K, NEW J, NEW p, Shared(st, tt, K, J, p), NEW x
  PROVE  /\ Len(st) \in Nat /\ Len(tt) \in Nat
         /\ \A i \in 0..p : Rank(st, x, i) = Rank(tt, x, i) /\ Rank(st, x, i) \in Nat
         /\ Len(tt) = p + 1 => Rank(tt, x, p + 1) = Rank(st, x, p) + (IF tt[p + 1].k \in Holders(x) THEN 1 ELSE 0)
         /\ Len(st) = p + 1 => Rank(st, x, p + 1) = Rank(st, x, p) + (IF st[p + 1].k \in Holders(x) THEN 1 ELSE 0)
         /\ \A i \in 1..Len(st) : i \in 1..p \/ (i = p + 1 /\ Len(st) = p + 1)
         /\ \A i \in 1..Len(tt) : i \in 1..p \/ (i = p + 1 /\ Len(tt) = p + 1)
         /\ 1..p \subseteq 1..Len(st) /\ 1..p \subseteq 1..Len(tt)
  <1>1. Len(st) \in Nat /\ Len(tt) \in Nat /\ p \in Nat BY StackFacts DEF Shared
  <1>2. /\ \A i \in 1..Len(st) : i \in 1..p \/ (i = p + 1 /\ Len(st) = p + 1)
        /\ \A i \in 1..Len(tt) : i \in 1..p \/ (i = p + 1 /\ Len(tt) = p + 1)
        /\ 1..p \subseteq 1..Len(st) /\ 1..p \subseteq 1..Len(tt)
        /\ (Len(tt) = p + 1 => p + 1 \in 1..Len(tt)) /\ (Len(st) = p + 1 => p + 1 \in 1..Len(st))
    BY <1>1 DEF Shared
  <1>3. \A i \in 1..p : st[i].k \in Holders(x) <=> tt[i].k \in Holders(x) BY DEF Shared
  <1>4. \A i \in 0..p : Rank(st, x, i) = Rank(tt, x, i)
    <2> SUFFICES ASSUME NEW i \in 0..p PROVE Rank(st, x, i) = Rank(tt, x, i) OBVIOUS
    <2>1. i \in Nat /\ i <= Len(st) /\ i <= Len(tt) BY <1>1 DEF Shared
    <2>2. \A j \in 1..i : st[j].k \in Holders(x) <=> tt[j].k \in Holders(x) BY <1>1, <1>3
    <2> QED BY <1>1, <2>1, <2>2, RankSame
  <1>5. \A i \in 0..p : i \in Nat BY <1>1
  <1>6. \A i \in 0..p : Rank(st, x, i) \in Nat BY <1>5, RankFacts
  <1>7. p \in 0..p BY <1>1
  <1>8. Rank(st, x, p) = Rank(tt, x, p) BY <1>4, <1>7
  <1>9. Len(tt) = p + 1 => Rank(tt, x, p + 1) = Rank(st, x, p) + (IF tt[p + 1].k \in Holders(x) THEN 1 ELSE 0)
    BY <1>1, <1>2, <1>8, RankFacts
  <1>10. Len(st) = p + 1 => Rank(st, x, p + 1) = Rank(st, x, p) + (IF st[p + 1].k \in Holders(x) THEN 1 ELSE 0)
    BY <1>1, <1>2, RankFacts
  <1> QED BY <1>1, <1>2, <1>4, <1>6, <1>9, <1>10

(* What a visit asks of the stack: the constructs that open and close are  *)
(* those of the activations that come and go.                              *)
Suits(st, tt, K, J, s, k, p) ==
  /\ \A x \in Classes :
       /\ Rank(tt, x, Len(tt)) = Rank(st, x, Len(st)) + (IF k \in Opens(x) THEN 1 ELSE 0)
                                                      - (IF k \in Closes(x) THEN 1 ELSE 0)
       /\ k \in Ends(x) => Len(st) = p + 1 /\ st[p + 1].k \in Holders(x)
  /\ \A x \in {"while", "logic"} :
       /\ Len(st) = p + 1 /\ st[p + 1].k \in Holders(x) =>
            k \in Closes(x) \/ (Len(tt) = p + 1 /\ tt[p + 1].k \in Holders(x) /\ J[p + 1] = K[p + 1])
       /\ Len(tt) = p + 1 /\ tt[p + 1].k \in Holders(x) =>
            \/ k \in Opens(x) /\ J[p + 1] = Len(s) + 1
            \/ Len(st) = p + 1 /\ st[p + 1].k \in Holders(x) /\ J[p + 1] = K[p + 1] /\ k \notin Ends(x)
       /\ k \in Opens(x) => Len(tt) = p + 1 /\ tt[p + 1].k \in Holders(x) /\ J[p + 1] = Len(s) + 1
  /\ \A i \in 1..Len(tt) : tt[i].k \in Loopers \cup Joins => Stands(tt[i], J[i], Append(s, k))

LEMMA PendingShared ==
  ASSUME NEW st, NEW tt, NEW K, NEW J, NEW s \in Seq(Kinds), NEW k \in Kinds, NEW p,
         Shared(st, tt, K, J, p), Levels(st, s), Suits(st, tt, K, J, s, k, p),
         NEW x \in Classes, NEW i \in 1..p, NEW m, Pending(s, x, m, Rank(st, x, i))
  PROVE  Pending(Append(s, k), x, m, Rank(tt, x, i))
  <1>1. /\ Rank(st, x, i) = Rank(tt, x, i) /\ Rank(st, x, i) \in Nat /\ i \in 1..Len(st) /\ Len(st) \in Nat
    <2>1. i \in 0..p BY DEF Shared
    <2>2. /\ Len(st) \in Nat /\ \A j \in 0..p : Rank(st, x, j) = Rank(tt, x, j) /\ Rank(st, x, j) \in Nat
          /\ 1..p \subseteq 1..Len(st)
      BY SharedFacts
    <2> QED BY <2>1, <2>2
  <1>2. st \in Stacks /\ i \in 0..Len(st) /\ Len(st) \in 1..Len(st) BY <1>1 DEF Shared
  <1>3. Rank(st, x, i) <= Rank(st, x, Len(st)) BY <1>2, RankOrder
  <1>4. k \in Ends(x) => Rank(st, x, i) < Rank(st, x, Len(st))
    <2>1. k \in Ends(x) => i < Len(st) /\ st[Len(st)].k \in Holders(x) BY <1>1 DEF Suits, Shared
    <2> QED BY <1>2, <2>1, RankOrder
  <1> QED BY <1>1, <1>2, <1>3, <1>4, PendingGrows

(* The text and the activations keep up with each other.                   *)
LEMMA StructStep ==
  ASSUME NEW st, NEW tt, NEW K, NEW J, NEW s, NEW k \in Kinds, NEW p,
         Shared(st, tt, K, J, p), Struct(st, K, s), Suits(st, tt, K, J, s, k, p)
  PROVE  Struct(tt, J, Append(s, k))
  <1> DEFINE t == Append(s, k)
             n == Len(s)
  <1>0. s \in Seq(Kinds) /\ Levels(st, s) /\ Opened(st, K, s) /\ Nests(s) /\ st \in Stacks BY DEF Struct, Shared
  <1>1. /\ n \in Nat /\ Len(t) = n + 1 /\ t[n + 1] = k /\ Follows(s, t) /\ (\A j \in 1..n : t[j] = s[j])
        /\ t \in Seq(Kinds)
    BY <1>0, FollowsAppend DEF Follows
  <1>2. Levels(tt, t)
    <2> SUFFICES ASSUME NEW x \in Classes
                 PROVE  Tally(t, Opens(x), n + 1) - Tally(t, Closes(x), n + 1) = Rank(tt, x, Len(tt))
      BY <1>1 DEF Levels
    <2>1. Tally(t, Opens(x), n + 1) - Tally(t, Closes(x), n + 1)
            = Rank(st, x, Len(st)) + (IF k \in Opens(x) THEN 1 ELSE 0) - (IF k \in Closes(x) THEN 1 ELSE 0)
      BY <1>0, NestNew
    <2> QED BY <2>1 DEF Suits
  <1>3. ASSUME NEW x \in {"while", "logic"}
        PROVE  /\ \A i \in 1..Len(tt) : tt[i].k \in Holders(x) =>
                    Pending(t, x, J[i], Rank(tt, x, i)) /\ Stands(tt[i], J[i], t)
               /\ \A i, j \in 1..Len(tt) : i < j /\ tt[i].k \in Holders(x) /\ tt[j].k \in Holders(x) => J[i] < J[j]
               /\ \A m \in 1..Len(t) : t[m] \in Opens(x) =>
                    \/ \E e \in m + 1..Len(t) : Shut(t, x, m, e)
                    \/ \E i \in 1..Len(tt) : tt[i].k \in Holders(x) /\ J[i] = m
    <2>0. x \in Classes /\ Holders(x) \subseteq Loopers \cup Joins BY ClassFacts DEF Classes, Loopers, Joins
    <2>1. /\ \A i \in 1..Len(st) : st[i].k \in Holders(x) =>
               Pending(s, x, K[i], Rank(st, x, i)) /\ Stands(st[i], K[i], s)
          /\ \A i, j \in 1..Len(st) : i < j /\ st[i].k \in Holders(x) /\ st[j].k \in Holders(x) => K[i] < K[j]
          /\ \A m \in 1..n : s[m] \in Opens(x) =>
               \/ \E e \in m + 1..n : Shut(s, x, m, e)
               \/ \E i \in 1..Len(st) : st[i].k \in Holders(x) /\ K[i] = m
      BY <1>0 DEF Opened
    <2>2. /\ \A i \in 1..Len(st) : i \in 1..p \/ (i = p + 1 /\ Len(st) = p + 1)
          /\ \A i \in 1..Len(tt) : i \in 1..p \/ (i = p + 1 /\ Len(tt) = p + 1)
          /\ 1..p \subseteq 1..Len(st) /\ 1..p \subseteq 1..Len(tt) /\ p \in Nat
          /\ \A i \in 1..p : tt[i] = st[i] /\ J[i] = K[i]
          /\ Len(tt) = p + 1 => Rank(tt, x, p + 1) = Rank(st, x, p) + (IF tt[p + 1].k \in Holders(x) THEN 1 ELSE 0)
          /\ Len(st) = p + 1 => Rank(st, x, p + 1) = Rank(st, x, p) + (IF st[p + 1].k \in Holders(x) THEN 1 ELSE 0)
      <3>1. p \in Nat /\ \A i \in 1..p : tt[i] = st[i] /\ J[i] = K[i] BY DEF Shared
      <3>2. /\ \A i \in 1..Len(st) : i \in 1..p \/ (i = p + 1 /\ Len(st) = p + 1)
            /\ \A i \in 1..Len(tt) : i \in 1..p \/ (i = p + 1 /\ Len(tt) = p + 1)
            /\ 1..p \subseteq 1..Len(st) /\ 1..p \subseteq 1..Len(tt)
        BY SharedFacts
      <3>3. /\ Len(tt) = p + 1 => Rank(tt, x, p + 1) = Rank(st, x, p) + (IF tt[p + 1].k \in Holders(x) THEN 1 ELSE 0)
            /\ Len(st) = p + 1 => Rank(st, x, p + 1) = Rank(st, x, p) + (IF st[p + 1].k \in Holders(x) THEN 1 ELSE 0)
        BY SharedFacts
      <3> QED BY <3>1, <3>2, <3>3
    <2>3. /\ Len(st) = p + 1 /\ st[p + 1].k \in Holders(x) =>
               k \in Closes(x) \/ (Len(tt) = p + 1 /\ tt[p + 1].k \in Holders(x) /\ J[p + 1] = K[p + 1])
          /\ Len(tt) = p + 1 /\ tt[p + 1].k \in Holders(x) =>
               \/ k \in Opens(x) /\ J[p + 1] = n + 1
               \/ Len(st) = p + 1 /\ st[p + 1].k \in Holders(x) /\ J[p + 1] = K[p + 1] /\ k \notin Ends(x)
          /\ k \in Opens(x) => Len(tt) = p + 1 /\ tt[p + 1].k \in Holders(x) /\ J[p + 1] = n + 1
      BY DEF Suits
    <2>4. /\ Rank(tt, x, Len(tt)) = Rank(st, x, Len(st)) + (IF k \in Opens(x) THEN 1 ELSE 0)
                                                          - (IF k \in Closes(x) THEN 1 ELSE 0)
          /\ k \in Ends(x) => Len(st) = p + 1 /\ st[p + 1].k \in Holders(x)
      BY <2>0 DEF Suits
    <2>5. Opens(x) \cap Closes(x) = {} /\ Ends(x) = Closes(x) BY ClassFacts
    <2>6. \A i \in 1..p : st[i].k \in Holders(x) => Pending(t, x, J[i], Rank(tt, x, i))
      <3> SUFFICES ASSUME NEW i \in 1..p, st[i].k \in Holders(x)
                   PROVE  Pending(t, x, J[i], Rank(tt, x, i))
        OBVIOUS
      <3>1. Pending(s, x, K[i], Rank(st, x, i)) /\ J[i] = K[i] BY <2>1, <2>2
      <3> QED BY <3>1, <2>0, <1>0, PendingShared
    <2>7. Len(tt) = p + 1 /\ tt[p + 1].k \in Holders(x) => Pending(t, x, J[p + 1], Rank(tt, x, p + 1))
      <3> SUFFICES ASSUME Len(tt) = p + 1, tt[p + 1].k \in Holders(x)
                   PROVE  Pending(t, x, J[p + 1], Rank(tt, x, p + 1))
        OBVIOUS
      <3>0. /\ Nest(t, x, n + 1) = Rank(st, x, Len(st)) + (IF k \in Opens(x) THEN 1 ELSE 0)
            /\ Rank(st, x, Len(st)) \in Nat
        BY <2>0, <1>0, NestNew
      <3>1. CASE k \in Opens(x) /\ J[p + 1] = n + 1
        <4>1. Nest(t, x, n + 1) = Rank(tt, x, p + 1) BY <3>0, <3>1, <2>4, <2>5
        <4>2. n + 1 \in 1..Len(t) /\ \A j \in n + 1 + 1..Len(t) : FALSE BY <1>1
        <4> QED BY <4>1, <4>2, <3>1 DEF Pending
      <3>2. CASE Len(st) = p + 1 /\ st[p + 1].k \in Holders(x) /\ J[p + 1] = K[p + 1] /\ k \notin Ends(x)
        <4>1. p + 1 \in 1..Len(st) BY <3>2, <2>2
        <4>2. Pending(s, x, K[p + 1], Rank(st, x, Len(st))) BY <4>1, <3>2, <2>1
        <4>3. Rank(st, x, Len(st)) = Rank(tt, x, p + 1) BY <3>2, <2>2
        <4>4. Pending(t, x, K[p + 1], Rank(st, x, Len(st)))
          <5>1. Rank(st, x, Len(st)) <= Rank(st, x, Len(st)) BY <3>0
          <5> QED BY <5>1, <4>2, <3>0, <3>2, <2>0, <1>0, PendingGrows
        <4> QED BY <4>3, <4>4, <3>2
      <3> QED BY <3>1, <3>2, <2>3
    <2>8. \A i \in 1..Len(tt) : tt[i].k \in Holders(x) =>
            Pending(t, x, J[i], Rank(tt, x, i)) /\ Stands(tt[i], J[i], t)
      <3> SUFFICES ASSUME NEW i \in 1..Len(tt), tt[i].k \in Holders(x)
                   PROVE  Pending(t, x, J[i], Rank(tt, x, i)) /\ Stands(tt[i], J[i], t)
        OBVIOUS
      <3>1. Stands(tt[i], J[i], t) BY <2>0 DEF Suits
      <3>2. CASE i \in 1..p BY <3>1, <3>2, <2>2, <2>6
      <3>3. CASE i = p + 1 /\ Len(tt) = p + 1 BY <3>1, <3>3, <2>7
      <3> QED BY <3>2, <3>3, <2>2
    <2>9. \A i, j \in 1..Len(tt) : i < j /\ tt[i].k \in Holders(x) /\ tt[j].k \in Holders(x) => J[i] < J[j]
      <3> SUFFICES ASSUME NEW i \in 1..Len(tt), NEW j \in 1..Len(tt), i < j,
                          tt[i].k \in Holders(x), tt[j].k \in Holders(x)
                   PROVE  J[i] < J[j]
        OBVIOUS
      <3>1. i \in 1..p /\ st[i].k \in Holders(x) /\ J[i] = K[i] /\ i \in 1..Len(st)
        <4>1. i # p + 1 BY <2>2
        <4> QED BY <4>1, <2>2
      <3>2. CASE j \in 1..p BY <3>1, <3>2, <2>1, <2>2
      <3>3. CASE j = p + 1 /\ Len(tt) = p + 1
        <4>1. CASE J[p + 1] = n + 1
          <5>1. K[i] \in 1..n BY <3>1, <2>1 DEF Pending
          <5> QED BY <4>1, <5>1, <3>1, <3>3, <1>1
        <4>2. CASE Len(st) = p + 1 /\ st[p + 1].k \in Holders(x) /\ J[p + 1] = K[p + 1]
          <5>1. p + 1 \in 1..Len(st) BY <4>2, <2>2
          <5> QED BY <4>2, <5>1, <3>1, <3>3, <2>1
        <4> QED BY <4>1, <4>2, <3>3, <2>3
      <3> QED BY <3>2, <3>3, <2>2
    <2>10. \A m \in 1..Len(t) : t[m] \in Opens(x) =>
             \/ \E e \in m + 1..Len(t) : Shut(t, x, m, e)
             \/ \E i \in 1..Len(tt) : tt[i].k \in Holders(x) /\ J[i] = m
      <3> SUFFICES ASSUME NEW m \in 1..Len(t), t[m] \in Opens(x)
                   PROVE  \/ \E e \in m + 1..Len(t) : Shut(t, x, m, e)
                          \/ \E i \in 1..Len(tt) : tt[i].k \in Holders(x) /\ J[i] = m
        OBVIOUS
      <3>1. CASE m = n + 1
        <4>1. Len(tt) = p + 1 /\ tt[p + 1].k \in Holders(x) /\ J[p + 1] = n + 1 BY <3>1, <1>1, <2>3
        <4>2. p + 1 \in 1..Len(tt) BY <4>1, <2>2
        <4> QED BY <4>1, <4>2, <3>1
      <3>2. CASE m # n + 1
        <4>1. m \in 1..n /\ s[m] \in Opens(x) BY <3>2, <1>1
        <4>2. CASE \E e \in m + 1..n : Shut(s, x, m, e)
          <5>1. PICK e \in m + 1..n : Shut(s, x, m, e) BY <4>2
          <5>2. Shut(t, x, m, e) BY <5>1, <4>1, <1>1, MetKept DEF Shut
          <5>3. e \in m + 1..Len(t) BY <5>1, <1>1
          <5> QED BY <5>2, <5>3
        <4>3. CASE \E i \in 1..Len(st) : st[i].k \in Holders(x) /\ K[i] = m
          <5>1. PICK i \in 1..Len(st) : st[i].k \in Holders(x) /\ K[i] = m BY <4>3
          <5>2. CASE i \in 1..p BY <5>1, <5>2, <2>2
          <5>3. CASE i = p + 1 /\ Len(st) = p + 1 /\ k \in Closes(x)
            <6>1. Pending(s, x, m, Rank(st, x, Len(st))) BY <5>1, <5>3, <2>1
            <6>2. Closes(x) \subseteq Ends(x) /\ k \notin Opens(x) BY <5>3, <2>5
            <6>3. Shut(t, x, m, n + 1) BY <6>1, <6>2, <5>3, <2>0, <1>0, MetNow DEF Shut
            <6>4. n + 1 \in m + 1..Len(t) BY <4>1, <1>1
            <6> QED BY <6>3, <6>4
          <5>4. CASE i = p + 1 /\ Len(tt) = p + 1 /\ tt[p + 1].k \in Holders(x) /\ J[p + 1] = K[p + 1]
            <6>1. p + 1 \in 1..Len(tt) BY <5>4, <2>2
            <6> QED BY <6>1, <5>1, <5>4
          <5> QED BY <5>1, <5>2, <5>3, <5>4, <2>2, <2>3
        <4> QED BY <4>1, <4>2, <4>3, <2>1
      <3> QED BY <3>1, <3>2
    <2> QED BY <2>8, <2>9, <2>10
  <1>4. Opened(tt, J, t)
    <2> HIDE DEF t
    <2> QED BY <1>3 DEF Opened
  <1>5. Nests(t)
    <2> SUFFICES ASSUME NEW m \in 1..Len(t), NEW e \in 1..Len(t), t[m] \in {"and", "or"}, Shut(t, "logic", m, e)
                 PROVE  Inner(t, m, e)
      BY DEF Nests
    <2>1. e \in m + 1..n + 1 /\ t[e] = "endlogic" BY <1>1, ClassFacts DEF Shut, Met
    <2>2. m \in 1..n /\ s[m] \in {"and", "or"} /\ m \in Nat BY <2>1, <1>1
    <2>3. \/ \E d \in m + 1..n : Shut(s, "logic", m, d)
          \/ \E i \in 1..Len(st) : st[i].k \in Joins /\ K[i] = m
      BY <2>2, <1>0, ClassFacts DEF Opened, Joins
    <2>4. ASSUME NEW d \in m + 1..n, Shut(s, "logic", m, d) PROVE Inner(t, m, e)
      <3>1. Shut(t, "logic", m, d) BY <2>2, <2>4, <1>1, MetKept DEF Shut
      <3>2. d = e BY <3>1, <2>2, <1>1, MetOnce DEF Shut
      <3>3. Inner(s, m, e) /\ e \in 1..n + 1 BY <3>2, <2>2, <2>4, <1>0, <1>1 DEF Nests
      <3> QED BY <3>3, <2>2, <1>1, InnerKept
    <2>5. ASSUME NEW i \in 1..Len(st), st[i].k \in Joins, K[i] = m, ~\E d \in m + 1..n : Shut(s, "logic", m, d)
          PROVE  Inner(t, m, e)
      <3>0. "logic" \in Classes /\ Holders("logic") = Joins /\ Opens("logic") = {"and", "or"}
        BY ClassFacts DEF Classes, Joins
      <3>1. /\ \A j \in 1..Len(st) : st[j].k \in Joins =>
                 Pending(s, "logic", K[j], Rank(st, "logic", j)) /\ Stands(st[j], K[j], s)
            /\ \A j, h \in 1..Len(st) : j < h /\ st[j].k \in Joins /\ st[h].k \in Joins => K[j] < K[h]
            /\ \A h \in 1..n : s[h] \in {"and", "or"} =>
                 \/ \E d \in h + 1..n : Shut(s, "logic", h, d)
                 \/ \E j \in 1..Len(st) : st[j].k \in Joins /\ K[j] = h
        BY <1>0, <3>0 DEF Opened
      <3>2. e = n + 1
        <4>1. SUFFICES ASSUME e # n + 1 PROVE FALSE OBVIOUS
        <4>2. e \in m + 1..n BY <4>1, <2>1, <1>1
        <4>3. \A j \in 1..n : t[j] = s[j] /\ Nest(t, "logic", j) = Nest(s, "logic", j) BY <1>1, NestSame
        <4>4. Met(s, "logic", {"endlogic"}, m, e)
          <5>1. Met(t, "logic", {"endlogic"}, m, e) BY ClassFacts DEF Shut
          <5>2. \A j \in m + 1..e - 1 : j \in 1..n BY <4>2, <2>2, <1>1
          <5>3. e \in 1..n BY <4>2, <2>2
          <5> QED BY <5>1, <5>2, <5>3, <4>2, <4>3, <2>2 DEF Met
        <4>5. Shut(s, "logic", m, e) BY <4>4, ClassFacts DEF Shut
        <4> QED BY <4>2, <4>5, <2>5
      <3>3. i = Len(st)
        <4>1. Nest(t, "logic", n + 1) = Nest(t, "logic", m) /\ k = "endlogic" BY <3>2, <2>1, <1>1 DEF Shut, Met
        <4>2. Nest(t, "logic", m) = Rank(st, "logic", i)
          <5>1. Nest(t, "logic", m) = Nest(s, "logic", m) BY <1>1, <2>2, NestSame
          <5> QED BY <5>1, <2>5, <3>1 DEF Pending
        <4>3. Nest(t, "logic", n + 1) = Rank(st, "logic", Len(st)) /\ Rank(st, "logic", Len(st)) \in Nat
          <5>1. k \notin Opens("logic") BY <4>1, <3>0
          <5> QED BY <5>1, <3>0, <1>0, NestNew
        <4>4. /\ Len(st) = p + 1 /\ st[p + 1].k \in Holders("logic")
          BY <4>1, <3>0, ClassFacts DEF Suits
        <4>5. ~(i < Len(st))
          <5>1. Len(st) \in Nat /\ Len(st) \in 1..Len(st) /\ i \in 0..Len(st) BY <1>0, StackFacts
          <5>2. i < Len(st) => Rank(st, "logic", i) < Rank(st, "logic", Len(st)) BY <5>1, <4>4, <1>0, RankOrder
          <5> QED BY <5>2, <4>1, <4>2, <4>3
        <4>6. Len(st) \in Nat BY <1>0, StackFacts
        <4> QED BY <4>5, <4>6
      <3>4. \A h \in m + 1..n : s[h] \in Exprs BY <3>1, <2>5 DEF Stands
      <3>5. ASSUME NEW h \in m + 1..n, s[h] \in {"and", "or"} PROVE \E d \in h + 1..n : Shut(t, "logic", h, d)
        <4>1. h \in 1..n BY <2>2
        <4>2. ~\E j \in 1..Len(st) : st[j].k \in Joins /\ K[j] = h
          <5>1. SUFFICES ASSUME NEW j \in 1..Len(st), st[j].k \in Joins, K[j] = h PROVE FALSE OBVIOUS
          <5>2. j < i \/ j = i
            <6>1. Len(st) \in Nat BY <1>0, StackFacts
            <6> QED BY <6>1, <3>3
          <5>3. j < i => K[j] < K[i] BY <5>1, <3>1, <2>5
          <5> QED BY <5>1, <5>2, <5>3, <2>5, <2>2, <1>1
        <4>3. PICK d \in h + 1..n : Shut(s, "logic", h, d) BY <4>1, <4>2, <3>1, <3>5
        <4>4. Shut(t, "logic", h, d) BY <4>1, <4>3, <1>1, MetKept DEF Shut
        <4> QED BY <4>4
      <3>6. \A h \in m + 1..n : t[h] = s[h] BY <2>2, <1>1
      <3>7. \A h \in m + 1..n : /\ t[h] \in Exprs
                                /\ t[h] \in {"and", "or"} => \E d \in h + 1..n : Shut(t, "logic", h, d)
        BY <3>4, <3>5, <3>6
      <3> HIDE DEF t, n
      <3> QED BY <3>2, <3>7, <1>1, InnerNow
    <2> QED BY <2>3, <2>4, <2>5
  <1> HIDE DEF t
  <1>6. Struct(tt, J, t) BY <1>1, <1>2, <1>4, <1>5 DEF Struct
  <1> QED BY <1>6 DEF t

-----------------------------------------------------------------------------
(* What is known of the instructions and stays known.                      *)

(* Blocks only grow, and those that have their terminator stay.            *)
Outgrows(c, d) ==
  /\ c \in Codes /\ d \in Codes /\ Len(c) <= Len(d)
  /\ \A b \in 1..Len(c) : /\ Len(c[b]) <= Len(d[b])
                          /\ \A j \in 1..Len(c[b]) : d[b][j] = c[b][j]
                          /\ IsTerminated(c[b]) => d[b] = c[b]

LEMMA CodeFacts ==
  ASSUME NEW c \in Codes
  PROVE  /\ Len(c) \in Nat
         /\ \A b \in 1..Len(c) : /\ c[b] \in Seq(Instrs) /\ Len(c[b]) \in Nat
                                 /\ c[b] # <<>> => 1 \in 1..Len(c[b]) /\ Len(c[b]) \in 1..Len(c[b])
                                 /\ Len(c[b]) # 0 => c[b] # <<>>
                                 /\ \A j \in 1..Len(c[b]) : c[b][j] \in Instrs
  <1>1. c \in Seq(Seq(Instrs)) BY DEF Codes
  <1>2. Len(c) \in Nat /\ \A b \in 1..Len(c) : c[b] \in Seq(Instrs) BY <1>1, LenProperties, ElementOfSeq
  <1> SUFFICES ASSUME NEW b \in 1..Len(c)
               PROVE  /\ Len(c[b]) \in Nat
                      /\ c[b] # <<>> => 1 \in 1..Len(c[b]) /\ Len(c[b]) \in 1..Len(c[b])
                      /\ Len(c[b]) # 0 => c[b] # <<>>
                      /\ \A j \in 1..Len(c[b]) : c[b][j] \in Instrs
    BY <1>2
  <1> DEFINE is == c[b]
  <1>3. is \in Seq(Instrs) BY <1>2
  <1> HIDE DEF is
  <1>4. Len(is) \in Nat /\ (is # <<>> => Len(is) # 0) /\ (Len(is) # 0 => is # <<>>)
    BY <1>3, LenProperties, EmptySeq
  <1>5. \A j \in 1..Len(is) : is[j] \in Instrs BY <1>3, ElementOfSeq
  <1>6. is # <<>> => 1 \in 1..Len(is) /\ Len(is) \in 1..Len(is) BY <1>4
  <1> QED BY <1>4, <1>5, <1>6 DEF is

LEMMA OutgrowsFacts ==
  ASSUME NEW c, NEW d, Outgrows(c, d), NEW b \in 1..Len(c)
  PROVE  /\ b \in 1..Len(d) /\ Len(c[b]) \in Nat /\ Len(d[b]) \in Nat
         /\ Len(c[b]) <= Len(d[b])
         /\ \A j \in 1..Len(c[b]) : d[b][j] = c[b][j]
         /\ c[b] # <<>> => d[b] # <<>> /\ d[b][1] = c[b][1] /\ LastOf(c[b]) \in Instrs
         /\ c[b] # <<>> /\ LastOf(c[b]).op \in {"br", "condbr", "ret"} => d[b] = c[b]
  <1>1. c \in Codes /\ d \in Codes /\ Len(c) <= Len(d) BY DEF Outgrows
  <1>2. Len(c) \in Nat /\ Len(d) \in Nat BY <1>1, CodeFacts
  <1>3. b \in 1..Len(d) BY <1>1, <1>2
  <1>4. /\ Len(c[b]) \in Nat /\ Len(d[b]) \in Nat /\ (Len(d[b]) # 0 => d[b] # <<>>)
        /\ c[b] # <<>> => 1 \in 1..Len(c[b]) /\ Len(c[b]) \in 1..Len(c[b])
        /\ \A j \in 1..Len(c[b]) : c[b][j] \in Instrs
    BY <1>1, <1>3, CodeFacts
  <1>5. /\ Len(c[b]) <= Len(d[b]) /\ \A j \in 1..Len(c[b]) : d[b][j] = c[b][j]
        /\ IsTerminated(c[b]) => d[b] = c[b]
    BY DEF Outgrows
  <1>6. c[b] # <<>> => d[b] # <<>> /\ d[b][1] = c[b][1] /\ LastOf(c[b]) \in Instrs
    BY <1>4, <1>5 DEF LastOf
  <1>7. c[b] # <<>> /\ LastOf(c[b]).op \in {"br", "condbr", "ret"} => d[b] = c[b]
    BY <1>5 DEF LastOf, IsTerminated, IsTerminator, Terminators
  <1> QED BY <1>3, <1>4, <1>5, <1>6, <1>7

LEMMA FromKept ==
  ASSUME NEW c, NEW d, Outgrows(c, d), NEW b \in 1..Len(c), NEW j \in 1..Len(c[b]) + 1,
         NEW L, NEW M, M[b] = L[b]
  PROVE  From(M, d, b, j) = From(L, c, b, j)
  <1>1. Len(c[b]) \in Nat /\ \A h \in 1..Len(c[b]) : d[b][h] = c[b][h] BY OutgrowsFacts
  <1>2. j # 1 => j - 1 \in 1..Len(c[b]) BY <1>1
  <1> QED BY <1>1, <1>2 DEF From

(* From one state of the walk to the next: what activations that stay wait *)
(* for is not placed, and what the one that goes was to place is reached   *)
(* where the nodes call for it.                                            *)
Carries(st, tt, K, J, L, M, c, d, pl, ql, s, t, p) ==
  /\ Shared(st, tt, K, J, p) /\ Follows(s, t) /\ Outgrows(c, d)
  /\ \A x \in Classes : \A i \in 1..p : \A m \in 1..Len(s) :
       Pending(s, x, m, Rank(st, x, i)) => Pending(t, x, m, Rank(tt, x, i))
  /\ pl \subseteq ql /\ pl \subseteq 1..Len(c) /\ \A b \in pl : M[b] = L[b]
  /\ \A i \in 1..p : \A y \in {st[i].alt, st[i].end} : y \in ql => y \in pl
  /\ \A i \in 1..Len(st) : \A m \in 1..Len(s) : \A y \in {st[i].alt, st[i].end} :
       i = p + 1 /\ Owner(st, K, s, m, i, y) =>
         /\ y \in ql /\ Dest(t, m, M[y])
         /\ s[m] \in {"and", "or"} => d[y] # <<>> /\ d[y][1].op = "phi" /\ d[y][1].node = M[y]

LEMMA OwnerKept ==
  ASSUME NEW st, NEW tt, NEW K, NEW J, NEW L, NEW M, NEW c, NEW d, NEW pl, NEW ql, NEW s, NEW t, NEW p,
         Carries(st, tt, K, J, L, M, c, d, pl, ql, s, t, p), NEW m \in 1..Len(s), NEW i \in 1..Len(st), NEW y,
         Owner(st, K, s, m, i, y)
  PROVE  \/ i \in 1..p /\ i \in 1..Len(tt) /\ Owner(tt, J, t, m, i, y)
              /\ (y \in ql => y \in pl) /\ y \in {tt[i].alt, tt[i].end}
         \/ /\ y \in ql /\ Dest(t, m, M[y])
            /\ s[m] \in {"and", "or"} => d[y] # <<>> /\ d[y][1].op = "phi" /\ d[y][1].node = M[y]
  <1>0. y \in {st[i].alt, st[i].end} BY DEF Owner
  <1>1. i \in 1..p \/ i = p + 1 BY SharedFacts DEF Carries
  <1>2. CASE i = p + 1 BY <1>0, <1>2 DEF Carries
  <1>3. CASE i \in 1..p
    <2>1. i \in 1..Len(tt) BY <1>3, SharedFacts DEF Carries
    <2>2. tt[i] = st[i] /\ J[i] = K[i] BY <1>3 DEF Carries, Shared
    <2>3. t[m] = s[m] BY DEF Carries, Follows
    <2>4. \A x \in Classes : Pending(s, x, m, Rank(st, x, i)) => Pending(t, x, m, Rank(tt, x, i))
      BY <1>3 DEF Carries
    <2>5. "if" \in Classes /\ "while" \in Classes BY DEF Classes
    <2>6. Owner(tt, J, t, m, i, y) BY <2>2, <2>3, <2>4, <2>5 DEF Owner
    <2>7. y \in ql => y \in pl BY <1>0, <1>3 DEF Carries
    <2> QED BY <1>0, <1>3, <2>1, <2>2, <2>6, <2>7
  <1> QED BY <1>1, <1>2, <1>3

LEMMA FarKept ==
  ASSUME NEW st, NEW tt, NEW K, NEW J, NEW L, NEW M, NEW c, NEW d, NEW pl, NEW ql, NEW s, NEW t, NEW p,
         Carries(st, tt, K, J, L, M, c, d, pl, ql, s, t, p), NEW m \in 1..Len(s), NEW y,
         Far(st, K, L, c, pl, s, m, y)
  PROVE  Far(tt, J, M, d, ql, t, m, y)
  <1>1. t[m] = s[m] BY DEF Carries, Follows
  <1>2. CASE /\ y \in pl /\ Dest(s, m, L[y])
             /\ s[m] \in {"and", "or"} => c[y] # <<>> /\ c[y][1].op = "phi" /\ c[y][1].node = L[y]
    <2>1. y \in ql /\ M[y] = L[y] /\ y \in 1..Len(c) /\ Outgrows(c, d) BY <1>2 DEF Carries
    <2>2. Dest(t, m, M[y]) BY <1>2, <2>1, DestKept DEF Carries
    <2>3. c[y] # <<>> => d[y] # <<>> /\ d[y][1] = c[y][1] BY <2>1, OutgrowsFacts
    <2> QED BY <1>1, <1>2, <2>1, <2>2, <2>3 DEF Far
  <1>3. CASE y \notin pl /\ \E i \in 1..Len(st) : Owner(st, K, s, m, i, y)
    <2>1. PICK i \in 1..Len(st) : Owner(st, K, s, m, i, y) BY <1>3
    <2>2. CASE i \in 1..Len(tt) /\ Owner(tt, J, t, m, i, y) /\ (y \in ql => y \in pl)
      BY <1>3, <2>2 DEF Far
    <2>3. CASE /\ y \in ql /\ Dest(t, m, M[y])
               /\ s[m] \in {"and", "or"} => d[y] # <<>> /\ d[y][1].op = "phi" /\ d[y][1].node = M[y]
      BY <1>1, <2>3 DEF Far
    <2> QED BY <2>1, <2>2, <2>3, OwnerKept
  <1> QED BY <1>2, <1>3 DEF Far

LEMMA GoesKept ==
  ASSUME NEW st, NEW tt, NEW K, NEW J, NEW L, NEW M, NEW c, NEW d, NEW pl, NEW ql, NEW s, NEW t, NEW p,
         Carries(st, tt, K, J, L, M, c, d, pl, ql, s, t, p), NEW f, NEW m, NEW y,
         Goes(st, K, L, c, pl, s, f, m, y)
  PROVE  Goes(tt, J, M, d, ql, t, f, m, y)
  <1>1. y \in pl => /\ y \in ql /\ M[y] = L[y]
                    /\ c[y] # <<>> => d[y] # <<>> /\ d[y][1] = c[y][1]
    <2>1. y \in pl => y \in ql /\ M[y] = L[y] /\ y \in 1..Len(c) /\ Outgrows(c, d) BY DEF Carries
    <2> QED BY <2>1, OutgrowsFacts
  <1>2. m \in 1..Len(s) => m \in 1..Len(t) /\ t[m] = s[m] BY DEF Carries, Follows
  <1>3. CASE y \in pl /\ L[y] = m /\ (m = f => c[y] # <<>> /\ c[y][1].op # "br")
    BY <1>1, <1>3 DEF Goes
  <1>4. CASE /\ m \in 1..Len(s) /\ s[m] \in {"continue", "endwhile"}
             /\ y \in pl /\ Direct(s, L[y] - 1, m) /\ c[y] # <<>> /\ c[y][1].op = "eval"
    <2>1. Direct(t, M[y] - 1, m) BY <1>1, <1>4, DirectKept DEF Carries
    <2> QED BY <1>1, <1>2, <1>4, <2>1 DEF Goes
  <1>5. CASE m \in 1..Len(s) /\ s[m] \in {"else", "break"} /\ Far(st, K, L, c, pl, s, m, y)
    <2>1. Far(tt, J, M, d, ql, t, m, y) BY <1>5, FarKept
    <2> QED BY <1>2, <1>5, <2>1 DEF Goes
  <1> QED BY <1>3, <1>4, <1>5 DEF Goes

LEMMA BranchingKept ==
  ASSUME NEW st, NEW tt, NEW K, NEW J, NEW L, NEW M, NEW c, NEW d, NEW pl, NEW ql, NEW s, NEW t, NEW p,
         Carries(st, tt, K, J, L, M, c, d, pl, ql, s, t, p), NEW i, i.node \in 1..Len(s),
         Branching(st, K, L, c, pl, s, i)
  PROVE  Branching(tt, J, M, d, ql, t, i)
  <1>1. t[i.node] = s[i.node] BY DEF Carries, Follows
  <1>2. Near(t, i) = Near(s, i) /\ Away(t, i) = Away(s, i) BY <1>1 DEF Near, Away
  <1>3. Near(s, i) \in ql /\ M[Near(s, i)] = L[Near(s, i)] BY DEF Carries, Branching
  <1>4. Far(tt, J, M, d, ql, t, i.node, Away(s, i)) BY FarKept DEF Branching
  <1> QED BY <1>1, <1>2, <1>3, <1>4 DEF Branching

LEMMA JoinedKept ==
  ASSUME NEW L, NEW M, NEW c, NEW d, NEW s, NEW t, Follows(s, t), Outgrows(c, d),
         NEW b \in 1..Len(c), NEW i, i.node \in 1..Len(s), Joined(L, c, s, b, i)
  PROVE  Joined(M, d, t, b, i)
  <1>1. PICK n \in 1..i.node - 1, x \in 1..Len(c), y \in 1..Len(c) :
          /\ s[n] \in {"and", "or"} /\ Shut(s, "logic", n, i.node)
          /\ i.phi = {Incoming(x, 0, s[n] = "or"), Incoming(y, i.node - 1, FALSE)}
          /\ c[x] # <<>> /\ LastOf(c[x]).op = "condbr" /\ LastOf(c[x]).node = n /\ Away(s, LastOf(c[x])) = b
          /\ c[y] # <<>> /\ LastOf(c[y]).op = "br"
    BY DEF Joined
  <1>2. n \in 1..Len(s) /\ t[n] = s[n] BY DEF Follows
  <1>3. Shut(t, "logic", n, i.node) BY <1>1, <1>2, MetKept DEF Shut
  <1>4. d[x] = c[x] /\ d[y] = c[y] /\ x \in 1..Len(d) /\ y \in 1..Len(d)
    <2>1. \A z \in 1..Len(c) : /\ z \in 1..Len(d)
                               /\ c[z] # <<>> /\ LastOf(c[z]).op \in {"br", "condbr", "ret"} => d[z] = c[z]
      BY OutgrowsFacts
    <2> QED BY <1>1, <2>1
  <1>5. Away(t, LastOf(c[x])) = Away(s, LastOf(c[x])) BY <1>1, <1>2 DEF Away
  <1>6. /\ t[n] \in {"and", "or"} /\ Shut(t, "logic", n, i.node)
        /\ i.phi = {Incoming(x, 0, t[n] = "or"), Incoming(y, i.node - 1, FALSE)}
        /\ d[x] # <<>> /\ LastOf(d[x]).op = "condbr" /\ LastOf(d[x]).node = n /\ Away(t, LastOf(d[x])) = b
        /\ d[y] # <<>> /\ LastOf(d[y]).op = "br"
    BY <1>1, <1>2, <1>3, <1>4, <1>5
  <1> QED BY <1>4, <1>6 DEF Joined

LEMMA MeantKept ==
  ASSUME NEW st, NEW tt, NEW K, NEW J, NEW L, NEW M, NEW c, NEW d, NEW pl, NEW ql, NEW s, NEW t, NEW p,
         Carries(st, tt, K, J, L, M, c, d, pl, ql, s, t, p), Labels(L, pl, s),
         NEW b \in pl, NEW j \in 1..Len(c[b]), Meant(st, K, L, c, pl, s, b, j),
         From(L, c, b, j) \in Nat \ {0}
  PROVE  Meant(tt, J, M, d, ql, t, b, j)
  <1> DEFINE i == c[b][j]
             f == From(L, c, b, j)
  <1>1. Follows(s, t) /\ Outgrows(c, d) /\ b \in 1..Len(c) /\ M[b] = L[b] BY DEF Carries
  <1>2. /\ d[b][j] = i /\ Len(c[b]) \in Nat /\ Len(d[b]) \in Nat /\ Len(c[b]) <= Len(d[b])
    BY <1>1, OutgrowsFacts
  <1>3. From(M, d, b, j) = f
    <2>1. j \in 1..Len(c[b]) + 1 BY <1>2
    <2> QED BY <1>1, <2>1, FromKept
  <1>4. Len(s) \in Nat /\ Len(t) \in Nat /\ Len(s) <= Len(t) BY <1>1 DEF Follows
  <1>5. f \in Nat \ {0} OBVIOUS
  <1>6. CASE i.op = "br"
    <2>1. PICK m \in f..Len(s) + 1 : Calm(s, f, m) /\ Goes(st, K, L, c, pl, s, f, m, i.to[1])
      BY <1>6 DEF Meant
    <2>2. m \in f..Len(t) + 1 /\ m \in 1..Len(s) + 1 BY <1>4, <1>5
    <2>3. Calm(t, f, m) BY <1>1, <1>5, <2>1, <2>2, CalmKept
    <2>4. Goes(tt, J, M, d, ql, t, f, m, i.to[1]) BY <2>1, GoesKept
    <2> HIDE DEF f, i
    <2> QED BY <1>2, <1>3, <1>6, <2>2, <2>3, <2>4 DEF Meant
  <1>7. CASE i.op # "br"
    <2>1. /\ i.node \in f..Len(s) /\ Calm(s, f, i.node)
          /\ i.op = "eval" => s[i.node] \in {"leaf", "op"} /\ i.def = i.node
          /\ i.op = "store" => s[i.node] \in {"param", "store"}
          /\ i.op = "phi" => j = 1 /\ L[b] = i.node /\ i.def = i.node /\ s[i.node] = "endlogic" /\ Joined(L, c, s, b, i)
          /\ i.op = "ret" => \/ s[i.node] = "return" /\ i.use = {}
                             \/ s[i.node] = "retval" /\ i.use = {i.node - 1} /\ i.node >= 2
          /\ i.op = "condbr" => Branching(st, K, L, c, pl, s, i)
      BY <1>7 DEF Meant
    <2> HIDE DEF f, i
    <2>2. i.node \in 1..Len(s) /\ i.node \in f..Len(t) /\ i.node \in 1..Len(s) + 1 BY <2>1, <1>4, <1>5
    <2>3. t[i.node] = s[i.node] BY <1>1, <2>2 DEF Follows
    <2>4. Calm(t, f, i.node) BY <1>1, <1>5, <2>1, <2>2, CalmKept
    <2>5. i.op = "phi" => Joined(M, d, t, b, i) BY <1>1, <2>1, <2>2, JoinedKept
    <2>6. i.op = "condbr" => Branching(tt, J, M, d, ql, t, i) BY <2>1, <2>2, BranchingKept
    <2> QED BY <1>1, <1>2, <1>3, <1>7, <2>1, <2>2, <2>3, <2>4, <2>5, <2>6 DEF Meant
  <1> QED BY <1>6, <1>7

LEMMA LinkedKept ==
  ASSUME NEW st, NEW tt, NEW K, NEW J, NEW L, NEW M, NEW c, NEW d, NEW pl, NEW ql, NEW s, NEW t, NEW p,
         Carries(st, tt, K, J, L, M, c, d, pl, ql, s, t, p), Linked(st, K, s), Labels(M, ql, t),
         NEW m \in 1..Len(s)
  PROVE  /\ t[m] \in {"else", "break"} =>
              \/ \E l \in 1..Len(t) + 1 : Dest(t, m, l)
              \/ \E i \in 1..Len(tt) : \E y \in {tt[i].alt, tt[i].end} : Owner(tt, J, t, m, i, y)
         /\ t[m] \in {"continue", "endwhile"} => \E w \in 1..m - 1 : Direct(t, w, m)
  <1>1. Follows(s, t) /\ t[m] = s[m] /\ Len(s) \in Nat /\ Len(t) \in Nat /\ Len(s) <= Len(t)
    BY DEF Carries, Follows
  <1>2. ASSUME t[m] \in {"continue", "endwhile"} PROVE \E w \in 1..m - 1 : Direct(t, w, m)
    <2>1. PICK w \in 1..m - 1 : Direct(s, w, m) BY <1>1, <1>2 DEF Linked
    <2> QED BY <1>1, <2>1, DirectKept
  <1>3. ASSUME t[m] \in {"else", "break"}
        PROVE  \/ \E l \in 1..Len(t) + 1 : Dest(t, m, l)
               \/ \E i \in 1..Len(tt) : \E y \in {tt[i].alt, tt[i].end} : Owner(tt, J, t, m, i, y)
    <2>1. CASE \E l \in 1..Len(s) + 1 : Dest(s, m, l)
      <3>1. PICK l \in 1..Len(s) + 1 : Dest(s, m, l) BY <2>1
      <3>2. Dest(t, m, l) /\ l \in 1..Len(t) + 1 BY <1>1, <3>1, DestKept
      <3> QED BY <3>2
    <2>2. CASE \E i \in 1..Len(st) : \E y \in {st[i].alt, st[i].end} : Owner(st, K, s, m, i, y)
      <3>0. PICK i \in 1..Len(st) : \E y \in {st[i].alt, st[i].end} : Owner(st, K, s, m, i, y) BY <2>2
      <3>1. PICK y \in {st[i].alt, st[i].end} : Owner(st, K, s, m, i, y) BY <3>0
      <3>2. CASE i \in 1..Len(tt) /\ Owner(tt, J, t, m, i, y) /\ y \in {tt[i].alt, tt[i].end}
        BY <3>2
      <3>3. CASE y \in ql /\ Dest(t, m, M[y])
        <4>1. M[y] \in 1..Len(t) + 1 BY <3>3 DEF Labels
        <4> QED BY <3>3, <4>1
      <3> QED BY <3>1, <3>2, <3>3, OwnerKept
    <2> QED BY <1>1, <1>3, <2>1, <2>2 DEF Linked
  <1> QED BY <1>2, <1>3

-----------------------------------------------------------------------------
(* The activations that hold no construct open.                            *)

LEMMA QuietHolders ==
  ASSUME NEW k \in Quiet
  PROVE  (\A x \in Classes : k \notin Holders(x)) /\ k \notin Loopers /\ k \notin Joins
         /\ k \notin {"thenEnd", "elseEnd", "bodyEnd"}
  BY ClassFacts DEF Quiet, Loopers, Joins, Classes

LEMMA SharedStacks ==
  ASSUME NEW st \in Stacks, NEW K, NEW J, \A i \in 1..Len(st) : J[i] = K[i]
  PROVE  /\ Shared(st, st, K, J, Len(st))
         /\ \A f \in Frames : Shared(st, Append(st, f), K, J, Len(st)) /\ Shared(Append(st, f), st, K, J, Len(st))
         /\ st # <<>> =>
              /\ Shared(st, SubSeq(st, 1, Len(st) - 1), K, J, Len(st) - 1)
              /\ \A f \in Frames : Shared(st, Append(SubSeq(st, 1, Len(st) - 1), f), K, J, Len(st) - 1)
  <1>1. Len(st) \in Nat BY StackFacts
  <1>2. Shared(st, st, K, J, Len(st)) BY <1>1 DEF Shared
  <1>3. ASSUME NEW f \in Frames
        PROVE  Shared(st, Append(st, f), K, J, Len(st)) /\ Shared(Append(st, f), st, K, J, Len(st))
    <2>1. /\ Append(st, f) \in Stacks /\ Len(Append(st, f)) = Len(st) + 1
          /\ \A i \in 1..Len(st) : Append(st, f)[i] = st[i]
      BY StackFacts
    <2> QED BY <1>1, <2>1 DEF Shared
  <1>4. ASSUME st # <<>> PROVE Shared(st, SubSeq(st, 1, Len(st) - 1), K, J, Len(st) - 1)
    <2>1. /\ SubSeq(st, 1, Len(st) - 1) \in Stacks /\ Len(SubSeq(st, 1, Len(st) - 1)) = Len(st) - 1
          /\ \A i \in 1..Len(st) - 1 : SubSeq(st, 1, Len(st) - 1)[i] = st[i]
          /\ Len(st) # 0
      BY <1>4, StackFacts
    <2> QED BY <1>1, <2>1 DEF Shared
  <1>5. ASSUME st # <<>>, NEW f \in Frames
        PROVE  Shared(st, Append(SubSeq(st, 1, Len(st) - 1), f), K, J, Len(st) - 1)
    <2> DEFINE P == SubSeq(st, 1, Len(st) - 1)
    <2>1. P \in Stacks /\ Len(P) = Len(st) - 1 /\ (\A i \in 1..Len(st) - 1 : P[i] = st[i]) /\ Len(st) # 0
      BY <1>5, StackFacts
    <2> HIDE DEF P
    <2>2. Append(P, f) \in Stacks /\ Len(Append(P, f)) = Len(P) + 1 /\ \A i \in 1..Len(P) : Append(P, f)[i] = P[i]
      BY <2>1, StackFacts
    <2>3. Shared(st, Append(P, f), K, J, Len(st) - 1) BY <1>1, <2>1, <2>2 DEF Shared
    <2> QED BY <2>3 DEF P
  <1> QED BY <1>2, <1>3, <1>4, <1>5

(* Two stacks that differ in activations that hold nothing.                *)
Alike(st, tt, K, p) ==
  /\ Shared(st, tt, K, K, p)
  /\ Len(st) = p + 1 => st[p + 1].k \in Quiet
  /\ Len(tt) = p + 1 => tt[p + 1].k \in Quiet

LEMMA AlikeFacts ==
  ASSUME NEW st, NEW tt, NEW K, NEW p, Alike(st, tt, K, p)
  PROVE  /\ \A x \in Classes : Rank(tt, x, Len(tt)) = Rank(st, x, Len(st))
         /\ \A x \in Classes : \A i \in 1..Len(st) : st[i].k \in Holders(x) =>
              i \in 1..p /\ i \in 1..Len(tt) /\ tt[i] = st[i] /\ Rank(tt, x, i) = Rank(st, x, i)
         /\ \A x \in Classes : \A i \in 1..Len(tt) : tt[i].k \in Holders(x) =>
              i \in 1..p /\ i \in 1..Len(st) /\ tt[i] = st[i] /\ Rank(tt, x, i) = Rank(st, x, i)
  <1> SUFFICES ASSUME NEW x \in Classes
               PROVE  /\ Rank(tt, x, Len(tt)) = Rank(st, x, Len(st))
                      /\ \A i \in 1..Len(st) : st[i].k \in Holders(x) =>
                           i \in 1..p /\ i \in 1..Len(tt) /\ tt[i] = st[i] /\ Rank(tt, x, i) = Rank(st, x, i)
                      /\ \A i \in 1..Len(tt) : tt[i].k \in Holders(x) =>
                           i \in 1..p /\ i \in 1..Len(st) /\ tt[i] = st[i] /\ Rank(tt, x, i) = Rank(st, x, i)
    OBVIOUS
  <1>1. Shared(st, tt, K, K, p) BY DEF Alike
  <1>2. /\ Len(st) = p + 1 => st[p + 1].k \notin Holders(x)
        /\ Len(tt) = p + 1 => tt[p + 1].k \notin Holders(x)
    BY QuietHolders DEF Alike
  <1>3. /\ Len(st) \in Nat /\ Len(tt) \in Nat
        /\ \A i \in 0..p : Rank(st, x, i) = Rank(tt, x, i) /\ Rank(st, x, i) \in Nat
    BY <1>1, SharedFacts
  <1>4. /\ Len(tt) = p + 1 => Rank(tt, x, p + 1) = Rank(st, x, p) + (IF tt[p + 1].k \in Holders(x) THEN 1 ELSE 0)
        /\ Len(st) = p + 1 => Rank(st, x, p + 1) = Rank(st, x, p) + (IF st[p + 1].k \in Holders(x) THEN 1 ELSE 0)
    BY <1>1, SharedFacts
  <1>5. /\ \A i \in 1..Len(st) : i \in 1..p \/ (i = p + 1 /\ Len(st) = p + 1)
        /\ \A i \in 1..Len(tt) : i \in 1..p \/ (i = p + 1 /\ Len(tt) = p + 1)
        /\ 1..p \subseteq 1..Len(st) /\ 1..p \subseteq 1..Len(tt)
    BY <1>1, SharedFacts
  <1>6. p \in Nat /\ Len(st) \in p..p + 1 /\ Len(tt) \in p..p + 1 /\ \A i \in 1..p : tt[i] = st[i]
    BY <1>1 DEF Shared
  <1>7. Rank(st, x, p) \in Nat /\ Rank(st, x, p) = Rank(tt, x, p) BY <1>3, <1>6
  <1>8. Rank(st, x, Len(st)) = Rank(st, x, p)
    <2>1. CASE Len(st) = p BY <2>1
    <2>2. CASE Len(st) = p + 1 BY <2>2, <1>2, <1>4, <1>7
    <2> QED BY <2>1, <2>2, <1>6
  <1>9. Rank(tt, x, Len(tt)) = Rank(st, x, p)
    <2>1. CASE Len(tt) = p BY <2>1, <1>7
    <2>2. CASE Len(tt) = p + 1 BY <2>2, <1>2, <1>4, <1>7
    <2> QED BY <2>1, <2>2, <1>6
  <1>10. \A i \in 1..p : i \in 0..p BY <1>6
  <1>11. \A i \in 1..Len(st) : st[i].k \in Holders(x) =>
           i \in 1..p /\ i \in 1..Len(tt) /\ tt[i] = st[i] /\ Rank(tt, x, i) = Rank(st, x, i)
    BY <1>2, <1>3, <1>5, <1>6, <1>10
  <1>12. \A i \in 1..Len(tt) : tt[i].k \in Holders(x) =>
           i \in 1..p /\ i \in 1..Len(st) /\ tt[i] = st[i] /\ Rank(tt, x, i) = Rank(st, x, i)
    BY <1>2, <1>3, <1>5, <1>6, <1>10
  <1> QED BY <1>8, <1>9, <1>11, <1>12

LEMMA StructQuiet ==
  ASSUME NEW st, NEW tt, NEW K, NEW p, Alike(st, tt, K, p), NEW s, Struct(st, K, s)
  PROVE  Struct(tt, K, s)
  <1>1. Levels(tt, s) BY AlikeFacts DEF Struct, Levels
  <1>2. Opened(tt, K, s)
    <2> SUFFICES ASSUME NEW x \in {"while", "logic"}
                 PROVE  /\ \A i \in 1..Len(tt) : tt[i].k \in Holders(x) =>
                             Pending(s, x, K[i], Rank(tt, x, i)) /\ Stands(tt[i], K[i], s)
                        /\ \A i, j \in 1..Len(tt) : i < j /\ tt[i].k \in Holders(x) /\ tt[j].k \in Holders(x) => K[i] < K[j]
                        /\ \A n \in 1..Len(s) : s[n] \in Opens(x) =>
                             \/ \E e \in n + 1..Len(s) : Shut(s, x, n, e)
                             \/ \E i \in 1..Len(tt) : tt[i].k \in Holders(x) /\ K[i] = n
      BY DEF Opened
    <2>0. x \in Classes BY DEF Classes
    <2>1. /\ \A i \in 1..Len(st) : st[i].k \in Holders(x) =>
               i \in 1..Len(tt) /\ tt[i] = st[i] /\ Rank(tt, x, i) = Rank(st, x, i)
          /\ \A i \in 1..Len(tt) : tt[i].k \in Holders(x) =>
               i \in 1..Len(st) /\ tt[i] = st[i] /\ Rank(tt, x, i) = Rank(st, x, i)
      BY <2>0, AlikeFacts
    <2>2. /\ \A i \in 1..Len(st) : st[i].k \in Holders(x) =>
               Pending(s, x, K[i], Rank(st, x, i)) /\ Stands(st[i], K[i], s)
          /\ \A i, j \in 1..Len(st) : i < j /\ st[i].k \in Holders(x) /\ st[j].k \in Holders(x) => K[i] < K[j]
          /\ \A n \in 1..Len(s) : s[n] \in Opens(x) =>
               \/ \E e \in n + 1..Len(s) : Shut(s, x, n, e)
               \/ \E i \in 1..Len(st) : st[i].k \in Holders(x) /\ K[i] = n
      BY DEF Struct, Opened
    <2>3. \A i \in 1..Len(tt) : tt[i].k \in Holders(x) =>
            Pending(s, x, K[i], Rank(tt, x, i)) /\ Stands(tt[i], K[i], s)
      BY <2>1, <2>2
    <2>4. \A i, j \in 1..Len(tt) : i < j /\ tt[i].k \in Holders(x) /\ tt[j].k \in Holders(x) => K[i] < K[j]
      BY <2>1, <2>2
    <2>5. \A n \in 1..Len(s) : s[n] \in Opens(x) =>
            \/ \E e \in n + 1..Len(s) : Shut(s, x, n, e)
            \/ \E i \in 1..Len(tt) : tt[i].k \in Holders(x) /\ K[i] = n
      BY <2>1, <2>2
    <2> QED BY <2>3, <2>4, <2>5
  <1> QED BY <1>1, <1>2 DEF Struct

LEMMA CarriesQuiet ==
  ASSUME NEW st, NEW tt, NEW K, NEW p, Alike(st, tt, K, p), NEW L, NEW c \in Codes, NEW pl, pl \subseteq 1..Len(c),
         NEW s \in Seq(Kinds)
  PROVE  Carries(st, tt, K, K, L, L, c, c, pl, pl, s, s, p)
  <1>1. Follows(s, s) /\ Outgrows(c, c)
    <2>1. Follows(s, s) BY LenProperties DEF Follows
    <2>2. Len(c) \in Nat /\ \A b \in 1..Len(c) : Len(c[b]) \in Nat BY CodeFacts
    <2> QED BY <2>1, <2>2 DEF Outgrows
  <1>2. \A x : \A i \in 1..p : Rank(st, x, i) = Rank(tt, x, i)
    <2> SUFFICES ASSUME NEW x, NEW i \in 1..p PROVE Rank(st, x, i) = Rank(tt, x, i) OBVIOUS
    <2>1. Shared(st, tt, K, K, p) BY DEF Alike
    <2>2. i \in 0..p BY <2>1 DEF Shared
    <2>3. /\ Len(st) \in Nat /\ Len(tt) \in Nat
          /\ \A j \in 0..p : Rank(st, x, j) = Rank(tt, x, j) /\ Rank(st, x, j) \in Nat
      BY <2>1, SharedFacts
    <2> QED BY <2>2, <2>3
  <1>3. ASSUME NEW i \in 1..Len(st), i = p + 1, NEW m, NEW y, Owner(st, K, s, m, i, y) PROVE FALSE
    <2>1. Len(st) = p + 1 BY <1>3, StackFacts DEF Alike, Shared
    <2>2. st[i].k \notin Joins /\ st[i].k \notin {"thenEnd", "elseEnd", "bodyEnd"}
      BY <2>1, <1>3, QuietHolders DEF Alike
    <2> QED BY <2>2, <1>3 DEF Owner
  <1> QED BY <1>1, <1>2, <1>3 DEF Carries, Alike

LEMMA FromFacts ==
  ASSUME NEW c \in Codes, NEW L, NEW b \in 1..Len(c), L[b] \in Nat \ {0}, NEW j \in 1..Len(c[b]) + 1
  PROVE  From(L, c, b, j) \in Nat \ {0}
  <1>1. Len(c[b]) \in Nat /\ \A h \in 1..Len(c[b]) : c[b][h].node \in Nat BY CodeFacts DEF Instrs
  <1>2. j # 1 => j - 1 \in 1..Len(c[b]) BY <1>1
  <1> QED BY <1>1, <1>2 DEF From

(* Activations that hold nothing come and go.                              *)
LEMMA FaithQuiet ==
  ASSUME NEW st, NEW tt, NEW K, NEW p, Alike(st, tt, K, p), NEW L, NEW c \in Codes, NEW pl, pl \subseteq 1..Len(c),
         NEW ins, NEW s, Faith(st, K, L, c, pl, ins, s)
  PROVE  Faith(tt, K, L, c, pl, ins, s)
  <1>0. Struct(st, K, s) /\ Labels(L, pl, s) /\ Linked(st, K, s) /\ s \in Seq(Kinds) /\ Len(s) \in Nat
    BY LenProperties DEF Faith, Struct
  <1>1. Carries(st, tt, K, K, L, L, c, c, pl, pl, s, s, p) BY <1>0, CarriesQuiet
  <1>2. Struct(tt, K, s) BY <1>0, StructQuiet
  <1>3. ASSUME NEW b \in pl, NEW j \in 1..Len(c[b]) PROVE Meant(tt, K, L, c, pl, s, b, j)
    <2>1. Meant(st, K, L, c, pl, s, b, j) BY DEF Faith
    <2>2. From(L, c, b, j) \in Nat \ {0}
      <3>1. b \in 1..Len(c) /\ L[b] \in Nat \ {0} BY <1>0 DEF Labels
      <3>2. j \in 1..Len(c[b]) + 1 BY <3>1, CodeFacts
      <3> QED BY <3>1, <3>2, FromFacts
    <2> QED BY <1>0, <1>1, <2>1, <2>2, MeantKept
  <1>4. Linked(tt, K, s)
    <2>1. ASSUME NEW m \in 1..Len(s)
          PROVE  /\ s[m] \in {"else", "break"} =>
                      \/ \E l \in 1..Len(s) + 1 : Dest(s, m, l)
                      \/ \E i \in 1..Len(tt) : \E y \in {tt[i].alt, tt[i].end} : Owner(tt, K, s, m, i, y)
                 /\ s[m] \in {"continue", "endwhile"} => \E w \in 1..m - 1 : Direct(s, w, m)
      BY <1>0, <1>1, LinkedKept
    <2> QED BY <2>1 DEF Linked
  <1>5. Marks(tt, K, L, c, ins, s)
    <2> SUFFICES ASSUME NEW i \in 1..Len(tt), tt[i].k \in Loopers \cup Joins
                 PROVE  i \in 1..Len(st) /\ tt[i] = st[i]
      BY DEF Marks, Marked, Faith
    <2>1. tt[i].k \in Holders("while") \/ tt[i].k \in Holders("logic") BY ClassFacts DEF Loopers, Joins
    <2>2. "while" \in Classes /\ "logic" \in Classes BY DEF Classes
    <2> QED BY <2>1, <2>2, AlikeFacts
  <1> QED BY <1>0, <1>2, <1>3, <1>4, <1>5 DEF Faith

-----------------------------------------------------------------------------
(* Visiting a node.                                                        *)

LEMMA StandsKept ==
  ASSUME NEW st, NEW K, NEW s, Struct(st, K, s), NEW i \in 1..Len(st), st[i].k \in Loopers \cup Joins,
         NEW k \in Kinds, s # <<>> /\ s[Len(s)] = "while" => k = "leaf",
         st[i].k \in Joins => k \in Exprs
  PROVE  Stands(st[i], K[i], Append(s, k)) /\ K[i] \in 1..Len(s)
  <1> DEFINE t == Append(s, k)
             n == Len(s)
             h == K[i]
  <1>0. s \in Seq(Kinds) /\ Opened(st, K, s) BY DEF Struct
  <1>1. /\ n \in Nat /\ Len(t) = n + 1 /\ t[n + 1] = k /\ \A j \in 1..n : t[j] = s[j]
    BY <1>0, FollowsAppend DEF Follows
  <1>2. \E x \in {"while", "logic"} : st[i].k \in Holders(x) BY ClassFacts DEF Loopers, Joins
  <1>3. h \in 1..n /\ Stands(st[i], h, s) BY <1>0, <1>2 DEF Opened, Pending
  <1>4. n # 0 => s # <<>> BY <1>0, EmptySeq
  <1> HIDE DEF t, n, h
  <1>5. t[h] = s[h] BY <1>1, <1>3
  <1>6. ASSUME st[i].k \in Loopers, h < n + 1 PROVE t[h + 1] = "leaf"
    <2>1. CASE h < n
      <3>1. h + 1 \in 1..n /\ t[h + 1] = s[h + 1] BY <2>1, <1>1, <1>3
      <3> QED BY <3>1, <2>1, <1>3, <1>6 DEF Stands, n
    <2>2. CASE h = n
      <3>1. s[n] = "while" /\ n # 0 BY <2>2, <1>3, <1>6, <1>1 DEF Stands
      <3>2. k = "leaf" BY <3>1, <1>4 DEF n
      <3> QED BY <3>2, <2>2, <1>1
    <2> QED BY <2>1, <2>2, <1>1, <1>3, <1>6
  <1>7. ASSUME st[i].k \in Joins, NEW j \in h + 1..n + 1 PROVE t[j] \in Exprs
    <2>1. CASE j = n + 1 BY <2>1, <1>1, <1>7
    <2>2. CASE j # n + 1
      <3>1. j \in h + 1..n /\ j \in 1..n BY <2>2, <1>1, <1>3
      <3> QED BY <3>1, <1>1, <1>3, <1>7 DEF Stands, n
    <2> QED BY <2>1, <2>2
  <1>8. Stands(st[i], h, t) BY <1>1, <1>3, <1>5, <1>6, <1>7 DEF Stands
  <1> QED BY <1>3, <1>8 DEF t, n, h

LEMMA ClassesApart ==
  ASSUME NEW x \in Classes, NEW y \in Classes
  PROVE  /\ x # y => /\ Opens(x) \cap Opens(y) = {} /\ Ends(x) \cap Ends(y) = {}
                     /\ Holders(x) \cap Holders(y) = {}
         /\ Opens(x) \cap Ends(y) = {} /\ Opens(x) \cap Closes(y) = {}
         /\ Closes(y) \subseteq Ends(y) /\ (x # "if" => Ends(x) = Closes(x))
  <1>1. x \in {"if", "while", "logic"} /\ y \in {"if", "while", "logic"} BY DEF Classes
  <1>2. CASE x = "if" BY <1>1, <1>2, ClassFacts
  <1>3. CASE x = "while" BY <1>1, <1>3, ClassFacts
  <1>4. CASE x = "logic" BY <1>1, <1>4, ClassFacts
  <1> QED BY <1>1, <1>2, <1>3, <1>4

(* Nodes that open and close nothing.                                      *)
Plain == {"param", "decl", "store", "drop", "{", "then", "do", "break", "continue", "return", "retval", "leaf", "op"}

LEMMA PlainFacts ==
  ASSUME NEW k \in Plain, NEW x \in Classes
  PROVE  k \in Kinds /\ k \notin Opens(x) /\ k \notin Closes(x) /\ k \notin Ends(x)
  <1>1. x \in {"if", "while", "logic"} BY DEF Classes
  <1>2. CASE x = "if" BY <1>2, ClassFacts DEF Plain, Kinds
  <1>3. CASE x = "while" BY <1>3, ClassFacts DEF Plain, Kinds
  <1>4. CASE x = "logic" BY <1>4, ClassFacts DEF Plain, Kinds
  <1> QED BY <1>1, <1>2, <1>3, <1>4

LEMMA SuitsVisit ==
  ASSUME NEW st \in Stacks, NEW K, NEW s, Struct(st, K, s), NEW k \in Plain,
         s # <<>> /\ s[Len(s)] = "while" => k = "leaf",
         \A i \in 1..Len(st) : st[i].k \in Joins => k \in Exprs
  PROVE  Suits(st, st, K, K, s, k, Len(st))
  <1>1. Len(st) \in Nat /\ Len(st) # Len(st) + 1 BY StackFacts
  <1>2. \A x \in Classes : Rank(st, x, Len(st)) \in Nat BY <1>1, RankFacts
  <1>3. \A x \in Classes : k \in Kinds /\ k \notin Opens(x) /\ k \notin Closes(x) /\ k \notin Ends(x) BY PlainFacts
  <1>4. {"while", "logic"} \subseteq Classes /\ k \in Kinds BY <1>3 DEF Classes
  <1>5. \A i \in 1..Len(st) : st[i].k \in Loopers \cup Joins => Stands(st[i], K[i], Append(s, k))
    BY <1>4, StandsKept
  <1> QED BY <1>1, <1>2, <1>3, <1>4, <1>5 DEF Suits

LEMMA SuitsOpen ==
  ASSUME NEW st \in Stacks, NEW K, NEW J, NEW s, Struct(st, K, s), NEW k \in Kinds,
         NEW x \in Classes, NEW f \in Frames, f.k \in Holders(x), k \in Opens(x),
         \A i \in 1..Len(st) : J[i] = K[i], J[Len(st) + 1] = Len(s) + 1,
         f.k \in Loopers => k = "while", f.k = "andRhs" => k = "and", f.k = "orRhs" => k = "or",
         ~(s # <<>> /\ s[Len(s)] = "while"),
         \A i \in 1..Len(st) : st[i].k \in Joins => k \in Exprs
  PROVE  Suits(st, Append(st, f), K, J, s, k, Len(st))
  <1> DEFINE tt == Append(st, f)
             p == Len(st)
  <1>1. /\ p \in Nat /\ p # p + 1 /\ Len(tt) = p + 1 /\ tt[p + 1] = f /\ \A i \in 1..p : tt[i] = st[i]
    BY StackFacts
  <1>2. Shared(st, tt, K, J, p) BY SharedStacks
  <1> HIDE DEF tt
  <1>3. ASSUME NEW y \in Classes
        PROVE  /\ Rank(tt, y, Len(tt)) = Rank(st, y, Len(st)) + (IF k \in Opens(y) THEN 1 ELSE 0)
                                                              - (IF k \in Closes(y) THEN 1 ELSE 0)
               /\ k \notin Ends(y) /\ k \notin Closes(y)
               /\ tt[p + 1].k \in Holders(y) <=> k \in Opens(y)
    <2>1. Rank(tt, y, p + 1) = Rank(st, y, p) + (IF tt[p + 1].k \in Holders(y) THEN 1 ELSE 0)
      BY <1>1, <1>2, SharedFacts
    <2>2. Rank(st, y, p) \in Nat BY <1>1, RankFacts
    <2>3. k \notin Ends(y) /\ k \notin Closes(y) BY ClassesApart
    <2>4. CASE y = x BY <2>1, <2>2, <2>3, <2>4, <1>1
    <2>5. CASE y # x
      <3>1. k \notin Opens(y) /\ f.k \notin Holders(y) BY <2>5, ClassesApart
      <3> QED BY <2>1, <2>2, <2>3, <3>1, <1>1
    <2> QED BY <2>4, <2>5
  <1>4. \A i \in 1..Len(tt) : tt[i].k \in Loopers \cup Joins => Stands(tt[i], J[i], Append(s, k))
    <2> SUFFICES ASSUME NEW i \in 1..Len(tt), tt[i].k \in Loopers \cup Joins
                 PROVE  Stands(tt[i], J[i], Append(s, k))
      OBVIOUS
    <2>1. CASE i = p + 1
      <3>1. Len(s) \in Nat /\ Len(Append(s, k)) = Len(s) + 1 /\ Append(s, k)[Len(s) + 1] = k
        BY FollowsAppend DEF Struct, Follows
      <3>2. \A j \in Len(s) + 1 + 1..Len(s) + 1 : FALSE BY <3>1
      <3>3. ~(Len(s) + 1 < Len(s) + 1) BY <3>1
      <3> QED BY <2>1, <3>1, <3>2, <3>3, <1>1 DEF Stands
    <2>2. CASE i # p + 1
      <3>1. i \in 1..p BY <2>2, <1>1
      <3> QED BY <3>1, <1>1, StandsKept
    <2> QED BY <2>1, <2>2
  <1>5. {"while", "logic"} \subseteq Classes BY DEF Classes
  <1>6. Suits(st, tt, K, J, s, k, p) BY <1>1, <1>3, <1>4, <1>5 DEF Suits
  <1> QED BY <1>6 DEF tt

LEMMA SuitsShut ==
  ASSUME NEW st \in Stacks, st # <<>>, NEW K, NEW s, Struct(st, K, s), NEW k \in Kinds,
         NEW x \in Classes, st[Len(st)].k \in Holders(x), k \in Closes(x),
         ~(s # <<>> /\ s[Len(s)] = "while"),
         \A i \in 1..Len(st) - 1 : st[i].k \in Joins => k \in Exprs
  PROVE  Suits(st, SubSeq(st, 1, Len(st) - 1), K, K, s, k, Len(st) - 1)
  <1> DEFINE tt == SubSeq(st, 1, Len(st) - 1)
             p == Len(st) - 1
  <1>1. /\ p \in Nat /\ p # p + 1 /\ Len(tt) = p /\ Len(st) = p + 1 /\ \A i \in 1..p : tt[i] = st[i] /\ i \in 1..Len(st)
    BY StackFacts
  <1>2. Shared(st, tt, K, K, p) BY SharedStacks
  <1> HIDE DEF tt, p
  <1>3. ASSUME NEW y \in Classes
        PROVE  /\ Rank(tt, y, Len(tt)) = Rank(st, y, Len(st)) + (IF k \in Opens(y) THEN 1 ELSE 0)
                                                              - (IF k \in Closes(y) THEN 1 ELSE 0)
               /\ k \notin Opens(y) /\ (k \in Ends(y) => y = x)
               /\ st[p + 1].k \in Holders(y) => y = x
    <2>1. Rank(st, y, p + 1) = Rank(st, y, p) + (IF st[p + 1].k \in Holders(y) THEN 1 ELSE 0)
      BY <1>1, RankFacts
    <2>2. Rank(st, y, p) \in Nat BY <1>1, RankFacts
    <2>3. Rank(tt, y, p) = Rank(st, y, p)
      <3>1. p \in 0..p BY <1>1
      <3>2. /\ Len(st) \in Nat /\ Len(tt) \in Nat
            /\ \A j \in 0..p : Rank(st, y, j) = Rank(tt, y, j) /\ Rank(st, y, j) \in Nat
        BY <1>2, SharedFacts
      <3> QED BY <3>1, <3>2
    <2>4. k \notin Opens(y) /\ k \in Ends(x) BY ClassesApart
    <2>5. CASE y = x BY <2>1, <2>2, <2>3, <2>4, <2>5, <1>1
    <2>6. CASE y # x
      <3>1. k \notin Ends(y) /\ k \notin Closes(y) /\ st[p + 1].k \notin Holders(y) BY <2>4, <2>6, <1>1, ClassesApart
      <3> QED BY <2>1, <2>2, <2>3, <2>4, <3>1, <1>1
    <2> QED BY <2>5, <2>6
  <1>4. \A i \in 1..Len(tt) : tt[i].k \in Loopers \cup Joins => Stands(tt[i], K[i], Append(s, k))
    BY <1>1, StandsKept DEF p
  <1>5. {"while", "logic"} \subseteq Classes BY DEF Classes
  <1>6. Suits(st, tt, K, K, s, k, p) BY <1>1, <1>3, <1>4, <1>5 DEF Suits
  <1> QED BY <1>6 DEF tt, p

LEMMA SuitsSwap ==
  ASSUME NEW st \in Stacks, st # <<>>, NEW K, NEW s, Struct(st, K, s), NEW k \in Kinds,
         NEW x \in Classes, st[Len(st)].k \in Holders(x), NEW g \in Frames, g.k \in Holders(x),
         g.k \notin Joins, k \in Plain \/ (k = "else" /\ x = "if"),
         ~(s # <<>> /\ s[Len(s)] = "while"),
         \A i \in 1..Len(st) - 1 : st[i].k \in Joins => k \in Exprs
  PROVE  Suits(st, Append(SubSeq(st, 1, Len(st) - 1), g), K, K, s, k, Len(st) - 1)
  <1> DEFINE P == SubSeq(st, 1, Len(st) - 1)
             tt == Append(P, g)
             p == Len(st) - 1
  <1>1. /\ p \in Nat /\ p # p + 1 /\ Len(P) = p /\ Len(st) = p + 1 /\ P \in Stacks
        /\ \A i \in 1..p : P[i] = st[i] /\ i \in 1..Len(st)
    BY StackFacts
  <1>2. Shared(st, tt, K, K, p) BY SharedStacks
  <1> HIDE DEF P
  <1>3. Len(tt) = p + 1 /\ tt[p + 1] = g /\ \A i \in 1..p : tt[i] = st[i] BY <1>1, StackFacts
  <1> HIDE DEF tt, p
  <1>4. ASSUME NEW y \in Classes
        PROVE  /\ Rank(tt, y, Len(tt)) = Rank(st, y, Len(st)) + (IF k \in Opens(y) THEN 1 ELSE 0)
                                                              - (IF k \in Closes(y) THEN 1 ELSE 0)
               /\ k \notin Opens(y) /\ k \notin Closes(y) /\ (k \in Ends(y) => y = x /\ x = "if")
               /\ st[p + 1].k \in Holders(y) => y = x
               /\ tt[p + 1].k \in Holders(y) => y = x
    <2>1. Rank(st, y, p + 1) = Rank(st, y, p) + (IF st[p + 1].k \in Holders(y) THEN 1 ELSE 0)
      BY <1>1, RankFacts
    <2>2. Rank(st, y, p) \in Nat BY <1>1, RankFacts
    <2>3. Rank(tt, y, p + 1) = Rank(st, y, p) + (IF tt[p + 1].k \in Holders(y) THEN 1 ELSE 0)
      BY <1>2, <1>3, SharedFacts
    <2>4. k \notin Opens(y) /\ k \notin Closes(y) /\ (k \in Ends(y) => y = x /\ x = "if")
      <3>1. CASE k \in Plain BY <3>1, PlainFacts
      <3>2. CASE k = "else" /\ x = "if"
        <4>1. CASE y = "if" BY <3>2, <4>1, ClassFacts
        <4>2. CASE y = "while" BY <3>2, <4>2, ClassFacts
        <4>3. CASE y = "logic" BY <3>2, <4>3, ClassFacts
        <4> QED BY <4>1, <4>2, <4>3 DEF Classes
      <3> QED BY <3>1, <3>2
    <2>5. CASE y = x BY <2>1, <2>2, <2>3, <2>4, <2>5, <1>1, <1>3
    <2>6. CASE y # x
      <3>1. st[p + 1].k \notin Holders(y) /\ tt[p + 1].k \notin Holders(y) BY <2>6, <1>1, <1>3, ClassesApart
      <3> QED BY <2>1, <2>2, <2>3, <2>4, <3>1, <1>1, <1>3
    <2> QED BY <2>5, <2>6
  <1>5. \A i \in 1..Len(tt) : tt[i].k \in Loopers \cup Joins => Stands(tt[i], K[i], Append(s, k))
    <2> SUFFICES ASSUME NEW i \in 1..Len(tt), tt[i].k \in Loopers \cup Joins
                 PROVE  Stands(tt[i], K[i], Append(s, k))
      OBVIOUS
    <2>1. CASE i = p + 1
      <3>1. x = "while" /\ st[p + 1].k \in Loopers /\ g.k \in Loopers
        <4>1. g.k \in Holders("while") BY <2>1, <1>3, ClassFacts DEF Loopers, Joins
        <4>2. "while" \in Classes BY DEF Classes
        <4>3. x = "while" BY <4>1, <4>2, ClassesApart
        <4> QED BY <4>1, <4>3, <1>1, ClassFacts DEF Loopers
      <3>2. Stands(st[p + 1], K[p + 1], Append(s, k)) /\ p + 1 \in 1..Len(st)
        <4>1. p + 1 \in 1..Len(st) BY <1>1
        <4>2. st[p + 1].k \notin Joins BY <3>1 DEF Loopers, Joins
        <4> QED BY <3>1, <4>1, <4>2, StandsKept
      <3>3. g.k # "andRhs" /\ g.k # "orRhs" BY DEF Joins
      <3> QED BY <2>1, <3>1, <3>2, <3>3, <1>3 DEF Stands
    <2>2. CASE i # p + 1
      <3>1. i \in 1..p BY <2>2, <1>3, <1>1
      <3> QED BY <3>1, <1>1, <1>3, StandsKept DEF p
    <2> QED BY <2>1, <2>2
  <1>6. {"while", "logic"} \subseteq Classes BY DEF Classes
  <1>7. \A y \in {"while", "logic"} : /\ k \notin Ends(y) /\ k \notin Opens(y)
                                      /\ st[p + 1].k \in Holders(y) => tt[p + 1].k \in Holders(y)
                                      /\ tt[p + 1].k \in Holders(y) => st[p + 1].k \in Holders(y)
    BY <1>1, <1>3, <1>4, <1>6
  <1>8. Suits(st, tt, K, K, s, k, p)
    <2>1. \A y \in Classes : k \in Ends(y) => st[p + 1].k \in Holders(y) BY <1>1, <1>4
    <2> QED BY <1>1, <1>3, <1>4, <1>5, <1>7, <2>1 DEF Suits
  <1> QED BY <1>8 DEF tt, p, P

-----------------------------------------------------------------------------
(* A step that visits a node.                                              *)

LEMMA CarriesStep ==
  ASSUME NEW st, NEW tt, NEW K, NEW J, NEW L, NEW M, NEW c, NEW d, NEW pl, NEW ql, NEW s, NEW k \in Kinds, NEW p,
         Shared(st, tt, K, J, p), Struct(st, K, s), Suits(st, tt, K, J, s, k, p), Outgrows(c, d),
         pl \subseteq ql, pl \subseteq 1..Len(c), \A b \in pl : M[b] = L[b],
         \A i \in 1..p : \A y \in {st[i].alt, st[i].end} : y \in ql => y \in pl,
         \A i \in 1..Len(st) : \A m \in 1..Len(s) : \A y \in {st[i].alt, st[i].end} :
           i = p + 1 /\ Owner(st, K, s, m, i, y) =>
             /\ y \in ql /\ Dest(Append(s, k), m, M[y])
             /\ s[m] \in {"and", "or"} => d[y] # <<>> /\ d[y][1].op = "phi" /\ d[y][1].node = M[y]
  PROVE  Carries(st, tt, K, J, L, M, c, d, pl, ql, s, Append(s, k), p)
  <1>1. s \in Seq(Kinds) /\ Levels(st, s) BY DEF Struct
  <1>2. Follows(s, Append(s, k)) BY <1>1, FollowsAppend
  <1>3. \A x \in Classes : \A i \in 1..p : \A m \in 1..Len(s) :
          Pending(s, x, m, Rank(st, x, i)) => Pending(Append(s, k), x, m, Rank(tt, x, i))
    BY <1>1, PendingShared
  <1> QED BY <1>2, <1>3 DEF Carries

LEMMA HeadKept ==
  ASSUME NEW st, NEW tt, NEW K, NEW J, NEW L, NEW M, NEW c, NEW d, NEW pl, NEW ql, NEW s, NEW k \in Kinds, NEW p,
         Carries(st, tt, K, J, L, M, c, d, pl, ql, s, Append(s, k), p), Struct(st, K, s),
         NEW ins, NEW jns, s # <<>> /\ s[Len(s)] = "while" => d[ins] # <<>> /\ d[ins][1].op = "eval",
         NEW i \in 1..p, Marked(st[i], K[i], L, c, ins, s),
         st[i].k \in Loopers \cup Joins => st[i].back \in pl
  PROVE  Marked(tt[i], J[i], M, d, jns, Append(s, k))
  <1> DEFINE f == st[i]
             n == K[i]
             t == Append(s, k)
             b == f.back
  <1>1. tt[i] = f /\ J[i] = n /\ i \in 1..Len(st)
    <2>1. Shared(st, tt, K, J, p) BY DEF Carries
    <2>2. tt[i] = f /\ J[i] = n BY <2>1 DEF Shared
    <2>3. 1..p \subseteq 1..Len(st) BY <2>1, SharedFacts
    <2> QED BY <2>2, <2>3
  <1>2. /\ Len(s) \in Nat /\ Len(t) = Len(s) + 1 /\ (\A j \in 1..Len(s) : t[j] = s[j]) /\ s \in Seq(Kinds)
    BY FollowsAppend DEF Follows, Struct
  <1>3. Marked(f, n, L, c, ins, s) OBVIOUS
  <1>4. f.k \in Loopers \cup Joins => /\ n \in 1..Len(s) /\ Stands(f, n, s)
    <2>1. f.k \in Loopers => f.k \in Holders("while") BY ClassFacts DEF Loopers
    <2>2. f.k \in Joins => f.k \in Holders("logic") BY ClassFacts DEF Joins
    <2> QED BY <1>1, <2>1, <2>2 DEF Struct, Opened, Pending
  <1>5. f.k \in Loopers \cup Joins =>
          /\ b \in ql /\ M[b] = L[b]
          /\ c[b] # <<>> => d[b] # <<>> /\ d[b][1] = c[b][1]
          /\ c[b] # <<>> /\ LastOf(c[b]).op \in {"br", "condbr", "ret"} => d[b] = c[b]
    <2>1. f.k \in Loopers \cup Joins => b \in pl /\ b \in ql /\ M[b] = L[b] /\ b \in 1..Len(c) /\ Outgrows(c, d)
      BY DEF Carries
    <2> QED BY <2>1, OutgrowsFacts
  <1> HIDE DEF f, n, t, b
  <1>6. ASSUME f.k \in Loopers
        PROVE  M[b] = n + 1 /\ d[b] # <<>> /\ d[b][1].op = "eval"
    <2>1. L[b] = n + 1 BY <1>3, <1>6 DEF Marked, b
    <2>2. CASE n < Len(s) BY <2>2, <2>1, <1>3, <1>5, <1>6 DEF Marked, b
    <2>3. CASE ~(n < Len(s))
      <3>1. n = Len(s) /\ s # <<>> BY <2>3, <1>2, <1>4, <1>6, EmptySeq
      <3>2. s[Len(s)] = "while" BY <3>1, <1>4, <1>6 DEF Stands
      <3>3. ins = b BY <2>3, <1>3, <1>6 DEF Marked, b
      <3> QED BY <2>1, <3>1, <3>2, <3>3, <1>5, <1>6
    <2> QED BY <2>2, <2>3
  <1>7. f.k \in Loopers => n < Len(t) BY <1>2, <1>4
  <1>8. ASSUME f.k \in Joins
        PROVE  d[b] # <<>> /\ LastOf(d[b]).op = "condbr" /\ LastOf(d[b]).node = n /\ Away(t, LastOf(d[b])) = f.end
    <2>1. c[b] # <<>> /\ LastOf(c[b]).op = "condbr" /\ LastOf(c[b]).node = n /\ Away(s, LastOf(c[b])) = f.end
      BY <1>3, <1>8 DEF Marked, b
    <2>2. d[b] = c[b] BY <2>1, <1>5, <1>8
    <2>3. t[n] = s[n] BY <1>2, <1>4, <1>8
    <2> QED BY <2>1, <2>2, <2>3 DEF Away
  <1>9. Marked(f, n, M, d, jns, t) BY <1>6, <1>7, <1>8 DEF Marked, b
  <1> QED BY <1>1, <1>9 DEF t

LEMMA FaithStep ==
  ASSUME NEW st, NEW tt, NEW K, NEW J, NEW L, NEW M, NEW c, NEW d, NEW pl, NEW ql, NEW s, NEW k \in Kinds, NEW p,
         Carries(st, tt, K, J, L, M, c, d, pl, ql, s, Append(s, k), p), Suits(st, tt, K, J, s, k, p),
         NEW ins, NEW jns, Faith(st, K, L, c, pl, ins, s), Labels(M, ql, Append(s, k)),
         \A b \in ql : \A j \in 1..Len(d[b]) :
           \/ b \in pl /\ j \in 1..Len(c[b])
           \/ Meant(tt, J, M, d, ql, Append(s, k), b, j),
         k \in {"else", "break"} =>
           \/ \E l \in 1..Len(s) + 2 : Dest(Append(s, k), Len(s) + 1, l)
           \/ \E i \in 1..Len(tt) : \E y \in {tt[i].alt, tt[i].end} : Owner(tt, J, Append(s, k), Len(s) + 1, i, y),
         k \in {"continue", "endwhile"} => \E w \in 1..Len(s) : Direct(Append(s, k), w, Len(s) + 1),
         Begun(M, d, jns) \in 1..Len(s) + 2, Calm(Append(s, k), Begun(M, d, jns), Len(s) + 2),
         s # <<>> /\ s[Len(s)] = "while" => d[ins] # <<>> /\ d[ins][1].op = "eval",
         \A i \in 1..p : st[i].k \in Loopers \cup Joins => st[i].back \in pl,
         \A i \in 1..Len(tt) : i = p + 1 => Marked(tt[i], J[i], M, d, jns, Append(s, k))
  PROVE  Faith(tt, J, M, d, ql, jns, Append(s, k))
  <1> DEFINE t == Append(s, k)
             n == Len(s)
  <1>0. Struct(st, K, s) /\ Labels(L, pl, s) /\ Linked(st, K, s) /\ Marks(st, K, L, c, ins, s) /\ s \in Seq(Kinds)
    BY DEF Faith, Struct
  <1>1. /\ n \in Nat /\ Len(t) = n + 1 /\ t[n + 1] = k /\ n + 1 + 1 = n + 2 /\ n + 1 - 1 = n
    BY <1>0, FollowsAppend DEF Follows
  <1>2. Shared(st, tt, K, J, p) /\ Outgrows(c, d) /\ pl \subseteq 1..Len(c) BY DEF Carries
  <1>3. Struct(tt, J, t) BY <1>0, <1>2, StructStep
  <1>4. ASSUME NEW b \in ql, NEW j \in 1..Len(d[b]) PROVE Meant(tt, J, M, d, ql, t, b, j)
    <2>1. CASE b \in pl /\ j \in 1..Len(c[b])
      <3>1. Meant(st, K, L, c, pl, s, b, j) BY <2>1 DEF Faith
      <3>2. From(L, c, b, j) \in Nat \ {0}
        <4>1. c \in Codes /\ b \in 1..Len(c) /\ L[b] \in Nat \ {0} BY <2>1, <1>0, <1>1, <1>2 DEF Labels, Outgrows
        <4>2. j \in 1..Len(c[b]) + 1 BY <2>1, <4>1, CodeFacts
        <4> QED BY <4>1, <4>2, FromFacts
      <3> QED BY <1>0, <2>1, <3>1, <3>2, MeantKept
    <2>2. CASE Meant(tt, J, M, d, ql, t, b, j) BY <2>2
    <2> QED BY <2>1, <2>2
  <1>5. Linked(tt, J, t)
    <2> SUFFICES ASSUME NEW m \in 1..n + 1
                 PROVE  /\ t[m] \in {"else", "break"} =>
                             \/ \E l \in 1..Len(t) + 1 : Dest(t, m, l)
                             \/ \E i \in 1..Len(tt) : \E y \in {tt[i].alt, tt[i].end} : Owner(tt, J, t, m, i, y)
                        /\ t[m] \in {"continue", "endwhile"} => \E w \in 1..m - 1 : Direct(t, w, m)
      BY <1>1 DEF Linked
    <2>1. CASE m = n + 1 BY <2>1, <1>1
    <2>2. CASE m # n + 1
      <3>1. m \in 1..n BY <2>2, <1>1
      <3> QED BY <3>1, <1>0, LinkedKept
    <2> QED BY <2>1, <2>2
  <1>6. Marks(tt, J, M, d, jns, t)
    <2> SUFFICES ASSUME NEW i \in 1..Len(tt) PROVE Marked(tt[i], J[i], M, d, jns, t) BY DEF Marks
    <2>1. i \in 1..p \/ i = p + 1 BY <1>2, SharedFacts
    <2>2. CASE i = p + 1 BY <2>2
    <2>3. CASE i \in 1..p
      <3>1. i \in 1..Len(st) BY <2>3, <1>2, SharedFacts
      <3>2. Marked(st[i], K[i], L, c, ins, s) BY <3>1, <1>0 DEF Marks
      <3> QED BY <2>3, <3>2, <1>0, HeadKept
    <2> QED BY <2>1, <2>2, <2>3
  <1>7. Begun(M, d, jns) \in 1..Len(t) + 1 /\ Calm(t, Begun(M, d, jns), Len(t) + 1) BY <1>1
  <1>8. Labels(M, ql, t) OBVIOUS
  <1> HIDE DEF t
  <1>9. Faith(tt, J, M, d, ql, jns, t) BY <1>3, <1>4, <1>5, <1>6, <1>7, <1>8 DEF Faith
  <1> QED BY <1>9 DEF t

(* One instruction more, at the end of block ins, and blocks that are new. *)
Writes(c, d, ins, i) ==
  /\ c \in Codes /\ d \in Codes /\ ins \in 1..Len(c) /\ Len(c) <= Len(d) /\ i \in Instrs
  /\ Len(d[ins]) = Len(c[ins]) + 1 /\ d[ins][Len(c[ins]) + 1] = i
  /\ \A j \in 1..Len(c[ins]) : d[ins][j] = c[ins][j]
  /\ \A b \in 1..Len(c) : b # ins => d[b] = c[b]

LEMMA WritesFacts ==
  ASSUME NEW c \in Codes, NEW ins \in 1..Len(c), NEW i \in Instrs, NEW n \in Nat
  PROVE  /\ Writes(c, Add(c, ins, i), ins, i) /\ Len(Add(c, ins, i)) = Len(c)
         /\ Writes(c, Add(Blocks(c, n), ins, i), ins, i) /\ Len(Add(Blocks(c, n), ins, i)) = Len(c) + n
         /\ \A b \in Len(c) + 1..Len(c) + n : Add(Blocks(c, n), ins, i)[b] = <<>>
         /\ Outgrows(c, Blocks(c, n)) /\ \A b \in 1..Len(c) : Blocks(c, n)[b] = c[b]
  <1> DEFINE e == Blocks(c, n)
  <1>1. /\ Add(c, ins, i) \in Codes /\ Len(Add(c, ins, i)) = Len(c)
        /\ Len(c) \in Nat /\ Len(c[ins]) \in Nat
        /\ Len(Add(c, ins, i)[ins]) = Len(c[ins]) + 1
        /\ \A j \in 1..Len(c[ins]) : Add(c, ins, i)[ins][j] = c[ins][j]
        /\ Add(c, ins, i)[ins][Len(c[ins]) + 1] = i
        /\ \A b \in 1..Len(c) : b # ins => Add(c, ins, i)[b] = c[b]
    BY AddFacts
  <1>2. Writes(c, Add(c, ins, i), ins, i) BY <1>1 DEF Writes
  <1>3. /\ e \in Codes /\ Len(e) = Len(c) + n /\ \A b \in 1..Len(c) : e[b] = c[b]
        /\ \A b \in Len(c) + 1..Len(c) + n : e[b] = <<>>
    BY BlocksFacts
  <1> HIDE DEF e
  <1>4. ins \in 1..Len(e) /\ e[ins] = c[ins] /\ Len(c) <= Len(e) BY <1>1, <1>3
  <1>5. /\ Add(e, ins, i) \in Codes /\ Len(Add(e, ins, i)) = Len(e)
        /\ Len(Add(e, ins, i)[ins]) = Len(e[ins]) + 1
        /\ \A j \in 1..Len(e[ins]) : Add(e, ins, i)[ins][j] = e[ins][j]
        /\ Add(e, ins, i)[ins][Len(e[ins]) + 1] = i
        /\ \A b \in 1..Len(e) : b # ins => Add(e, ins, i)[b] = e[b]
    <2>1. e \in Codes /\ ins \in 1..Len(e) /\ i \in Instrs BY <1>3, <1>4
    <2> QED BY <2>1, AddFacts, ZenonT(60)
  <1>6. \A b \in 1..Len(c) : b \in 1..Len(e) BY <1>1, <1>3
  <1>7. Writes(c, Add(e, ins, i), ins, i) BY <1>1, <1>3, <1>4, <1>5, <1>6 DEF Writes
  <1>8. \A b \in Len(c) + 1..Len(c) + n : Add(e, ins, i)[b] = <<>>
    <2>1. \A b \in Len(c) + 1..Len(c) + n : b \in 1..Len(e) /\ b # ins BY <1>1, <1>3
    <2> QED BY <2>1, <1>3, <1>5
  <1>9. Outgrows(c, e)
    <2>1. \A b \in 1..Len(c) : Len(c[b]) \in Nat BY CodeFacts
    <2> QED BY <2>1, <1>3, <1>4 DEF Outgrows
  <1> QED BY <1>1, <1>2, <1>3, <1>5, <1>7, <1>8, <1>9 DEF e

LEMMA WritesOutgrows ==
  ASSUME NEW c, NEW d, NEW ins, NEW i, Writes(c, d, ins, i), Open(c[ins])
  PROVE  Outgrows(c, d)
  <1>1. \A b \in 1..Len(c) : Len(c[b]) \in Nat BY CodeFacts DEF Writes
  <1>2. ~IsTerminated(c[ins])
    <2>1. c[ins] # <<>> => Len(c[ins]) \in 1..Len(c[ins]) BY CodeFacts DEF Writes
    <2> QED BY <2>1 DEF Open, IsTerminated
  <1>3. ASSUME NEW b \in 1..Len(c)
        PROVE  /\ Len(c[b]) <= Len(d[b])
               /\ \A j \in 1..Len(c[b]) : d[b][j] = c[b][j]
               /\ IsTerminated(c[b]) => d[b] = c[b]
    <2>1. CASE b = ins BY <2>1, <1>1, <1>2 DEF Writes
    <2>2. CASE b # ins BY <2>2, <1>1 DEF Writes
    <2> QED BY <2>1, <2>2
  <1> QED BY <1>3 DEF Outgrows, Writes

(* The node the next instruction would be met from.                        *)
LEMMA BegunFacts ==
  ASSUME NEW st, NEW K, NEW L, NEW c, NEW pl, NEW s, NEW ins, Faith(st, K, L, c, pl, ins, s),
         NEW k \in Kinds, NEW d, NEW i, Writes(c, d, ins, i), NEW M, M[ins] = L[ins]
  PROVE  LET t == Append(s, k)
             j == Len(c[ins]) + 1
             f == From(M, d, ins, j)
         IN  /\ f = Begun(L, c, ins) /\ f \in 1..Len(s) + 1 /\ Calm(t, f, Len(s) + 1)
             /\ d[ins][j] = i /\ j \in 1..Len(d[ins]) /\ Len(s) \in Nat /\ Len(t) = Len(s) + 1
             /\ t[Len(s) + 1] = k /\ \A h \in 1..Len(s) : t[h] = s[h]
  <1> DEFINE t == Append(s, k)
             j == Len(c[ins]) + 1
             f == From(M, d, ins, j)
  <1>1. s \in Seq(Kinds) BY DEF Faith, Struct
  <1>2. /\ Len(s) \in Nat /\ Len(t) = Len(s) + 1 /\ t[Len(s) + 1] = k /\ (\A h \in 1..Len(s) : t[h] = s[h])
        /\ Follows(s, t)
    BY <1>1, FollowsAppend DEF Follows
  <1>3. Len(c[ins]) \in Nat /\ ins \in 1..Len(c) BY CodeFacts DEF Writes
  <1>4. j \in 1..Len(d[ins]) /\ d[ins][j] = i BY <1>3 DEF Writes
  <1>5. f = From(L, c, ins, j)
    <2>1. j # 1 => j - 1 \in 1..Len(c[ins]) BY <1>3
    <2>2. j # 1 => d[ins][j - 1] = c[ins][j - 1] BY <2>1 DEF Writes
    <2> QED BY <2>2 DEF From
  <1>6. f = Begun(L, c, ins) BY <1>5 DEF Begun
  <1>7. f \in 1..Len(s) + 1 /\ Calm(s, f, Len(s) + 1) BY <1>6 DEF Faith
  <1>8. f \in Nat \ {0} /\ Len(s) + 1 \in 1..Len(s) + 1 BY <1>7, <1>2
  <1> HIDE DEF f, t, j
  <1>9. Calm(t, f, Len(s) + 1) BY <1>2, <1>7, <1>8, CalmKept
  <1> QED BY <1>2, <1>4, <1>6, <1>7, <1>9 DEF f, t, j

LEMMA FaithWrite ==
  ASSUME NEW st, NEW tt, NEW K, NEW J, NEW L, NEW M, NEW c, NEW d, NEW pl, NEW s, NEW k \in Kinds, NEW p,
         NEW ins, NEW x, NEW i, Faith(st, K, L, c, pl, ins, s), Shared(st, tt, K, J, p), Suits(st, tt, K, J, s, k, p),
         Graph(c, pl, ins), Writes(c, d, ins, i), \A b \in pl : M[b] = L[b],
         \/ x = ins /\ i.node = Len(s) + 1
         \/ x \in (2..Len(d)) \ pl /\ d[x] = <<>> /\ M[x] = Len(s) + 2 /\ \A h \in 1..p : x \notin Owed(st[h]),
         \A m \in 1..Len(s) : \A y :
           Len(st) = p + 1 /\ Owner(st, K, s, m, p + 1, y) =>
             y \in pl \cup {x} /\ Dest(Append(s, k), m, M[y]) /\ s[m] \notin {"and", "or"},
         Meant(tt, J, M, d, pl \cup {x}, Append(s, k), ins, Len(c[ins]) + 1),
         k \in {"else", "break"} =>
           \E h \in 1..Len(tt) : \E y \in {tt[h].alt, tt[h].end} : Owner(tt, J, Append(s, k), Len(s) + 1, h, y),
         k \in {"continue", "endwhile"} => \E w \in 1..Len(s) : Direct(Append(s, k), w, Len(s) + 1),
         s # <<>> /\ s[Len(s)] = "while" => d[ins] # <<>> /\ d[ins][1].op = "eval",
         \A h \in 1..p : st[h].k \in Loopers \cup Joins => st[h].back \in pl,
         \A h \in 1..Len(tt) : h = p + 1 => Marked(tt[h], J[h], M, d, x, Append(s, k))
  PROVE  Faith(tt, J, M, d, pl \cup {x}, x, Append(s, k))
  <1> DEFINE t == Append(s, k)
             n == Len(s)
             ql == pl \cup {x}
  <1>1. Struct(st, K, s) /\ Labels(L, pl, s) BY DEF Faith
  <1>2. /\ n \in Nat /\ Len(t) = n + 1 /\ t[n + 1] = k /\ n + 1 + 1 = n + 2
    BY <1>1, FollowsAppend DEF Follows, Struct
  <1>3. c \in Codes /\ d \in Codes /\ Len(c) \in Nat /\ Len(d) \in Nat /\ Len(c) <= Len(d) /\ Len(c[ins]) \in Nat
        /\ ins \in 1..Len(c) /\ Len(d[ins]) = Len(c[ins]) + 1 /\ d[ins][Len(c[ins]) + 1] = i
        /\ \A b \in 1..Len(c) : b # ins => d[b] = c[b]
    BY CodeFacts DEF Writes
  <1>4. pl \subseteq 1..Len(c) /\ 1 \in pl /\ ins \in pl /\ Open(c[ins]) BY DEF Graph
  <1>5. Outgrows(c, d) BY <1>4, WritesOutgrows
  <1>6. pl \subseteq ql /\ ql \subseteq 1..Len(d)
    <2>1. 1..Len(c) \subseteq 1..Len(d) /\ 2..Len(d) \subseteq 1..Len(d) BY <1>3
    <2>2. x \in 1..Len(d) BY <2>1, <1>3
    <2> QED BY <2>1, <2>2, <1>4
  <1>7. Len(st) \in p..p + 1 /\ p \in Nat /\ st \in Stacks BY DEF Shared
  <1>8. \A h \in 1..p : \A y \in {st[h].alt, st[h].end} : y \in ql => y \in pl
    <2> SUFFICES ASSUME NEW h \in 1..p, NEW y \in {st[h].alt, st[h].end}, y \in ql, y \notin pl PROVE FALSE
      OBVIOUS
    <2>1. y = x /\ x # ins /\ x \in 2..Len(d) /\ x \notin Owed(st[h]) BY <1>4
    <2>2. y = 0 BY <2>1 DEF Owed
    <2> QED BY <2>1, <2>2
  <1>9. \A h \in 1..Len(st) : \A m \in 1..n : \A y \in {st[h].alt, st[h].end} :
          h = p + 1 /\ Owner(st, K, s, m, h, y) =>
            /\ y \in ql /\ Dest(t, m, M[y])
            /\ s[m] \in {"and", "or"} => d[y] # <<>> /\ d[y][1].op = "phi" /\ d[y][1].node = M[y]
    <2>1. \A h \in 1..Len(st) : h = p + 1 => Len(st) = p + 1 BY <1>7
    <2> QED BY <2>1
  <1> HIDE DEF ql
  <1>10. Carries(st, tt, K, J, L, M, c, d, pl, ql, s, t, p) BY <1>1, <1>4, <1>5, <1>6, <1>8, <1>9, CarriesStep
  <1>11. Labels(M, ql, t)
    <2>1. \A b \in pl : M[b] \in 1..n + 2 BY <1>1, <1>2 DEF Labels
    <2>2. M[1] = 1 BY <1>1, <1>4 DEF Labels
    <2>3. x \in pl \/ M[x] \in 1..n + 2 BY <1>2, <1>4
    <2> QED BY <1>2, <2>1, <2>2, <2>3 DEF Labels, ql
  <1>12. ASSUME NEW b \in ql, NEW j \in 1..Len(d[b])
         PROVE  \/ b \in pl /\ j \in 1..Len(c[b])
                \/ Meant(tt, J, M, d, ql, t, b, j)
    <2>1. CASE b = ins
      <3>1. j \in 1..Len(c[ins]) \/ j = Len(c[ins]) + 1 BY <2>1, <1>3
      <3> QED BY <3>1, <2>1, <1>4 DEF ql
    <2>2. CASE b # ins /\ b \in pl BY <2>2, <1>3, <1>4
    <2>3. CASE b # ins /\ b \notin pl
      <3>1. d[b] = <<>> BY <2>3 DEF ql
      <3>2. Len(d[b]) = 0 BY <3>1
      <3> QED BY <3>2
    <2> QED BY <2>1, <2>2, <2>3
  <1>13. Begun(M, d, x) = n + 2
    <2>1. CASE x = ins
      <3>1. x # ins \/ i.node = n + 1 BY <1>4
      <3>2. Len(d[ins]) + 1 # 1 /\ Len(d[ins]) + 1 - 1 = Len(c[ins]) + 1 BY <1>3
      <3>3. Begun(M, d, x) = i.node + 1 BY <2>1, <3>2, <1>3 DEF Begun, From
      <3> QED BY <2>1, <3>1, <3>3, <1>2
    <2>2. CASE x # ins
      <3>1. d[x] = <<>> /\ M[x] = n + 2 BY <2>2
      <3>2. Len(d[x]) + 1 = 1 BY <3>1
      <3> QED BY <3>1, <3>2 DEF Begun, From
    <2> QED BY <2>1, <2>2
  <1>14. n + 2 \in 1..n + 2 /\ Calm(t, n + 2, n + 2)
    <2>1. \A h \in n + 2..n + 2 - 1 : FALSE BY <1>2
    <2> QED BY <1>2, <2>1 DEF Calm
  <1> HIDE DEF t
  <1>15. Faith(tt, J, M, d, ql, x, t)
    <2>1. Begun(M, d, x) \in 1..Len(s) + 2 /\ Calm(Append(s, k), Begun(M, d, x), Len(s) + 2)
      BY <1>13, <1>14 DEF t
    <2> USE DEF t
    <2> QED BY <1>10, <1>11, <1>12, <2>1, FaithStep
  <1> QED BY <1>15 DEF t, ql

(* What the new instruction means.                                         *)
LEMMA MeantPlain ==
  ASSUME NEW st, NEW K, NEW L, NEW c, NEW pl, NEW s, NEW ins, Faith(st, K, L, c, pl, ins, s),
         NEW k \in Kinds, NEW d, NEW i, Writes(c, d, ins, i), NEW M, M[ins] = L[ins], NEW tt, NEW J, NEW ql,
         i.node = Len(s) + 1, i.op \in {"eval", "store", "ret", "condbr"},
         i.op = "eval" => k \in {"leaf", "op"} /\ i.def = Len(s) + 1,
         i.op = "store" => k \in {"param", "store"},
         i.op = "ret" => \/ k = "return" /\ i.use = {}
                         \/ k = "retval" /\ i.use = {Len(s)} /\ Len(s) >= 1,
         i.op = "condbr" => Branching(tt, J, M, d, ql, Append(s, k), i)
  PROVE  Meant(tt, J, M, d, ql, Append(s, k), ins, Len(c[ins]) + 1)
  <1> DEFINE t == Append(s, k)
             j == Len(c[ins]) + 1
             f == From(M, d, ins, j)
             n == Len(s)
  <1>1. /\ f \in 1..n + 1 /\ Calm(t, f, n + 1) /\ d[ins][j] = i /\ n \in Nat /\ Len(t) = n + 1 /\ t[n + 1] = k
    BY BegunFacts
  <1>2. i.node \in f..Len(t) /\ Calm(t, f, i.node) /\ t[i.node] = k BY <1>1
  <1>3. i.op = "ret" => \/ k = "return" /\ i.use = {}
                        \/ k = "retval" /\ i.use = {i.node - 1} /\ i.node >= 2
    <2>1. n + 1 - 1 = n /\ (n >= 1 => n + 1 >= 2) BY <1>1
    <2> QED BY <2>1
  <1>4. i.op # "br" /\ i.op # "phi" OBVIOUS
  <1> HIDE DEF f, j, t
  <1>5. Meant(tt, J, M, d, ql, t, ins, j) BY <1>1, <1>2, <1>3, <1>4 DEF Meant, f, t
  <1> QED BY <1>5 DEF t, j

LEMMA MeantBr ==
  ASSUME NEW st, NEW K, NEW L, NEW c, NEW pl, NEW s, NEW ins, Faith(st, K, L, c, pl, ins, s),
         NEW k \in Kinds, NEW d, NEW i, Writes(c, d, ins, i), NEW M, M[ins] = L[ins], NEW tt, NEW J, NEW ql,
         i.op = "br", NEW m \in {Len(s) + 1, Len(s) + 2}, m = Len(s) + 2 => k \in Passed,
         \A f : f # Len(s) + 2 => Goes(tt, J, M, d, ql, Append(s, k), f, m, i.to[1])
  PROVE  Meant(tt, J, M, d, ql, Append(s, k), ins, Len(c[ins]) + 1)
  <1> DEFINE t == Append(s, k)
             j == Len(c[ins]) + 1
             f == From(M, d, ins, j)
             n == Len(s)
  <1>1. /\ f \in 1..n + 1 /\ Calm(t, f, n + 1) /\ d[ins][j] = i /\ n \in Nat /\ Len(t) = n + 1 /\ t[n + 1] = k
    BY BegunFacts
  <1>2. m \in f..Len(t) + 1 BY <1>1
  <1>3. Calm(t, f, m)
    <2>1. CASE m = n + 1 BY <2>1, <1>1
    <2>2. CASE m # n + 1
      <3>1. \A h \in f..m - 1 : h \in f..n + 1 - 1 \/ h = n + 1 BY <2>2, <1>1
      <3> QED BY <3>1, <2>2, <1>1 DEF Calm
    <2> QED BY <2>1, <2>2
  <1>4. Goes(tt, J, M, d, ql, t, f, m, i.to[1])
    <2>1. f # n + 2 BY <1>1
    <2> QED BY <2>1
  <1> HIDE DEF f, j, t
  <1>5. Meant(tt, J, M, d, ql, t, ins, j) BY <1>1, <1>2, <1>3, <1>4 DEF Meant, f
  <1> QED BY <1>5 DEF t, j

(* A node that emits nothing.                                              *)
LEMMA FaithPassed ==
  ASSUME NEW st, NEW tt, NEW K, NEW J, NEW L, NEW c, NEW d, NEW pl, NEW s, NEW k \in Kinds, NEW ins,
         Faith(st, K, L, c, pl, ins, s), Shared(st, tt, K, J, Len(st)), Suits(st, tt, K, J, s, k, Len(st)),
         Graph(c, pl, ins), Outgrows(c, d), \A b \in 1..Len(c) : d[b] = c[b],
         k \in Passed, ~(s # <<>> /\ s[Len(s)] = "while"),
         \A h \in 1..Len(st) : st[h].k \in Loopers \cup Joins => st[h].back \in pl,
         \A h \in 1..Len(tt) : h = Len(st) + 1 => tt[h].k \notin Loopers \cup Joins
  PROVE  Faith(tt, J, L, d, pl, ins, Append(s, k))
  <1> DEFINE t == Append(s, k)
             n == Len(s)
             p == Len(st)
  <1>1. Struct(st, K, s) /\ Labels(L, pl, s) BY DEF Faith
  <1>2. /\ n \in Nat /\ Len(t) = n + 1 /\ t[n + 1] = k /\ n + 1 + 1 = n + 2 /\ Follows(s, t)
    BY <1>1, FollowsAppend DEF Follows, Struct
  <1>3. pl \subseteq 1..Len(c) /\ 1 \in pl /\ ins \in pl BY DEF Graph
  <1>4. p \in Nat /\ p # p + 1 BY StackFacts DEF Shared
  <1>5. Carries(st, tt, K, J, L, L, c, d, pl, pl, s, t, p)
    <2>1. \A i \in 1..Len(st) : i # p + 1 BY <1>4
    <2> QED BY <2>1, <1>1, <1>3, CarriesStep
  <1>6. Labels(L, pl, t) BY <1>1, <1>2 DEF Labels
  <1>7. \A b \in pl : d[b] = c[b] BY <1>3
  <1>8. Begun(L, d, ins) = Begun(L, c, ins) BY <1>3, <1>7 DEF Begun, From
  <1>9. Begun(L, c, ins) \in 1..n + 1 /\ Calm(s, Begun(L, c, ins), n + 1) BY DEF Faith
  <1>10. Begun(L, d, ins) \in 1..n + 2 BY <1>2, <1>8, <1>9
  <1>11. Calm(t, Begun(L, d, ins), n + 2)
    <2> DEFINE f == Begun(L, d, ins)
    <2>1. f \in Nat \ {0} /\ n + 1 \in 1..n + 1 /\ Calm(s, f, n + 1) BY <1>2, <1>8, <1>9
    <2> HIDE DEF f
    <2>2. Calm(t, f, n + 1) BY <2>1, <1>2, CalmKept
    <2>0. n \in Nat /\ t[n + 1] = k /\ k \in Passed BY <1>2
    <2> HIDE DEF t, n
    <2>3. \A h \in f..n + 2 - 1 : h \in f..n + 1 - 1 \/ h = n + 1 BY <2>1, <2>0
    <2>4. \A h \in f..n + 2 - 1 : t[h] \in Passed
      <3>1. \A h \in f..n + 1 - 1 : t[h] \in Passed BY <2>0, <2>1, <2>2 DEF Calm
      <3>2. t[n + 1] \in Passed BY <2>0
      <3> QED BY <2>0, <2>1, <2>3, <3>1, <3>2
    <2>5. Calm(t, f, n + 2) BY <2>0, <2>1, <2>4 DEF Calm
    <2> QED BY <2>5 DEF f, t, n
  <1>12. k \notin {"else", "break"} /\ k \notin {"continue", "endwhile"} BY DEF Passed
  <1>13. \A i \in 1..Len(tt) : i = p + 1 => Marked(tt[i], J[i], L, d, ins, t) BY DEF Marked
  <1>14. \A b \in pl : \A j \in 1..Len(d[b]) : b \in pl /\ j \in 1..Len(c[b]) BY <1>7
  <1> QED BY <1>5, <1>6, <1>10, <1>11, <1>12, <1>13, <1>14, FaithStep

(* The node just visited has yet to be closed.                             *)
LEMMA PendingNew ==
  ASSUME NEW st \in Stacks, NEW tt, NEW K, NEW J, NEW s \in Seq(Kinds), NEW k \in Kinds, NEW p, Levels(st, s),
         Suits(st, tt, K, J, s, k, p), NEW x \in Classes, k \notin Closes(x)
  PROVE  Pending(Append(s, k), x, Len(s) + 1, Rank(tt, x, Len(tt)))
  <1> DEFINE t == Append(s, k)
             n == Len(s)
  <1>1. n \in Nat /\ Len(t) = n + 1 BY FollowsAppend DEF Follows
  <1>2. /\ Nest(t, x, n + 1) = Rank(st, x, Len(st)) + (IF k \in Opens(x) THEN 1 ELSE 0)
        /\ Rank(st, x, Len(st)) \in Nat
    BY NestNew
  <1>3. Rank(tt, x, Len(tt)) = Rank(st, x, Len(st)) + (IF k \in Opens(x) THEN 1 ELSE 0) - 0 BY DEF Suits
  <1>4. Nest(t, x, n + 1) = Rank(tt, x, Len(tt)) BY <1>2, <1>3
  <1>5. n + 1 \in 1..n + 1 /\ \A h \in n + 1 + 1..n + 1 : FALSE BY <1>1
  <1> QED BY <1>1, <1>4, <1>5 DEF Pending

=============================================================================
