----------------------------- MODULE KmemProofs -----------------------------
(***************************************************************************)
(* kmalloc_aligned, for every size and alignment; then that every block is *)
(* in one place, for every set of processors and blocks.  KInv is the      *)
(* inductive invariant: pending lists end, and no two have a block in      *)
(* common.                                                                 *)
(***************************************************************************)
EXTENDS Kmem, Sequences, WellFoundedInduction, TLAPS

(* A multiple leaves no remainder. *)
LEMMA MultipleMod ==
  ASSUME NEW k \in Nat, NEW m \in Nat \ {0}
  PROVE  (k * m) % m = 0
  BY SMTT(30)

(* For every address, size, word size and alignment, kmalloc_aligned       *)
(* returns an aligned address inside of the buffer it got from kmalloc.    *)
THEOREM AlignedStaysInside ==
  ASSUME NEW raw \in Nat, NEW size \in Nat, NEW word \in Nat,
         NEW alignment \in Nat \ {0}
  PROVE  AlignedInside(raw, size, word, alignment)
<1> DEFINE addr == raw + word
           q == addr \div alignment
           r == addr % alignment
<1>1. r \in 0..(alignment - 1) /\ q \in Nat /\ addr = q * alignment + r
  BY SMTT(30)
<1> DEFINE k == IF r = 0 THEN q ELSE q + 1
<1>2. k \in Nat /\ Aligned(raw, word, alignment) = k * alignment
  BY <1>1, SMTT(30) DEF Aligned
<1>3. Aligned(raw, word, alignment) % alignment = 0
  <2> HIDE DEF k
  <2>1. (k * alignment) % alignment = 0
    BY <1>2, MultipleMod
  <2>2. QED
    BY <1>2, <2>1, Zenon
<1>4. QED
  BY <1>1, <1>3, SMTT(30) DEF AlignedInside, Aligned

-----------------------------------------------------------------------------
(* Every block is in one place.                                            *)
(*                                                                         *)
(* The invariant speaks of what the pointers stand for: P[c] is the        *)
(* pending list of c and F[c] the chain it is freeing, as sequences; W[b]  *)
(* is the place of block b, and Q[b] the CPU that pushes it.               *)

USE ZenonT(40)

On(s, b) == \E i \in 1..Len(s) : s[i] = b

(* l links the blocks of s, which are different, from b on to Null. *)
Path(l, b, s) ==
  /\ s \in Seq(Block)
  /\ \A i, j \in 1..Len(s) : s[i] = s[j] => i = j
  /\ b = IF Len(s) = 0 THEN Null ELSE s[1]
  /\ \A i \in 1..Len(s) : l[s[i]] = IF i = Len(s) THEN Null ELSE s[i + 1]

MaybeBlock == Block \cup {Null}
PC == {"idle", "try", "flush", "retry", "last", "load", "cas"}
Local == [pc : PC, old : MaybeBlock, chain : MaybeBlock, ptr : MaybeBlock, head : MaybeBlock]

KTypes ==
  /\ owner \in [Block -> CPU \cup {Null}]
  /\ free \subseteq Block /\ held \subseteq Block
  /\ link \in [Block -> Block \cup {Null, "heap"}]
  /\ pending \in [CPU -> MaybeBlock]
  /\ cpu \in [CPU -> Local]

(* What a CPU has in hand where it is. *)
Mine(c) ==
  /\ cpu[c].chain # Null => cpu[c].pc = "flush"
  /\ cpu[c].ptr # Null <=> cpu[c].pc \in {"load", "cas"}
  /\ cpu[c].pc = "cas" => link[cpu[c].ptr] = cpu[c].head
  /\ cpu[c].old # Null => /\ cpu[c].old \in held
                          /\ cpu[c].pc \in {"try", "flush", "retry", "last"}

(* Nobody else is reallocating the same buffer. *)
Alone(c) == \A d \in CPU : cpu[c].old # Null /\ cpu[d].old = cpu[c].old => d = c

Chains(P, F) ==
  \A c \in CPU : Path(link, pending[c], P[c]) /\ Path(link, cpu[c].chain, F[c])

Placed(P, F, W, Q, b) ==
  /\ owner[b] = Null <=> W[b] = "none"
  /\ b \in free <=> W[b] = "free"
  /\ b \in held <=> W[b] = "held"
  /\ W[b] = "push" => Q[b] \in CPU
  /\ \A c \in CPU :
       /\ On(P[c], b) <=> W[b] = "pending" /\ owner[b] = c
       /\ On(F[c], b) <=> W[b] = "flush" /\ owner[b] = c
       /\ cpu[c].ptr = b <=> W[b] = "push" /\ Q[b] = c

Functions(P, F, W, Q) ==
  /\ P \in [CPU -> Seq(Block)] /\ F \in [CPU -> Seq(Block)]
  /\ W \in [Block -> {"none", "free", "held", "pending", "flush", "push"}]
  /\ Q \in [Block -> CPU \cup {Null}]

Located(P, F, W, Q) ==
  /\ Functions(P, F, W, Q)
  /\ Chains(P, F)
  /\ \A b \in Block : Placed(P, F, W, Q, b)

KInv ==
  /\ KTypes
  /\ \A c \in CPU : Mine(c) /\ Alone(c)
  /\ \E P, F, W, Q : Located(P, F, W, Q)

(* Paths. *)

LEMMA PathNull ==
  ASSUME NEW l, NEW s, Path(l, Null, s)
  PROVE  s = <<>> /\ \A b : ~On(s, b)
<1>1. Len(s) = 0
  BY KmemAssumption, SMTT(30) DEF Path
<1>2. s = <<>>
  BY <1>1, SMTT(30) DEF Path
<1> QED BY <1>1, <1>2, SMTT(30) DEF On

LEMMA PathEmpty ==
  ASSUME NEW l
  PROVE  Path(l, Null, <<>>) /\ \A b : ~On(<<>>, b)
  BY SMTT(30) DEF Path, On

(* A path whose blocks keep their links stays a path. *)
LEMMA PathSame ==
  ASSUME NEW l, NEW m, NEW b, NEW s, Path(l, b, s), \A x \in Block : On(s, x) => m[x] = l[x]
  PROVE  Path(m, b, s)
<1>1. ASSUME NEW i \in 1..Len(s) PROVE m[s[i]] = l[s[i]]
  <2>1. s[i] \in Block /\ On(s, s[i])
    BY SMTT(30) DEF Path, On
  <2> QED BY <2>1
<1> QED BY <1>1 DEF Path

LEMMA PathTail ==
  ASSUME NEW l, NEW b, b # Null, NEW s, Path(l, b, s)
  PROVE  /\ b \in Block /\ Path(l, l[b], Tail(s))
         /\ On(s, b) /\ ~On(Tail(s), b)
         /\ \A x : x # b => (On(Tail(s), x) <=> On(s, x))
<1> DEFINE n == Len(s)
           t == Tail(s)
<1>1. s \in Seq(Block) /\ n \in Nat /\ n # 0 /\ b = s[1]
  BY SMTT(30) DEF Path
<1>2. s # <<>>
  BY <1>1, SMTT(30)
<1>3. t \in Seq(Block) /\ Len(t) = n - 1 /\ \A i \in 1..Len(t) : t[i] = s[i + 1]
  BY <1>1, <1>2, SMTT(30)
<1>4. b \in Block
  BY <1>1, SMTT(30)
<1>5. On(s, b)
  BY <1>1, SMTT(30) DEF On
<1> HIDE DEF n, t
<1>6. \A i \in 1..Len(t) : i + 1 \in 1..n /\ i + 1 # 1 /\ s[i + 1] # b
  BY <1>1, <1>3, SMTT(30) DEF Path, n
<1>7. ~On(t, b)
  BY <1>3, <1>6 DEF On
<1>8. ASSUME NEW x, x # b PROVE On(t, x) <=> On(s, x)
  <2>1. On(t, x) => On(s, x)
    BY <1>3, <1>6 DEF On, n
  <2>2. ASSUME NEW i \in 1..n, s[i] = x PROVE On(t, x)
    <3>1. i - 1 \in 1..Len(t) /\ (i - 1) + 1 = i
      BY <1>1, <1>3, <1>8, <2>2, SMTT(30)
    <3>2. t[i - 1] = x
      BY <1>3, <2>2, <3>1
    <3> QED BY <3>1, <3>2 DEF On
  <2> QED BY <2>1, <2>2 DEF On, n
<1>9. Path(l, l[b], t)
  <2>1. \A i, j \in 1..Len(t) : t[i] = t[j] => i = j
    <3> SUFFICES ASSUME NEW i \in 1..Len(t), NEW j \in 1..Len(t), t[i] = t[j] PROVE i = j
      OBVIOUS
    <3>1. s[i + 1] = s[j + 1] /\ i + 1 \in 1..Len(s) /\ j + 1 \in 1..Len(s)
      BY <1>3, <1>6 DEF n
    <3>2. i + 1 = j + 1
      BY <3>1 DEF Path
    <3> QED BY <3>2, SMTT(30)
  <2>2. l[b] = IF Len(t) = 0 THEN Null ELSE t[1]
    <3>0. 1 \in 1..Len(s)
      BY <1>1, SMTT(30) DEF n
    <3>1. l[s[1]] = IF 1 = n THEN Null ELSE s[1 + 1]
      BY <3>0 DEF Path, n
    <3> QED BY <1>1, <1>3, <3>1, SMTT(30)
  <2>3. ASSUME NEW i \in 1..Len(t) PROVE l[t[i]] = IF i = Len(t) THEN Null ELSE t[i + 1]
    <3>1. l[s[i + 1]] = IF i + 1 = n THEN Null ELSE s[(i + 1) + 1]
      BY <1>6 DEF Path, n
    <3>2. i # Len(t) => t[i + 1] = s[(i + 1) + 1]
      BY <1>1, <1>3, SMTT(30)
    <3> QED BY <1>1, <1>3, <3>1, <3>2, SMTT(30)
  <2> QED BY <1>3, <2>1, <2>2, <2>3 DEF Path
<1> QED BY <1>4, <1>5, <1>7, <1>8, <1>9 DEF t

LEMMA PathCons ==
  ASSUME NEW l, NEW h, NEW s, Path(l, h, s), NEW b \in Block, ~On(s, b), l[b] = h
  PROVE  /\ Path(l, b, <<b>> \o s) /\ On(<<b>> \o s, b)
         /\ \A x : x # b => (On(<<b>> \o s, x) <=> On(s, x))
<1> DEFINE t == <<b>> \o s
           n == Len(s)
<1>1. s \in Seq(Block) /\ n \in Nat /\ <<b>> \in Seq(Block)
  BY SMTT(30) DEF Path
<1>2. /\ t \in Seq(Block) /\ Len(t) = n + 1 /\ t[1] = b
      /\ \A i \in 1..n : t[i + 1] = s[i]
  BY <1>1, SMTT(30)
<1> HIDE DEF t
<1>3. \A i \in 1..Len(t) : i = 1 \/ (i - 1 \in 1..n /\ t[i] = s[i - 1])
  <2> SUFFICES ASSUME NEW i \in 1..Len(t), i # 1 PROVE i - 1 \in 1..n /\ t[i] = s[i - 1]
    OBVIOUS
  <2>1. i - 1 \in 1..n /\ (i - 1) + 1 = i
    BY <1>1, <1>2, SMTT(30)
  <2> QED BY <1>2, <2>1
<1>4. On(t, b)
  BY <1>1, <1>2, SMTT(30) DEF On
<1>5. ASSUME NEW x, x # b PROVE On(t, x) <=> On(s, x)
  <2>1. On(t, x) => On(s, x)
    BY <1>2, <1>3, <1>5 DEF On
  <2>2. ASSUME NEW i \in 1..n, s[i] = x PROVE On(t, x)
    <3>1. i + 1 \in 1..Len(t)
      BY <1>1, <1>2, SMTT(30)
    <3> QED BY <1>2, <2>2, <3>1 DEF On
  <2> QED BY <2>1, <2>2 DEF On
<1>6. Path(l, b, t)
  <2>1. ASSUME NEW i \in 1..Len(t), NEW j \in 1..Len(t), t[i] = t[j] PROVE i = j
    <3>1. \A k \in 1..n : s[k] # b
      BY DEF On
    <3>2. CASE i = 1 \/ j = 1
      BY <1>2, <1>3, <2>1, <3>1, <3>2
    <3>3. CASE i # 1 /\ j # 1
      <4>1. i - 1 = j - 1
        BY <1>3, <2>1, <3>3, SMTT(30) DEF Path
      <4> QED BY <4>1, SMTT(30)
    <3> QED BY <3>2, <3>3
  <2>2. ASSUME NEW i \in 1..Len(t) PROVE l[t[i]] = IF i = Len(t) THEN Null ELSE t[i + 1]
    <3>1. CASE i = 1
      <4>1. h = IF n = 0 THEN Null ELSE s[1]
        BY DEF Path
      <4>2. n # 0 => t[1 + 1] = s[1]
        BY <1>1, <1>2, SMTT(30)
      <4> QED BY <1>1, <1>2, <3>1, <4>1, <4>2, SMTT(30)
    <3>2. CASE i # 1
      <4>1. i - 1 \in 1..n /\ t[i] = s[i - 1]
        BY <1>3, <3>2
      <4>2. l[s[i - 1]] = IF i - 1 = n THEN Null ELSE s[(i - 1) + 1]
        BY <4>1 DEF Path
      <4>3. i - 1 # n => i \in 1..n /\ t[i + 1] = s[i]
        BY <1>1, <1>2, <4>1, SMTT(30)
      <4> QED BY <1>1, <1>2, <4>1, <4>2, <4>3, SMTT(30)
    <3> QED BY <3>1, <3>2
  <2> QED BY <1>1, <1>2, <2>1, <2>2, SMTT(30) DEF Path
<1> QED BY <1>4, <1>5, <1>6 DEF t

(* Steps. *)

(* cpu[c] becomes r. *)
Becomes(c, r) == cpu'[c] = r /\ \A d \in CPU \ {c} : cpu'[d] = cpu[d]

Busy(pc, old, chain, ptr, head) ==
  [pc |-> pc, old |-> old, chain |-> chain, ptr |-> ptr, head |-> head]

LEMMA OthersLocal ==
  ASSUME \A d \in CPU : Mine(d) /\ Alone(d), NEW c \in CPU, NEW r, Becomes(c, r), Mine(c)',
         \A d \in CPU \ {c} :
           /\ cpu[d].pc = "cas" => link'[cpu[d].ptr] = link[cpu[d].ptr]
           /\ cpu[d].old # Null => cpu[d].old \in held' /\ r.old # cpu[d].old
  PROVE  \A d \in CPU : Mine(d)' /\ Alone(d)'
<1>1. ASSUME NEW d \in CPU \ {c} PROVE Mine(d)'
  <2>1. Mine(d) /\ cpu'[d] = cpu[d] /\ d # c
    BY DEF Becomes
  <2>2. /\ cpu[d].pc = "cas" => link'[cpu[d].ptr] = link[cpu[d].ptr]
        /\ cpu[d].old # Null => cpu[d].old \in held'
    OBVIOUS
  <2> QED BY ONLY <2>1, <2>2 DEF Mine
<1>2. ASSUME NEW d \in CPU PROVE Alone(d)'
  BY SMTT(30) DEF Becomes, Alone
<1> QED BY <1>1, <1>2

(* A step that moves no block. *)
LEMMA NothingMoves ==
  ASSUME KInv, UNCHANGED <<owner, free, held, link, pending>>, cpu' \in [CPU -> Local],
         NEW c \in CPU, NEW r, Becomes(c, r), Mine(c)',
         r.chain = cpu[c].chain, r.ptr = cpu[c].ptr,
         \A d \in CPU \ {c} : cpu[d].old # Null => r.old # cpu[d].old
  PROVE  KInv'
<1>1. KTypes'
  BY DEF KInv, KTypes
<1>2. \A d \in CPU : Mine(d)' /\ Alone(d)'
  <2>1. \A d \in CPU : Mine(d) /\ Alone(d)
    BY DEF KInv
  <2>2. \A d \in CPU : cpu[d].old # Null => cpu[d].old \in held
    BY <2>1 DEF Mine
  <2> QED BY <2>1, <2>2, OthersLocal
<1>3. PICK P, F, W, Q : Located(P, F, W, Q)
  BY DEF KInv
<1>4. \A d \in CPU : cpu'[d].chain = cpu[d].chain /\ cpu'[d].ptr = cpu[d].ptr
  BY DEF Becomes
<1>5. Chains(P, F)'
  BY <1>3, <1>4 DEF Located, Chains
<1>6. \A b \in Block : Placed(P, F, W, Q, b)'
  BY <1>3, <1>4, SMTT(30) DEF Located, Placed
<1>7. Located(P, F, W, Q)'
  BY <1>3, <1>5, <1>6 DEF Located, Functions
<1> QED BY <1>1, <1>2, <1>7 DEF KInv

LEMMA LocalTypes ==
  ASSUME KInv, NEW c \in CPU
  PROVE  /\ cpu[c].pc \in PC /\ cpu[c].old \in MaybeBlock /\ cpu[c].chain \in MaybeBlock
         /\ cpu[c].ptr \in MaybeBlock /\ cpu[c].head \in MaybeBlock
         /\ cpu[c] = Busy(cpu[c].pc, cpu[c].old, cpu[c].chain, cpu[c].ptr, cpu[c].head)
         /\ Mine(c) /\ Alone(c)
  BY DEF KInv, KTypes, Local, Busy

LEMMA BusyTypes ==
  ASSUME NEW pc \in PC, NEW old \in MaybeBlock, NEW chain \in MaybeBlock, NEW ptr \in MaybeBlock,
         NEW head \in MaybeBlock
  PROVE  /\ Busy(pc, old, chain, ptr, head) \in Local
         /\ Busy(pc, old, chain, ptr, head).pc = pc
         /\ Busy(pc, old, chain, ptr, head).old = old
         /\ Busy(pc, old, chain, ptr, head).chain = chain
         /\ Busy(pc, old, chain, ptr, head).ptr = ptr
         /\ Busy(pc, old, chain, ptr, head).head = head
  BY DEF Busy, Local

LEMMA BusyRanges ==
  /\ "idle" \in PC /\ "try" \in PC /\ "flush" \in PC /\ "retry" \in PC /\ "last" \in PC
  /\ "load" \in PC /\ "cas" \in PC /\ Null \in MaybeBlock /\ Block \subseteq MaybeBlock
  BY DEF PC, MaybeBlock

LEMMA IdleBusy ==
  /\ Idle = Busy("idle", Null, Null, Null, Null)
  /\ [Idle EXCEPT !.pc = "try"] = Busy("try", Null, Null, Null, Null)
  /\ \A b : [Idle EXCEPT !.pc = "try", !.old = b] = Busy("try", b, Null, Null, Null)
  /\ \A b : [Idle EXCEPT !.pc = "load", !.ptr = b] = Busy("load", Null, Null, b, Null)
<1>1. Idle = Busy("idle", Null, Null, Null, Null)
  BY DEF Idle, Busy
<1>2. [Idle EXCEPT !.pc = "try"] = Busy("try", Null, Null, Null, Null)
  BY SMTT(30) DEF Idle, Busy
<1>3. ASSUME NEW b PROVE [Idle EXCEPT !.pc = "try", !.old = b] = Busy("try", b, Null, Null, Null)
  <2>1. [Idle EXCEPT !.pc = "try", !.old = b] = [[Idle EXCEPT !.pc = "try"] EXCEPT !.old = b]
    BY SMTT(30)
  <2>2. [Busy("try", Null, Null, Null, Null) EXCEPT !.old = b] = Busy("try", b, Null, Null, Null)
    BY SMTT(30) DEF Busy
  <2> QED BY <1>2, <2>1, <2>2
<1>4. ASSUME NEW b PROVE [Idle EXCEPT !.pc = "load", !.ptr = b] = Busy("load", Null, Null, b, Null)
  <2>1. [Idle EXCEPT !.pc = "load", !.ptr = b] = [[Idle EXCEPT !.pc = "load"] EXCEPT !.ptr = b]
    BY SMTT(30)
  <2>2. [Idle EXCEPT !.pc = "load"] = Busy("load", Null, Null, Null, Null)
    BY SMTT(30) DEF Idle, Busy
  <2>3. [Busy("load", Null, Null, Null, Null) EXCEPT !.ptr = b] = Busy("load", Null, Null, b, Null)
    BY SMTT(30) DEF Busy
  <2> QED BY <2>1, <2>2, <2>3
<1> QED BY <1>1, <1>2, <1>3, <1>4

(* The new state of one CPU. *)
LEMMA BecomesBusy ==
  ASSUME KInv, NEW c \in CPU, NEW r \in Local, cpu' = [cpu EXCEPT ![c] = r]
  PROVE  Becomes(c, r) /\ cpu' \in [CPU -> Local]
  BY DEF KInv, KTypes, Becomes

LEMMA AskStep ==
  ASSUME KInv, NEW c \in CPU, kmalloc(c) \/ \E b \in Block : krealloc(c, b)
  PROVE  KInv'
<1>1. PICK b \in MaybeBlock :
        /\ cpu' = [cpu EXCEPT ![c] = Busy("try", b, Null, Null, Null)]
        /\ b # Null => Settled(b)
        /\ cpu[c].pc = "idle" /\ UNCHANGED <<owner, free, held, link, pending>>
  <2>1. CASE kmalloc(c)
    <3>1. cpu' = [cpu EXCEPT ![c] = Busy("try", Null, Null, Null, Null)]
      BY <2>1, IdleBusy DEF kmalloc
    <3> QED BY <2>1, <3>1 DEF kmalloc, At, MaybeBlock
  <2>2. ASSUME NEW b \in Block, krealloc(c, b)
        PROVE  /\ cpu' = [cpu EXCEPT ![c] = Busy("try", b, Null, Null, Null)]
               /\ Settled(b)
               /\ cpu[c].pc = "idle" /\ UNCHANGED <<owner, free, held, link, pending>>
    BY <2>2, IdleBusy DEF krealloc, At
  <2> QED BY <2>1, <2>2 DEF MaybeBlock
<1> DEFINE r == Busy("try", b, Null, Null, Null)
<1>2. /\ r \in Local /\ r.pc = "try" /\ r.old = b /\ r.chain = Null /\ r.ptr = Null
  BY BusyTypes, BusyRanges, SMTT(30)
<1>3. Becomes(c, r) /\ cpu' \in [CPU -> Local]
  BY <1>1, <1>2, BecomesBusy
<1> HIDE DEF r
<1>4. cpu[c].chain = Null /\ cpu[c].ptr = Null
  BY <1>1, LocalTypes DEF Mine
<1>5. Mine(c)'
  BY <1>1, <1>2, <1>3 DEF Mine, Becomes, Settled
<1>6. \A d \in CPU \ {c} : cpu[d].old # Null => r.old # cpu[d].old
  BY <1>1, <1>2 DEF Settled
<1> QED BY <1>1, <1>2, <1>3, <1>4, <1>5, <1>6, NothingMoves

LEMMA QuietStep ==
  ASSUME KInv, NEW c \in CPU, FlushDone(c) \/ Fail(c) \/ PushAgain(c)
  PROVE  KInv'
<1> DEFINE r == IF cpu[c].pc = "flush" THEN Busy("retry", cpu[c].old, Null, Null, cpu[c].head)
                ELSE IF cpu[c].pc = "cas" THEN Busy("load", cpu[c].old, Null, cpu[c].ptr, cpu[c].head)
                ELSE Busy("idle", Null, Null, Null, Null)
<1>1. /\ cpu[c].pc \in PC /\ cpu[c].old \in MaybeBlock /\ cpu[c].chain \in MaybeBlock
      /\ cpu[c].ptr \in MaybeBlock /\ cpu[c].head \in MaybeBlock
      /\ cpu[c] = Busy(cpu[c].pc, cpu[c].old, cpu[c].chain, cpu[c].ptr, cpu[c].head)
      /\ Mine(c) /\ Alone(c)
  BY LocalTypes
<1>2. /\ cpu' = [cpu EXCEPT ![c] = r] /\ cpu[c].pc \in {"flush", "retry", "last", "cas"}
      /\ cpu[c].chain = Null /\ UNCHANGED <<owner, free, held, link, pending>>
  <2>1. CASE FlushDone(c)
    <3>1. cpu[c].pc = "flush" /\ cpu[c].chain = Null /\ cpu[c].ptr = Null
      BY <1>1, <2>1 DEF FlushDone, At, Mine
    <3>2. [cpu[c] EXCEPT !.pc = "retry"] = Busy("retry", cpu[c].old, Null, Null, cpu[c].head)
      BY <1>1, <3>1, SMTT(30) DEF Busy
    <3>3. cpu' = [cpu EXCEPT ![c] = [cpu[c] EXCEPT !.pc = "retry"]]
      BY <2>1 DEF FlushDone, Goto
    <3> QED BY <2>1, <3>1, <3>2, <3>3 DEF FlushDone
  <2>2. CASE PushAgain(c)
    <3>1. cpu[c].pc = "cas" /\ cpu[c].chain = Null
      BY <1>1, <2>2 DEF PushAgain, At, Mine
    <3>2. [cpu[c] EXCEPT !.pc = "load"] = Busy("load", cpu[c].old, Null, cpu[c].ptr, cpu[c].head)
      BY <1>1, <3>1, SMTT(30) DEF Busy
    <3>3. cpu' = [cpu EXCEPT ![c] = [cpu[c] EXCEPT !.pc = "load"]]
      BY <2>2 DEF PushAgain, Goto
    <3> QED BY <2>2, <3>1, <3>2, <3>3 DEF PushAgain
  <2>3. CASE Fail(c)
    <3>1. cpu[c].pc \in {"retry", "last"} /\ cpu[c].chain = Null
      BY <1>1, <2>3 DEF Fail, Mine
    <3>2. Idle = Busy("idle", Null, Null, Null, Null)
      BY DEF Busy, Idle
    <3> QED BY <2>3, <3>1, <3>2 DEF Fail
  <2> QED BY <2>1, <2>2, <2>3
<1>3. /\ r \in Local /\ r.chain = cpu[c].chain /\ r.ptr = cpu[c].ptr
      /\ r.old = IF cpu[c].pc \in {"flush", "cas"} THEN cpu[c].old ELSE Null
      /\ r.pc = IF cpu[c].pc = "flush" THEN "retry" ELSE IF cpu[c].pc = "cas" THEN "load" ELSE "idle"
  <2>1. CASE cpu[c].pc = "flush"
    <3>1. cpu[c].ptr = Null
      BY <1>1, <2>1 DEF Mine
    <3>2. r = Busy("retry", cpu[c].old, Null, Null, cpu[c].head)
      BY <2>1
    <3> HIDE DEF r
    <3>3. /\ r \in Local /\ r.pc = "retry" /\ r.old = cpu[c].old /\ r.chain = Null
          /\ r.ptr = Null
      <4>1. cpu[c].old \in MaybeBlock /\ cpu[c].head \in MaybeBlock
        BY <1>1
      <4>2. Busy("retry", cpu[c].old, Null, Null, cpu[c].head) \in Local
        BY ONLY <4>1, BusyRanges DEF Busy, Local
      <4> QED BY ONLY <3>2, <4>2, SMTT(30) DEF Busy
    <3> QED BY <1>2, <2>1, <3>1, <3>3
  <2>2. CASE cpu[c].pc = "cas"
    <3>1. r = Busy("load", cpu[c].old, Null, cpu[c].ptr, cpu[c].head)
      BY <2>2
    <3> HIDE DEF r
    <3>2. /\ r \in Local /\ r.pc = "load" /\ r.old = cpu[c].old /\ r.chain = Null
          /\ r.ptr = cpu[c].ptr
      <4>1. cpu[c].old \in MaybeBlock /\ cpu[c].head \in MaybeBlock /\ cpu[c].ptr \in MaybeBlock
        BY <1>1
      <4>2. Busy("load", cpu[c].old, Null, cpu[c].ptr, cpu[c].head) \in Local
        BY ONLY <4>1, BusyRanges DEF Busy, Local
      <4> QED BY ONLY <3>1, <4>2, SMTT(30) DEF Busy
    <3> QED BY <1>2, <2>2, <3>2
  <2>3. CASE cpu[c].pc \in {"retry", "last"}
    <3>1. cpu[c].ptr = Null
      BY <1>1, <2>3 DEF Mine
    <3>2. r = Busy("idle", Null, Null, Null, Null)
      BY <2>3
    <3> HIDE DEF r
    <3>3. r \in Local /\ r.pc = "idle" /\ r.old = Null /\ r.chain = Null /\ r.ptr = Null
      BY <3>2, BusyTypes, BusyRanges, SMTT(30)
    <3> QED BY <1>2, <2>3, <3>1, <3>3
  <2> QED BY <1>2, <2>1, <2>2, <2>3
<1> HIDE DEF r
<1>4. Becomes(c, r) /\ cpu' \in [CPU -> Local]
  BY <1>2, <1>3, BecomesBusy
<1>5. Mine(c)'
  <2>1. r.old # Null => r.old \in held /\ r.pc = "retry"
    <3>1. cpu[c].old # Null => cpu[c].old \in held /\ cpu[c].pc # "cas"
      BY <1>1 DEF Mine
    <3>2. cpu[c].pc \in {"retry", "last"} => r.old = Null
      BY <1>2, <1>3
    <3> QED BY <1>2, <1>3, <3>1, <3>2
  <2>2. r.ptr # Null <=> r.pc \in {"load", "cas"}
    <3>1. cpu[c].ptr # Null <=> cpu[c].pc \in {"load", "cas"}
      BY <1>1 DEF Mine
    <3> QED BY <1>2, <1>3, <3>1
  <2> QED BY <1>2, <1>3, <1>4, <2>1, <2>2 DEF Mine, Becomes
<1>6. \A d \in CPU \ {c} : cpu[d].old # Null => r.old # cpu[d].old
  BY <1>3, LocalTypes DEF Alone
<1> QED BY <1>2, <1>3, <1>4, <1>5, <1>6, NothingMoves

(* Block b stays where it is, or moves between places that are not lists. *)
Stays(W, Q, V, R, b) ==
  /\ V[b] = W[b] /\ R[b] = Q[b] /\ owner'[b] = owner[b]
  /\ b \in free' <=> b \in free
  /\ b \in held' <=> b \in held
  /\ \A d \in CPU : cpu'[d].ptr = b <=> cpu[d].ptr = b

Moves(W, V, R, b) ==
  /\ W[b] \notin {"pending", "flush"} /\ V[b] \notin {"pending", "flush"}
  /\ owner'[b] = Null <=> V[b] = "none"
  /\ b \in free' <=> V[b] = "free"
  /\ b \in held' <=> V[b] = "held"
  /\ V[b] = "push" => R[b] \in CPU
  /\ \A d \in CPU : cpu'[d].ptr = b <=> V[b] = "push" /\ R[b] = d

LEMMA Rehoused ==
  ASSUME NEW P, NEW F, NEW W, NEW Q, Located(P, F, W, Q), NEW V, NEW R, Functions(P, F, V, R),
         UNCHANGED <<link, pending>>, \A d \in CPU : cpu'[d].chain = cpu[d].chain,
         \A b \in Block : Stays(W, Q, V, R, b) \/ Moves(W, V, R, b)
  PROVE  Located(P, F, V, R)'
<1>1. Chains(P, F)'
  BY DEF Located, Chains
<1>2. ASSUME NEW b \in Block PROVE Placed(P, F, V, R, b)'
  <2>1. Placed(P, F, W, Q, b)
    BY DEF Located
  <2>2. CASE Stays(W, Q, V, R, b)
    BY <2>1, <2>2 DEF Placed, Stays
  <2>3. CASE Moves(W, V, R, b)
    BY <2>1, <2>3 DEF Placed, Moves
  <2> QED BY <2>2, <2>3
<1> QED BY <1>1, <1>2 DEF Located, Functions

LEMMA Assemble ==
  ASSUME KInv, KTypes', NEW c \in CPU, NEW r, Becomes(c, r), Mine(c)',
         \A d \in CPU \ {c} :
           /\ cpu[d].pc = "cas" => link'[cpu[d].ptr] = link[cpu[d].ptr]
           /\ cpu[d].old # Null => cpu[d].old \in held' /\ r.old # cpu[d].old,
         NEW P, NEW F, NEW W, NEW Q, Located(P, F, W, Q)'
  PROVE  KInv'
<1>1. \A d \in CPU : Mine(d)' /\ Alone(d)'
  BY OthersLocal DEF KInv
<1> QED BY <1>1 DEF KInv

(* tlsf_malloc, tlsf_realloc and kmalloc with kfree: block b goes to the   *)
(* caller, and the old buffer where it is to go.                           *)
LEMMA TakeStep ==
  ASSUME KInv, NEW c \in CPU, cpu[c].pc \in {"try", "retry", "last"}, NEW b \in free, owner[b] = c,
         NEW to \in {"free", "push"}, cpu[c].old = Null => to = "free",
         held' = (held \ {cpu[c].old}) \cup {b},
         free' = (free \ {b}) \cup (IF to = "free" THEN {cpu[c].old} \cap Block ELSE {}),
         cpu' = [cpu EXCEPT ![c] = IF to = "push" THEN Busy("load", Null, Null, cpu[c].old, Null)
                                   ELSE Busy("idle", Null, Null, Null, Null)],
         UNCHANGED <<owner, link, pending>>
  PROVE  KInv'
<1> DEFINE old == cpu[c].old
           r   == IF to = "push" THEN Busy("load", Null, Null, old, Null)
                  ELSE Busy("idle", Null, Null, Null, Null)
<1>1. /\ old \in MaybeBlock /\ Mine(c) /\ Alone(c) /\ cpu[c].chain = Null /\ cpu[c].ptr = Null
      /\ old # Null => old \in held
  BY LocalTypes DEF Mine
<1>2. PICK P, F, W, Q : Located(P, F, W, Q)
  BY DEF KInv
<1>3. Functions(P, F, W, Q) /\ \A x \in Block : Placed(P, F, W, Q, x)
  BY <1>2 DEF Located
<1>4. b \in Block /\ b # old /\ W[b] = "free"
  <2>1. b \in Block
    BY DEF KInv, KTypes
  <2>2. W[b] = "free"
    BY <1>3, <2>1 DEF Placed
  <2>3. b # old
    BY <1>1, <1>3, <2>1, <2>2, KmemAssumption, SMTT(30) DEF Placed
  <2> QED BY <2>1, <2>2, <2>3
<1>5. old # Null => old \in Block /\ W[old] = "held"
  BY <1>1, <1>3 DEF Placed, MaybeBlock
<1>6. /\ r \in Local /\ r.old = Null /\ r.chain = Null
      /\ r.ptr = IF to = "push" THEN old ELSE Null
      /\ r.pc = IF to = "push" THEN "load" ELSE "idle"
  BY <1>1, BusyTypes, BusyRanges, SMTT(30)
<1>7. Becomes(c, r) /\ cpu' \in [CPU -> Local]
  BY <1>6, BecomesBusy
<1> HIDE DEF r
<1>8. KTypes'
  BY <1>4, <1>7 DEF KInv, KTypes
<1>9. Mine(c)'
  BY <1>6, <1>7 DEF Mine, Becomes
<1>10. \A d \in CPU \ {c} :
         /\ cpu[d].pc = "cas" => link'[cpu[d].ptr] = link[cpu[d].ptr]
         /\ cpu[d].old # Null => cpu[d].old \in held' /\ r.old # cpu[d].old
  <2> SUFFICES ASSUME NEW d \in CPU \ {c}, cpu[d].old # Null PROVE cpu[d].old \in held'
    BY <1>6
  <2>1. cpu[d].old \in held /\ cpu[d].old # old
    BY LocalTypes DEF Mine, Alone
  <2> QED BY <2>1
<1>new. PICK V, R :
         /\ V = [x \in Block |-> IF x = b THEN "held" ELSE IF x = old THEN to ELSE W[x]]
         /\ R = [x \in Block |-> IF x = old THEN c ELSE Q[x]]
  OBVIOUS
<1>val. \A x \in Block : /\ V[x] = IF x = b THEN "held" ELSE IF x = old THEN to ELSE W[x]
                        /\ R[x] = IF x = old THEN c ELSE Q[x]
  BY <1>new
<1>11. Functions(P, F, V, R)
  BY <1>3, <1>new DEF Functions
<1>12. \A d \in CPU : cpu'[d].chain = cpu[d].chain
  BY <1>1, <1>6, <1>7 DEF Becomes
<1>13. \A x \in Block, d \in CPU : cpu'[d].ptr = x <=> IF d = c THEN to = "push" /\ x = old
                                                      ELSE cpu[d].ptr = x
  BY <1>6, <1>7, KmemAssumption DEF Becomes
<1>14. ASSUME NEW x \in Block PROVE Stays(W, Q, V, R, x) \/ Moves(W, V, R, x)
  <2>1. Placed(P, F, W, Q, x)
    BY <1>3
  <2>2. CASE x = b
    <3>1. V[x] = "held" /\ W[x] = "free" /\ owner[x] # Null
      BY <1>val, <1>4, <2>1, <2>2 DEF Placed
    <3>2. x \in held' /\ x \notin free'
      BY <1>4, <2>2
    <3>3. \A d \in CPU : cpu'[d].ptr # x
      BY <1>4, <1>13, <2>1, <2>2, SMTT(30) DEF Placed
    <3> QED BY <3>1, <3>2, <3>3 DEF Moves
  <2>3. CASE x = old
    <3>1. V[x] = to /\ R[x] = c /\ W[x] = "held" /\ owner[x] # Null /\ to # "none"
      BY <1>val, <1>3, <1>4, <1>5, <2>1, <2>3, KmemAssumption DEF Placed
    <3>2. x \notin held' /\ (x \in free' <=> to = "free")
      BY <1>4, <2>1, <2>3, <3>1 DEF Placed
    <3>3. \A d \in CPU : cpu'[d].ptr = x <=> to = "push" /\ d = c
      BY <1>13, <2>1, <2>3, <3>1, SMTT(30) DEF Placed
    <3> QED BY <3>1, <3>2, <3>3 DEF Moves
  <2>4. CASE x # b /\ x # old
    <3>1. V[x] = W[x] /\ R[x] = Q[x]
      BY <1>val, <2>4
    <3>2. (x \in free' <=> x \in free) /\ (x \in held' <=> x \in held)
      BY <2>4
    <3>3. \A d \in CPU : cpu'[d].ptr = x <=> cpu[d].ptr = x
      BY <1>1, <1>13, <2>4, KmemAssumption, SMTT(30)
    <3> QED BY <3>1, <3>2, <3>3 DEF Stays
  <2> QED BY <2>2, <2>3, <2>4
<1>15. Located(P, F, V, R)'
  BY <1>2, <1>11, <1>12, <1>14, Rehoused
<1> QED BY <1>7, <1>8, <1>9, <1>10, <1>15, Assemble

LEMMA SucceedStep ==
  ASSUME KInv, NEW c \in CPU, Succeed(c)
  PROVE  KInv'
<1> DEFINE old == cpu[c].old
<1>1. /\ cpu[c].pc \in {"try", "retry", "last"} /\ UNCHANGED <<owner, link, pending>>
      /\ old \in MaybeBlock /\ Mine(c) /\ Alone(c) /\ cpu[c].chain = Null /\ cpu[c].ptr = Null
  BY LocalTypes DEF Succeed, Mine
<1>2. /\ Idle = Busy("idle", Null, Null, Null, Null)
      /\ [Idle EXCEPT !.pc = "load", !.ptr = old] = Busy("load", Null, Null, old, Null)
  BY IdleBusy
<1>3. CASE old = Null /\ Malloc(c) /\ cpu' = [cpu EXCEPT ![c] = Idle]
  <2>1. PICK b \in free : owner[b] = c /\ free' = free \ {b} /\ held' = held \cup {b}
    BY <1>3 DEF Malloc
  <2>2. Null \notin Block /\ Null \notin held
    BY KmemAssumption DEF KInv, KTypes
  <2>3. held' = (held \ {old}) \cup {b} /\ free' = (free \ {b}) \cup ({old} \cap Block)
    BY <1>3, <2>1, <2>2
  <2> QED BY <1>1, <1>2, <1>3, <2>1, <2>3, TakeStep
<1>4. CASE old # Null /\ Realloc(c, old) /\ cpu' = [cpu EXCEPT ![c] = Idle]
  <2>1. CASE UNCHANGED <<free, held>>
    <3> DEFINE r == Busy("idle", Null, Null, Null, Null)
    <3>1. r \in Local /\ r.pc = "idle" /\ r.old = Null /\ r.chain = Null /\ r.ptr = Null
      BY BusyTypes, BusyRanges, SMTT(30)
    <3>2. Becomes(c, r) /\ cpu' \in [CPU -> Local]
      BY <1>2, <1>4, <3>1, BecomesBusy
    <3> HIDE DEF r
    <3>3. Mine(c)'
      BY <3>1, <3>2 DEF Mine, Becomes
    <3> QED BY <1>1, <2>1, <3>1, <3>2, <3>3, NothingMoves
  <2>2. ASSUME NEW b \in free, owner[b] = c, free' = (free \ {b}) \cup {old},
               held' = (held \ {old}) \cup {b}
        PROVE  KInv'
    <3>1. {old} \cap Block = {old}
      BY <1>1, <1>4 DEF MaybeBlock
    <3> QED BY <1>1, <1>2, <1>4, <2>2, <3>1, TakeStep
  <2> QED BY <1>4, <2>1, <2>2 DEF Realloc
<1>5. CASE /\ old # Null /\ Replace(c, old)
           /\ cpu' = [cpu EXCEPT ![c] = [Idle EXCEPT !.pc = "load", !.ptr = old]]
  <2>1. PICK b \in free : owner[b] = c /\ free' = free \ {b} /\ held' = (held \ {old}) \cup {b}
    BY <1>5 DEF Replace
  <2>2. free' = (free \ {b}) \cup {}
    BY <2>1
  <2> QED BY <1>1, <1>2, <1>5, <2>1, <2>2, TakeStep
<1> QED BY <1>3, <1>4, <1>5 DEF Succeed

LEMMA FreeLocalStep ==
  ASSUME KInv, NEW c \in CPU, NEW b \in Block, FreeLocal(c, b)
  PROVE  KInv'
<1>1. /\ Settled(b) /\ held' = held \ {b} /\ free' = free \cup {b}
      /\ UNCHANGED <<owner, link, pending, cpu>>
  BY DEF FreeLocal
<1>2. PICK P, F, W, Q : Located(P, F, W, Q)
  BY DEF KInv
<1>3. Functions(P, F, W, Q) /\ \A x \in Block : Placed(P, F, W, Q, x)
  BY <1>2 DEF Located
<1>4. KTypes' /\ Becomes(c, cpu[c])
  BY <1>1 DEF KInv, KTypes, Becomes
<1>5. Mine(c)'
  BY <1>1, LocalTypes DEF Mine, Settled
<1>6. \A d \in CPU \ {c} :
        /\ cpu[d].pc = "cas" => link'[cpu[d].ptr] = link[cpu[d].ptr]
        /\ cpu[d].old # Null => cpu[d].old \in held' /\ cpu[c].old # cpu[d].old
  BY <1>1, LocalTypes DEF Mine, Settled, Alone
<1> DEFINE V == [W EXCEPT ![b] = "free"]
<1>7. Functions(P, F, V, Q)
  BY <1>3 DEF Functions
<1>8. ASSUME NEW x \in Block PROVE Stays(W, Q, V, Q, x) \/ Moves(W, V, Q, x)
  <2>1. Placed(P, F, W, Q, x) /\ V[x] = IF x = b THEN "free" ELSE W[x]
    BY <1>3 DEF Functions
  <2>2. CASE x = b
    <3>1. W[x] = "held"
      BY <1>1, <2>1, <2>2 DEF Placed, Settled
    <3> QED BY <1>1, <2>1, <2>2, <3>1, SMTT(30) DEF Placed, Moves
  <2>3. CASE x # b
    BY <1>1, <2>1, <2>3 DEF Stays
  <2> QED BY <2>2, <2>3
<1> HIDE DEF V
<1>9. Located(P, F, V, Q)'
  BY <1>1, <1>2, <1>7, <1>8, Rehoused
<1> QED BY <1>4, <1>5, <1>6, <1>9, Assemble

LEMMA FreeRemoteStep ==
  ASSUME KInv, NEW c \in CPU, NEW b \in Block, FreeRemote(c, b)
  PROVE  KInv'
<1> DEFINE r == Busy("load", Null, Null, b, Null)
<1>1. /\ Settled(b) /\ cpu[c].pc = "idle" /\ held' = held \ {b}
      /\ UNCHANGED <<owner, free, link, pending>> /\ cpu' = [cpu EXCEPT ![c] = r]
  BY IdleBusy DEF FreeRemote, At
<1>2. PICK P, F, W, Q : Located(P, F, W, Q)
  BY DEF KInv
<1>3. Functions(P, F, W, Q) /\ \A x \in Block : Placed(P, F, W, Q, x)
  BY <1>2 DEF Located
<1>4. cpu[c].ptr = Null /\ cpu[c].chain = Null
  BY <1>1, LocalTypes DEF Mine
<1>5. r \in Local /\ r.pc = "load" /\ r.old = Null /\ r.chain = Null /\ r.ptr = b
  BY BusyTypes, BusyRanges, SMTT(30)
<1>6. Becomes(c, r) /\ cpu' \in [CPU -> Local]
  BY <1>1, <1>5, BecomesBusy
<1> HIDE DEF r
<1>7. KTypes'
  BY <1>1, <1>6 DEF KInv, KTypes
<1>8. Mine(c)'
  BY <1>5, <1>6, KmemAssumption DEF Mine, Becomes
<1>9. \A d \in CPU \ {c} :
        /\ cpu[d].pc = "cas" => link'[cpu[d].ptr] = link[cpu[d].ptr]
        /\ cpu[d].old # Null => cpu[d].old \in held' /\ r.old # cpu[d].old
  BY <1>1, <1>5, LocalTypes DEF Mine, Settled
<1> DEFINE V == [W EXCEPT ![b] = "push"]
           R == [Q EXCEPT ![b] = c]
<1>10. Functions(P, F, V, R)
  BY <1>3 DEF Functions
<1>11. \A d \in CPU : cpu'[d].chain = cpu[d].chain
  BY <1>4, <1>5, <1>6 DEF Becomes
<1>12. \A x \in Block, d \in CPU : cpu'[d].ptr = x <=> IF d = c THEN x = b ELSE cpu[d].ptr = x
  BY <1>5, <1>6 DEF Becomes
<1>13. ASSUME NEW x \in Block PROVE Stays(W, Q, V, R, x) \/ Moves(W, V, R, x)
  <2>1. /\ Placed(P, F, W, Q, x) /\ V[x] = IF x = b THEN "push" ELSE W[x]
        /\ R[x] = IF x = b THEN c ELSE Q[x]
    BY <1>3 DEF Functions
  <2>2. CASE x = b
    <3>1. W[x] = "held"
      BY <1>1, <2>1, <2>2 DEF Placed, Settled
    <3> QED BY <1>1, <1>12, <2>1, <2>2, <3>1, SMTT(30) DEF Placed, Moves
  <2>3. CASE x # b
    BY <1>1, <1>4, <1>12, <2>1, <2>3, KmemAssumption, SMTT(30) DEF Stays
  <2> QED BY <2>2, <2>3
<1> HIDE DEF V, R
<1>14. Located(P, F, V, R)'
  BY <1>1, <1>2, <1>10, <1>11, <1>13, Rehoused
<1> QED BY <1>6, <1>7, <1>8, <1>9, <1>14, Assemble

LEMMA GrowStep ==
  ASSUME KInv, NEW c \in CPU, Grow(c)
  PROVE  KInv'
<1>1. PICK b \in Block : owner[b] = Null /\ owner' = [owner EXCEPT ![b] = c] /\ free' = free \cup {b}
  BY DEF Grow
<1> DEFINE r == Busy("last", cpu[c].old, Null, Null, cpu[c].head)
<1>2. /\ cpu[c].old \in MaybeBlock /\ cpu[c].head \in MaybeBlock /\ Mine(c) /\ Alone(c)
      /\ cpu[c].pc = "retry" /\ cpu[c].ptr = Null /\ cpu[c].chain = Null
  BY LocalTypes DEF Grow, At, Mine
<1>3. cpu' = [cpu EXCEPT ![c] = r] /\ UNCHANGED <<held, link, pending>>
  <2>1. cpu[c] = Busy("retry", cpu[c].old, Null, Null, cpu[c].head)
    BY <1>2, LocalTypes
  <2>2. [cpu[c] EXCEPT !.pc = "last"] = r
    BY <2>1, SMTT(30) DEF Busy
  <2>3. cpu' = [cpu EXCEPT ![c] = [cpu[c] EXCEPT !.pc = "last"]]
    BY DEF Grow, Goto
  <2> QED BY <2>2, <2>3 DEF Grow
<1>4. PICK P, F, W, Q : Located(P, F, W, Q)
  BY DEF KInv
<1>5. Functions(P, F, W, Q) /\ \A x \in Block : Placed(P, F, W, Q, x)
  BY <1>4 DEF Located
<1>6. r \in Local /\ r.pc = "last" /\ r.old = cpu[c].old /\ r.chain = Null /\ r.ptr = Null
  <2>1. r \in Local
    BY <1>2, BusyRanges DEF Busy, Local
  <2> QED BY <2>1, SMTT(30) DEF Busy
<1>7. Becomes(c, r) /\ cpu' \in [CPU -> Local]
  BY <1>3, <1>6, BecomesBusy
<1> HIDE DEF r
<1>8. owner' \in [Block -> CPU \cup {Null}] /\ \A x \in Block : owner'[x] = IF x = b THEN c ELSE owner[x]
  BY <1>1 DEF KInv, KTypes
<1>9. KTypes'
  BY <1>1, <1>3, <1>7, <1>8 DEF KInv, KTypes
<1>10. Mine(c)'
  BY <1>2, <1>3, <1>6, <1>7 DEF Mine, Becomes
<1>11. \A d \in CPU \ {c} :
         /\ cpu[d].pc = "cas" => link'[cpu[d].ptr] = link[cpu[d].ptr]
         /\ cpu[d].old # Null => cpu[d].old \in held' /\ r.old # cpu[d].old
  BY <1>3, <1>6, LocalTypes DEF Mine, Alone
<1> DEFINE V == [W EXCEPT ![b] = "free"]
<1>12. Functions(P, F, V, Q)
  BY <1>5 DEF Functions
<1>13. \A d \in CPU : cpu'[d].chain = cpu[d].chain /\ cpu'[d].ptr = cpu[d].ptr
  BY <1>2, <1>6, <1>7 DEF Becomes
<1>14. ASSUME NEW x \in Block PROVE Stays(W, Q, V, Q, x) \/ Moves(W, V, Q, x)
  <2>1. Placed(P, F, W, Q, x) /\ V[x] = IF x = b THEN "free" ELSE W[x]
    BY <1>5 DEF Functions
  <2>2. CASE x = b
    <3>1. W[x] = "none" /\ owner'[x] # Null
      BY <1>1, <1>8, <2>1, <2>2, KmemAssumption DEF Placed
    <3>2. x \in free' /\ x \notin held' /\ \A d \in CPU : cpu'[d].ptr # x
      BY <1>1, <1>3, <1>13, <2>1, <2>2, <3>1 DEF Placed
    <3> QED BY <2>1, <2>2, <3>1, <3>2, SMTT(30) DEF Moves
  <2>3. CASE x # b
    BY <1>1, <1>3, <1>8, <1>13, <2>1, <2>3 DEF Stays
  <2> QED BY <2>2, <2>3
<1> HIDE DEF V
<1>15. Located(P, F, V, Q)'
  BY <1>3, <1>4, <1>12, <1>13, <1>14, Rehoused
<1> QED BY <1>7, <1>9, <1>10, <1>11, <1>15, Assemble

(* The owner takes its pending list over. *)
LEMMA ExchangeStep ==
  ASSUME KInv, NEW c \in CPU, Exchange(c)
  PROVE  KInv'
<1> DEFINE r == Busy("flush", cpu[c].old, pending[c], Null, cpu[c].head)
<1>1. /\ cpu[c].old \in MaybeBlock /\ cpu[c].head \in MaybeBlock /\ Mine(c) /\ Alone(c)
      /\ cpu[c].pc = "try" /\ cpu[c].ptr = Null /\ cpu[c].chain = Null
  BY LocalTypes DEF Exchange, At, Mine
<1>2. /\ pending' = [pending EXCEPT ![c] = Null] /\ cpu' = [cpu EXCEPT ![c] = r]
      /\ UNCHANGED <<owner, free, held, link>> /\ pending \in [CPU -> MaybeBlock]
  <2>1. cpu[c] = Busy("try", cpu[c].old, Null, Null, cpu[c].head)
    BY <1>1, LocalTypes
  <2>2. [cpu[c] EXCEPT !.pc = "flush", !.chain = pending[c]] = r
    <3>1. [cpu[c] EXCEPT !.pc = "flush", !.chain = pending[c]]
            = [[cpu[c] EXCEPT !.pc = "flush"] EXCEPT !.chain = pending[c]]
      BY SMTT(30)
    <3>2. [cpu[c] EXCEPT !.pc = "flush"] = Busy("flush", cpu[c].old, Null, Null, cpu[c].head)
      BY <2>1, SMTT(30) DEF Busy
    <3>3. [Busy("flush", cpu[c].old, Null, Null, cpu[c].head) EXCEPT !.chain = pending[c]] = r
      BY SMTT(30) DEF Busy
    <3> QED BY <3>1, <3>2, <3>3
  <2>3. cpu' = [cpu EXCEPT ![c] = [cpu[c] EXCEPT !.pc = "flush", !.chain = pending[c]]]
    BY DEF Exchange, KInv, KTypes, Local
  <2> QED BY <2>2, <2>3 DEF Exchange, KInv, KTypes
<1>3. PICK P, F, W, Q : Located(P, F, W, Q)
  BY DEF KInv
<1>4. /\ P \in [CPU -> Seq(Block)] /\ F \in [CPU -> Seq(Block)] /\ Functions(P, F, W, Q)
      /\ \A x \in Block : Placed(P, F, W, Q, x)
      /\ \A d \in CPU : Path(link, pending[d], P[d]) /\ Path(link, cpu[d].chain, F[d])
  BY <1>3 DEF Located, Functions, Chains
<1>5. pending[c] \in MaybeBlock
  BY <1>2
<1>6. /\ r \in Local /\ r.pc = "flush" /\ r.old = cpu[c].old /\ r.chain = pending[c]
      /\ r.ptr = Null
  <2>1. r \in Local
    BY <1>1, <1>5, BusyRanges DEF Busy, Local
  <2> QED BY <2>1, SMTT(30) DEF Busy
<1>7. Becomes(c, r) /\ cpu' \in [CPU -> Local]
  BY <1>2, <1>6, BecomesBusy
<1> HIDE DEF r
<1>8. \A d \in CPU : pending'[d] = IF d = c THEN Null ELSE pending[d]
  BY <1>2
<1>9. KTypes'
  BY <1>2, <1>7 DEF KInv, KTypes, MaybeBlock
<1>10. Mine(c)'
  BY <1>1, <1>2, <1>6, <1>7 DEF Mine, Becomes
<1>11. \A d \in CPU \ {c} :
         /\ cpu[d].pc = "cas" => link'[cpu[d].ptr] = link[cpu[d].ptr]
         /\ cpu[d].old # Null => cpu[d].old \in held' /\ r.old # cpu[d].old
  BY <1>2, <1>6, LocalTypes DEF Mine, Alone
<1> DEFINE P2 == [P EXCEPT ![c] = <<>>]
           F2 == [F EXCEPT ![c] = P[c]]
<1>new. PICK V : V = [x \in Block |-> IF W[x] = "pending" /\ owner[x] = c THEN "flush" ELSE W[x]]
  OBVIOUS
<1>12. /\ P2 \in [CPU -> Seq(Block)] /\ \A d \in CPU : P2[d] = IF d = c THEN <<>> ELSE P[d]
       /\ F2 \in [CPU -> Seq(Block)] /\ \A d \in CPU : F2[d] = IF d = c THEN P[c] ELSE F[d]
  BY <1>4, SMTT(30)
<1>13. Functions(P2, F2, V, Q)
  BY <1>new, <1>4, <1>12 DEF Functions
<1>14. Path(link, Null, <<>>) /\ \A x : ~On(<<>>, x)
  BY PathEmpty
<1>15. \A x : ~On(F[c], x)
  BY <1>1, <1>4, PathNull
<1>16. Chains(P2, F2)'
  BY <1>2, <1>4, <1>6, <1>7, <1>8, <1>12, <1>14 DEF Chains, Becomes
<1>17. \A d \in CPU : cpu'[d].ptr = cpu[d].ptr
  BY <1>1, <1>6, <1>7 DEF Becomes
<1>18. ASSUME NEW x \in Block PROVE Placed(P2, F2, V, Q, x)'
  <2>1. Placed(P, F, W, Q, x) /\ V[x] = IF W[x] = "pending" /\ owner[x] = c THEN "flush" ELSE W[x]
    BY <1>new, <1>4
  <2> HIDE DEF P2, F2
  <2>2. ASSUME NEW d \in CPU
        PROVE  /\ On(P2[d], x) <=> V[x] = "pending" /\ owner[x] = d
               /\ On(F2[d], x) <=> V[x] = "flush" /\ owner[x] = d
    BY <1>12, <1>14, <1>15, <2>1 DEF Placed
  <2> QED BY <1>2, <1>17, <2>1, <2>2 DEF Placed
<1>19. Located(P2, F2, V, Q)'
  BY <1>13, <1>16, <1>18 DEF Located, Functions
<1> QED BY <1>7, <1>9, <1>10, <1>11, <1>19, Assemble

(* tlsf_flush_pending frees the first block of its chain. *)
LEMMA FlushStep ==
  ASSUME KInv, NEW c \in CPU, FlushOne(c)
  PROVE  KInv'
<1> DEFINE b == cpu[c].chain
           r == Busy("flush", cpu[c].old, link[b], Null, cpu[c].head)
<1>1. /\ cpu[c].old \in MaybeBlock /\ cpu[c].head \in MaybeBlock /\ Mine(c) /\ Alone(c)
      /\ cpu[c].pc = "flush" /\ cpu[c].ptr = Null /\ b # Null /\ b \in Block
  BY LocalTypes DEF FlushOne, At, Mine, MaybeBlock
<1>2. /\ free' = free \cup {b} /\ link' = [link EXCEPT ![b] = "heap"]
      /\ cpu' = [cpu EXCEPT ![c] = r] /\ UNCHANGED <<owner, held, pending>>
      /\ link \in [Block -> Block \cup {Null, "heap"}]
  <2>1. cpu[c] = Busy("flush", cpu[c].old, b, Null, cpu[c].head)
    BY <1>1, LocalTypes
  <2>2. [cpu[c] EXCEPT !.chain = link[b]] = r
    BY <2>1, SMTT(30) DEF Busy
  <2>3. cpu' = [cpu EXCEPT ![c] = [cpu[c] EXCEPT !.chain = link[b]]]
    BY DEF FlushOne, Following
  <2> QED BY <2>2, <2>3 DEF FlushOne, KInv, KTypes
<1>3. PICK P, F, W, Q : Located(P, F, W, Q)
  BY DEF KInv
<1>4. /\ P \in [CPU -> Seq(Block)] /\ F \in [CPU -> Seq(Block)] /\ Functions(P, F, W, Q)
      /\ \A x \in Block : Placed(P, F, W, Q, x)
      /\ \A d \in CPU : Path(link, pending[d], P[d]) /\ Path(link, cpu[d].chain, F[d])
  BY <1>3 DEF Located, Functions, Chains
<1>5. /\ Path(link, link[b], Tail(F[c])) /\ On(F[c], b) /\ ~On(Tail(F[c]), b)
      /\ \A x : x # b => (On(Tail(F[c]), x) <=> On(F[c], x))
  <2>1. Path(link, b, F[c]) /\ b # Null
    BY <1>1, <1>4
  <2> HIDE DEF b
  <2> QED BY <2>1, PathTail
<1>6. link[b] \in MaybeBlock
  <2>1. \A i \in 1..Len(Tail(F[c])) : Tail(F[c])[i] \in Block
    BY <1>5, SMTT(30) DEF Path
  <2>2. Len(Tail(F[c])) \in Nat
    BY <1>5, SMTT(30) DEF Path
  <2>3. link[b] = IF Len(Tail(F[c])) = 0 THEN Null ELSE Tail(F[c])[1]
    BY <1>5 DEF Path
  <2>4. \A n \in Nat : n # 0 => 1 \in 1..n
    BY SMTT(30)
  <2> QED BY <2>1, <2>2, <2>3, <2>4 DEF MaybeBlock
<1>7. W[b] = "flush" /\ owner[b] = c
  BY <1>1, <1>4, <1>5 DEF Placed
<1>8. /\ r \in Local /\ r.pc = "flush" /\ r.old = cpu[c].old /\ r.chain = link[b]
      /\ r.ptr = Null
  <2>1. r \in Local
    BY <1>1, <1>6, BusyRanges DEF Busy, Local
  <2> QED BY <2>1, SMTT(30) DEF Busy
<1>9. Becomes(c, r) /\ cpu' \in [CPU -> Local]
  BY <1>2, <1>8, BecomesBusy
<1> HIDE DEF r
<1>10. link' \in [Block -> Block \cup {Null, "heap"}] /\ \A x \in Block : x # b => link'[x] = link[x]
  BY <1>2
<1>11. KTypes'
  BY <1>1, <1>2, <1>9, <1>10 DEF KInv, KTypes
<1>12. Mine(c)'
  BY <1>1, <1>2, <1>8, <1>9 DEF Mine, Becomes
<1>13. \A d \in CPU \ {c} :
         /\ cpu[d].pc = "cas" => link'[cpu[d].ptr] = link[cpu[d].ptr]
         /\ cpu[d].old # Null => cpu[d].old \in held' /\ r.old # cpu[d].old
  <2>1. \A d \in CPU : cpu[d].ptr # b
    BY <1>1, <1>4, <1>7 DEF Placed
  <2>2. \A d \in CPU : cpu[d].pc = "cas" => cpu[d].ptr \in Block
    BY LocalTypes DEF Mine, MaybeBlock
  <2>3. \A d \in CPU \ {c} : cpu[d].old # Null => cpu[d].old \in held /\ cpu[c].old # cpu[d].old
    BY LocalTypes DEF Mine, Alone
  <2> QED BY <1>2, <1>8, <1>10, <2>1, <2>2, <2>3
<1> DEFINE F2 == [F EXCEPT ![c] = Tail(F[c])]
<1>new. PICK V : V = [W EXCEPT ![b] = "free"]
  OBVIOUS
<1>14. F2 \in [CPU -> Seq(Block)] /\ \A d \in CPU : F2[d] = IF d = c THEN Tail(F[c]) ELSE F[d]
  BY <1>4, <1>5 DEF Path
<1>15. Functions(P, F2, V, Q) /\ \A x \in Block : V[x] = IF x = b THEN "free" ELSE W[x]
  BY <1>new, <1>1, <1>4, <1>14 DEF Functions
<1> HIDE DEF F2, b
<1>16. ASSUME NEW d \in CPU PROVE ~On(P[d], b) /\ ~On(F2[d], b)
  BY <1>1, <1>4, <1>5, <1>7, <1>14 DEF Placed
<1>17. Chains(P, F2)'
  <2>1. ASSUME NEW d \in CPU PROVE Path(link', pending[d], P[d])
    BY <1>4, <1>10, <1>16, PathSame
  <2>2. ASSUME NEW d \in CPU PROVE Path(link', cpu'[d].chain, F2[d])
    <3>1. Path(link, cpu'[d].chain, F2[d])
      BY <1>4, <1>5, <1>8, <1>9, <1>14 DEF Becomes
    <3> QED BY <1>10, <1>16, <3>1, PathSame
  <2> QED BY <1>2, <2>1, <2>2 DEF Chains
<1>18. \A d \in CPU : cpu'[d].ptr = cpu[d].ptr
  BY <1>1, <1>8, <1>9 DEF Becomes
<1>19. ASSUME NEW x \in Block PROVE Placed(P, F2, V, Q, x)'
  <2>1. Placed(P, F, W, Q, x)
    BY <1>4
  <2>2. CASE x = b
    <3>1. V[x] = "free" /\ x \in free' /\ owner[x] # Null /\ x \notin held
      BY <1>2, <1>7, <1>15, <2>1, <2>2 DEF Placed
    <3>2. \A d \in CPU : ~On(P[d], x) /\ ~On(F2[d], x) /\ cpu'[d].ptr # x
      BY <1>7, <1>16, <1>18, <2>1, <2>2 DEF Placed
    <3> QED BY <1>2, <3>1, <3>2 DEF Placed
  <2>3. CASE x # b
    <3>1. V[x] = W[x] /\ (x \in free' <=> x \in free)
      BY <1>2, <1>15, <2>3
    <3>2. \A d \in CPU : On(F2[d], x) <=> On(F[d], x)
      BY <1>5, <1>14, <2>3
    <3> QED BY <1>2, <1>18, <2>1, <3>1, <3>2, SMTT(30) DEF Placed
  <2> QED BY <2>2, <2>3
<1>20. Located(P, F2, V, Q)'
  BY <1>15, <1>17, <1>19 DEF Located, Functions
<1> QED BY <1>9, <1>11, <1>12, <1>13, <1>20, Assemble

(* The block that is pushed is linked to what the head of the list was. *)
LEMMA PushLoadStep ==
  ASSUME KInv, NEW c \in CPU, PushLoad(c)
  PROVE  KInv'
<1> DEFINE b == cpu[c].ptr
           h == pending[owner[b]]
           r == Busy("cas", cpu[c].old, Null, b, h)
<1>1. /\ cpu[c].old \in MaybeBlock /\ Mine(c) /\ Alone(c)
      /\ cpu[c].pc = "load" /\ cpu[c].chain = Null /\ b # Null /\ b \in Block
  BY LocalTypes DEF PushLoad, At, Mine, MaybeBlock
<1>2. cpu[c].old = Null
  BY <1>1 DEF Mine
<1>3. PICK P, F, W, Q : Located(P, F, W, Q)
  BY DEF KInv
<1>4. /\ Functions(P, F, W, Q)
      /\ \A x \in Block : Placed(P, F, W, Q, x)
      /\ \A d \in CPU : Path(link, pending[d], P[d]) /\ Path(link, cpu[d].chain, F[d])
  BY <1>3 DEF Located, Chains
<1>5. W[b] = "push" /\ owner[b] \in CPU /\ h \in MaybeBlock
  <2>1. W[b] = "push"
    BY <1>1, <1>4 DEF Placed
  <2>2. owner[b] \in CPU
    BY <1>1, <1>4, <2>1, SMTT(30) DEF Placed, KInv, KTypes
  <2> QED BY <2>1, <2>2 DEF KInv, KTypes
<1>6. /\ link' = [link EXCEPT ![b] = h] /\ cpu' = [cpu EXCEPT ![c] = r]
      /\ UNCHANGED <<owner, free, held, pending>>
      /\ link \in [Block -> Block \cup {Null, "heap"}]
  <2>1. cpu[c] = Busy("load", cpu[c].old, Null, b, cpu[c].head)
    BY <1>1, LocalTypes
  <2>2. [cpu[c] EXCEPT !.pc = "cas", !.head = h] = r
    <3>1. [cpu[c] EXCEPT !.pc = "cas", !.head = h] = [[cpu[c] EXCEPT !.pc = "cas"] EXCEPT !.head = h]
      BY SMTT(30)
    <3>2. [cpu[c] EXCEPT !.pc = "cas"] = Busy("cas", cpu[c].old, Null, b, cpu[c].head)
      BY <2>1, SMTT(30) DEF Busy
    <3>3. [Busy("cas", cpu[c].old, Null, b, cpu[c].head) EXCEPT !.head = h] = r
      BY SMTT(30) DEF Busy
    <3> QED BY <3>1, <3>2, <3>3
  <2>3. cpu' = [cpu EXCEPT ![c] = [cpu[c] EXCEPT !.pc = "cas", !.head = h]]
    BY DEF PushLoad, KInv, KTypes, Local
  <2> QED BY <2>2, <2>3 DEF PushLoad, KInv, KTypes
<1>7. /\ r \in Local /\ r.pc = "cas" /\ r.old = cpu[c].old /\ r.chain = Null
      /\ r.ptr = b /\ r.head = h
  <2>1. r \in Local
    BY <1>1, <1>5, BusyRanges DEF Busy, Local
  <2> QED BY <2>1, SMTT(30) DEF Busy
<1>8. Becomes(c, r) /\ cpu' \in [CPU -> Local]
  BY <1>6, <1>7, BecomesBusy
<1> HIDE DEF r
<1>9. /\ link' \in [Block -> Block \cup {Null, "heap"}] /\ link'[b] = h
      /\ \A x \in Block : x # b => link'[x] = link[x]
  BY <1>1, <1>5, <1>6 DEF MaybeBlock
<1>10. KTypes'
  BY <1>6, <1>8, <1>9 DEF KInv, KTypes
<1>11. Mine(c)'
  BY <1>1, <1>2, <1>7, <1>8, <1>9 DEF Mine, Becomes
<1>12. \A d \in CPU \ {c} :
         /\ cpu[d].pc = "cas" => link'[cpu[d].ptr] = link[cpu[d].ptr]
         /\ cpu[d].old # Null => cpu[d].old \in held' /\ r.old # cpu[d].old
  <2>1. \A d \in CPU \ {c} : cpu[d].ptr # b
    BY <1>1, <1>4, SMTT(30) DEF Placed
  <2>2. \A d \in CPU : cpu[d].pc = "cas" => cpu[d].ptr \in Block
    BY LocalTypes DEF Mine, MaybeBlock
  <2>3. \A d \in CPU : cpu[d].old # Null => cpu[d].old \in held
    BY LocalTypes DEF Mine
  <2> QED BY <1>2, <1>6, <1>7, <1>9, <2>1, <2>2, <2>3
<1> HIDE DEF b, h
<1>13. \A d \in CPU : ~On(P[d], b) /\ ~On(F[d], b)
  BY <1>1, <1>4, <1>5 DEF Placed
<1>14. \A d \in CPU : cpu'[d].chain = cpu[d].chain /\ cpu'[d].ptr = cpu[d].ptr
  BY <1>1, <1>7, <1>8 DEF Becomes, b
<1>15. Chains(P, F)'
  <2>1. ASSUME NEW d \in CPU PROVE Path(link', pending[d], P[d]) /\ Path(link', cpu[d].chain, F[d])
    BY <1>4, <1>9, <1>13, PathSame
  <2> QED BY <1>6, <1>14, <2>1 DEF Chains
<1>16. ASSUME NEW x \in Block PROVE Placed(P, F, W, Q, x)'
  BY <1>4, <1>6, <1>14, SMTT(30) DEF Placed
<1>17. Located(P, F, W, Q)'
  BY <1>4, <1>15, <1>16 DEF Located, Functions
<1> QED BY <1>8, <1>10, <1>11, <1>12, <1>17, Assemble

(* The exchange succeeds while the head is the one the block is linked to, *)
(* whatever was pushed and flushed in between.                             *)
LEMMA PushCasStep ==
  ASSUME KInv, NEW c \in CPU, PushCas(c)
  PROVE  KInv'
<1> DEFINE b == cpu[c].ptr
           o == owner[b]
           r == Busy("idle", Null, Null, Null, Null)
<1>1. /\ Mine(c) /\ Alone(c) /\ cpu[c].pc = "cas" /\ cpu[c].chain = Null /\ b # Null /\ b \in Block
      /\ link[b] = cpu[c].head /\ pending[o] = cpu[c].head
  BY LocalTypes DEF PushCas, At, Mine, MaybeBlock, Unchanged
<1>2. /\ pending' = [pending EXCEPT ![o] = b] /\ cpu' = [cpu EXCEPT ![c] = r]
      /\ UNCHANGED <<owner, free, held, link>> /\ pending \in [CPU -> MaybeBlock]
  BY IdleBusy DEF PushCas, KInv, KTypes
<1>3. PICK P, F, W, Q : Located(P, F, W, Q)
  BY DEF KInv
<1>4. /\ P \in [CPU -> Seq(Block)] /\ F \in [CPU -> Seq(Block)] /\ Functions(P, F, W, Q)
      /\ \A x \in Block : Placed(P, F, W, Q, x)
      /\ \A d \in CPU : Path(link, pending[d], P[d]) /\ Path(link, cpu[d].chain, F[d])
  BY <1>3 DEF Located, Functions, Chains
<1>5. W[b] = "push" /\ o \in CPU
  <2>1. W[b] = "push"
    BY <1>1, <1>4 DEF Placed
  <2> QED BY <1>1, <1>4, <2>1, SMTT(30) DEF Placed, KInv, KTypes
<1>6. r \in Local /\ r.pc = "idle" /\ r.old = Null /\ r.chain = Null /\ r.ptr = Null
  BY BusyTypes, BusyRanges, SMTT(30)
<1>7. Becomes(c, r) /\ cpu' \in [CPU -> Local]
  BY <1>2, <1>6, BecomesBusy
<1> HIDE DEF r
<1>8. pending' \in [CPU -> MaybeBlock] /\ \A d \in CPU : pending'[d] = IF d = o THEN b ELSE pending[d]
  BY <1>1, <1>2, <1>5 DEF MaybeBlock
<1>9. KTypes'
  BY <1>2, <1>7, <1>8 DEF KInv, KTypes
<1>10. Mine(c)'
  BY <1>6, <1>7 DEF Mine, Becomes
<1>11. \A d \in CPU \ {c} :
         /\ cpu[d].pc = "cas" => link'[cpu[d].ptr] = link[cpu[d].ptr]
         /\ cpu[d].old # Null => cpu[d].old \in held' /\ r.old # cpu[d].old
  BY <1>2, <1>6, LocalTypes DEF Mine
<1>12. /\ Path(link, b, <<b>> \o P[o]) /\ On(<<b>> \o P[o], b)
       /\ \A x : x # b => (On(<<b>> \o P[o], x) <=> On(P[o], x))
  <2>1. ~On(P[o], b)
    BY <1>1, <1>4, <1>5 DEF Placed
  <2>2. Path(link, cpu[c].head, P[o]) /\ link[b] = cpu[c].head /\ b \in Block
    BY <1>1, <1>4, <1>5
  <2> HIDE DEF b, o
  <2> QED BY <2>1, <2>2, PathCons
<1>new. PICK P2, V : P2 = [P EXCEPT ![o] = <<b>> \o P[o]] /\ V = [W EXCEPT ![b] = "pending"]
  OBVIOUS
<1>13. P2 \in [CPU -> Seq(Block)] /\ \A d \in CPU : P2[d] = IF d = o THEN <<b>> \o P[o] ELSE P[d]
  BY <1>new, <1>4, <1>12 DEF Path
<1>14. Functions(P2, F, V, Q) /\ \A x \in Block : V[x] = IF x = b THEN "pending" ELSE W[x]
  BY <1>new, <1>1, <1>4, <1>13 DEF Functions
<1>15. \A d \in CPU : cpu'[d].chain = cpu[d].chain
  BY <1>1, <1>6, <1>7 DEF Becomes
<1>16. \A d \in CPU, x \in Block : cpu'[d].ptr = x <=> cpu[d].ptr = x /\ x # b
  <2>1. \A d \in CPU \ {c} : cpu[d].ptr # b
    <3>1. b \in Block /\ Placed(P, F, W, Q, b)
      BY <1>1, <1>4
    <3>2. \A d \in CPU : cpu[d].ptr = b <=> W[b] = "push" /\ Q[b] = d
      BY <3>1 DEF Placed
    <3> QED BY <3>2
  <2> QED BY <1>6, <1>7, <2>1, KmemAssumption DEF Becomes
<1>17. Chains(P2, F)'
  BY <1>2, <1>4, <1>8, <1>12, <1>13, <1>15 DEF Chains
<1>18. ASSUME NEW x \in Block PROVE Placed(P2, F, V, Q, x)'
  <2>1. Placed(P, F, W, Q, x)
    BY <1>4
  <2>2. CASE x = b
    <3>1. V[x] = "pending" /\ W[x] = "push" /\ owner[x] = o
      BY <1>5, <1>14, <2>2
    <3>2. \A d \in CPU : On(P2[d], x) <=> d = o
      BY <1>12, <1>13, <2>1, <2>2, <3>1 DEF Placed
    <3>3. \A d \in CPU : ~On(F[d], x) /\ cpu'[d].ptr # x
      BY <1>16, <2>1, <2>2, <3>1 DEF Placed
    <3> QED BY <1>2, <1>5, <2>1, <3>1, <3>2, <3>3, KmemAssumption DEF Placed
  <2>3. CASE x # b
    <3>1. V[x] = W[x] /\ \A d \in CPU : cpu'[d].ptr = x <=> cpu[d].ptr = x
      BY <1>14, <1>16, <2>3
    <3>2. \A d \in CPU : On(P2[d], x) <=> On(P[d], x)
      BY <1>12, <1>13, <2>3
    <3> QED BY <1>2, <2>1, <3>1, <3>2 DEF Placed
  <2> QED BY <2>2, <2>3
<1>19. Located(P2, F, V, Q)'
  BY <1>14, <1>17, <1>18 DEF Located, Functions
<1> QED BY <1>7, <1>9, <1>10, <1>11, <1>19, Assemble

-----------------------------------------------------------------------------
(* The invariant. *)

LEMMA InitPlaced ==
  ASSUME KmemInit
  PROVE  KInv
<1> DEFINE r == Busy("idle", Null, Null, Null, Null)
<1>1. /\ owner \in [Block -> CPU \cup {Null}] /\ free = {b \in Block : owner[b] # Null}
      /\ held = {} /\ link = [b \in Block |-> "heap"] /\ pending = [c \in CPU |-> Null]
      /\ cpu = [c \in CPU |-> r]
  BY IdleBusy DEF KmemInit, percpu_tlsf_init
<1>2. r \in Local /\ r.pc = "idle" /\ r.old = Null /\ r.chain = Null /\ r.ptr = Null
  BY BusyRanges, BusyTypes, SMTT(30)
<1> HIDE DEF r
<1>3. KTypes
  BY <1>1, <1>2 DEF KTypes, MaybeBlock
<1>4. \A c \in CPU : Mine(c) /\ Alone(c)
  BY <1>1, <1>2 DEF Mine, Alone
<1>new. PICK P, W, Q :
          /\ P = [c \in CPU |-> <<>>] /\ Q = [b \in Block |-> Null]
          /\ W = [b \in Block |-> IF owner[b] = Null THEN "none" ELSE "free"]
  OBVIOUS
<1>5. <<>> \in Seq(Block)
  BY SMTT(30)
<1>6. Functions(P, P, W, Q)
  BY <1>new, <1>5 DEF Functions
<1>7. Chains(P, P)
  BY <1>new, <1>1, <1>2, PathEmpty DEF Chains
<1>8. ASSUME NEW b \in Block PROVE Placed(P, P, W, Q, b)
  <2>1. \A c \in CPU : ~On(P[c], b) /\ cpu[c].ptr # b
    BY <1>new, <1>1, <1>2, PathEmpty, KmemAssumption
  <2>2. W[b] = IF owner[b] = Null THEN "none" ELSE "free"
    BY <1>new
  <2> QED BY <1>1, <2>1, <2>2 DEF Placed
<1> QED BY <1>3, <1>4, <1>6, <1>7, <1>8 DEF KInv, Located

LEMMA NextPlaced ==
  ASSUME KInv, [KmemNext]_kmemVars
  PROVE  KInv'
<1>1. CASE UNCHANGED kmemVars
  <2>1. UNCHANGED <<owner, free, held, link, pending, cpu>>
    BY <1>1 DEF kmemVars
  <2>2. KTypes' /\ \A c \in CPU : Mine(c)' /\ Alone(c)'
    BY <2>1 DEF KInv, KTypes, Mine, Alone
  <2>3. PICK P, F, W, Q : Located(P, F, W, Q)
    BY DEF KInv
  <2>4. Located(P, F, W, Q)'
    BY <2>1, <2>3 DEF Located, Functions, Chains, Placed
  <2> QED BY <2>2, <2>4 DEF KInv
<1>2. CASE KmemNext
  <2>1. PICK c \in CPU :
          \/ kmalloc(c)
          \/ \E b \in Block : krealloc(c, b) \/ FreeLocal(c, b) \/ FreeRemote(c, b)
          \/ Succeed(c) \/ Exchange(c) \/ FlushOne(c) \/ FlushDone(c) \/ Grow(c) \/ Fail(c)
          \/ PushLoad(c) \/ PushCas(c) \/ PushAgain(c)
    BY <1>2 DEF KmemNext
  <2>2. CASE kmalloc(c) \/ \E b \in Block : krealloc(c, b)
    BY <2>2, AskStep
  <2>3. CASE \E b \in Block : FreeLocal(c, b)
    BY <2>3, FreeLocalStep
  <2>4. CASE \E b \in Block : FreeRemote(c, b)
    BY <2>4, FreeRemoteStep
  <2>5. CASE Succeed(c)
    BY <2>5, SucceedStep
  <2>6. CASE Exchange(c)
    BY <2>6, ExchangeStep
  <2>7. CASE FlushOne(c)
    BY <2>7, FlushStep
  <2>8. CASE FlushDone(c) \/ Fail(c) \/ PushAgain(c)
    BY <2>8, QuietStep
  <2>9. CASE Grow(c)
    BY <2>9, GrowStep
  <2>10. CASE PushLoad(c)
    BY <2>10, PushLoadStep
  <2>11. CASE PushCas(c)
    BY <2>11, PushCasStep
  <2> QED BY <2>1, <2>2, <2>3, <2>4, <2>5, <2>6, <2>7, <2>8, <2>9, <2>10, <2>11
<1> QED BY <1>1, <1>2

-----------------------------------------------------------------------------
(* What the links of a path reach are its blocks. *)

(* A set of positions that is not empty has a first one. *)
LEMMA FirstIndex ==
  ASSUME NEW S \in SUBSET Nat, S # {}
  PROVE  \E x \in S : \A y \in S : x <= y
<1>1. PICK x \in S : \A y \in S : ~(<<y, x>> \in OpToRel(<, Nat))
  BY NatLessThanWellFounded, WFMin
<1>2. ASSUME NEW y \in S PROVE x <= y
  <2>1. <<y, x>> \in Nat \X Nat /\ <<y, x>>[1] = y /\ <<y, x>>[2] = x
    BY SMTT(30)
  <2>2. y < x => <<y, x>> \in OpToRel(<, Nat)
    BY <2>1 DEF OpToRel
  <2>3. ~(y < x)
    BY <1>1, <2>2
  <2> QED BY <2>3, SMTT(30)
<1> QED BY <1>2

LEMMA LinkedExact ==
  ASSUME NEW b, NEW s, Path(link, b, s), NEW x \in Block
  PROVE  Linked(b, x) <=> On(s, x)
<1>1. /\ s \in Seq(Block) /\ b = IF Len(s) = 0 THEN Null ELSE s[1]
      /\ \A i \in 1..Len(s) : link[s[i]] = IF i = Len(s) THEN Null ELSE s[i + 1]
  BY DEF Path
<1>2. Len(s) \in Nat /\ \A i \in 1..Len(s) : s[i] \in Block
  BY <1>1, SMTT(30)
<1>3. ASSUME Linked(b, x) PROVE On(s, x)
  <2>new. PICK S : S = {y \in Block : On(s, y)}
    OBVIOUS
  <2>1. b \in S
    <3>1. b \in Block
      BY <1>3 DEF Linked
    <3>2. Len(s) # 0
      BY <1>1, <3>1, KmemAssumption
    <3>3. 1 \in 1..Len(s)
      BY <1>2, <3>2, SMTT(30)
    <3> QED BY <2>new, <1>1, <3>1, <3>2, <3>3 DEF On
  <2>2. ASSUME NEW y \in S, link[y] \in Block PROVE link[y] \in S
    <3>1. PICK i \in 1..Len(s) : s[i] = y
      BY <2>new, <2>2 DEF On
    <3>2. i # Len(s) /\ link[y] = s[i + 1]
      BY <1>1, <2>2, <3>1, KmemAssumption
    <3>3. i + 1 \in 1..Len(s)
      BY <1>2, <3>1, <3>2, SMTT(30)
    <3> QED BY <2>new, <2>2, <3>2, <3>3 DEF On
  <2>3. x \notin S => S \in SUBSET (Block \ {x})
    BY <2>new
  <2>4. x \in S
    BY <1>3, <2>1, <2>2, <2>3 DEF Linked
  <2> QED BY <2>new, <2>4
<1>4. ASSUME NEW S \in SUBSET Block, b \in S,
             \A y \in S : link[y] \in Block => link[y] \in S
      PROVE  \A i \in 1..Len(s) : s[i] \in S
  <2>new. PICK T : T = {i \in 1..Len(s) : s[i] \notin S}
    OBVIOUS
  <2>1. T \in SUBSET Nat
    BY <2>new, SMTT(30)
  <2>2. ASSUME T # {} PROVE FALSE
    <3>1. PICK i \in T : \A j \in T : i <= j
      BY <2>1, <2>2, FirstIndex
    <3>2. i \in 1..Len(s) /\ s[i] \notin S
      BY <2>new, <3>1
    <3>3. i # 1
      <4>1. ASSUME i = 1 PROVE FALSE
        <5>1. Len(s) # 0 /\ 1 \in 1..Len(s)
          BY <1>2, <3>2, <4>1, SMTT(30)
        <5>2. b = s[1] /\ s[1] \in Block
          BY <1>1, <1>2, <5>1
        <5> QED BY <1>4, <3>2, <4>1, <5>2
      <4> QED BY <4>1
    <3>4. i - 1 \in 1..Len(s) /\ i - 1 # Len(s) /\ (i - 1) + 1 = i /\ ~(i <= i - 1)
      BY <1>2, <3>2, <3>3, SMTT(30)
    <3>5. s[i - 1] \in S
      BY <2>new, <3>1, <3>4
    <3>6. link[s[i - 1]] = s[i]
      BY <1>1, <3>4
    <3> QED BY <1>2, <1>4, <3>2, <3>5, <3>6
  <2> QED BY <2>new, <2>2
<1>5. ASSUME On(s, x) PROVE Linked(b, x)
  <2>1. PICK i \in 1..Len(s) : s[i] = x
    BY <1>5 DEF On
  <2>2. Len(s) # 0 /\ 1 \in 1..Len(s)
    BY <1>2, <2>1, SMTT(30)
  <2>3. b \in Block
    BY <1>1, <1>2, <2>2
  <2>4. ASSUME NEW S \in SUBSET (Block \ {x}), b \in S, ~\E y \in S : link[y] \in Block \ S
        PROVE  FALSE
    <3>1. S \in SUBSET Block /\ x \notin S /\ \A y \in S : link[y] \in Block => link[y] \in S
      BY <2>4
    <3> QED BY <1>4, <2>1, <2>4, <3>1
  <2> QED BY <2>3, <2>4 DEF Linked
<1> QED BY <1>3, <1>5

LEMMA PlacesApart ==
  ASSUME KInv
  PROVE  OnePlace
<1>1. PICK P, F, W, Q : Located(P, F, W, Q)
  BY DEF KInv
<1>2. SUFFICES ASSUME NEW b \in Block, owner[b] # Null
               PROVE  \E p \in Place : /\ {q \in Place : InPlace(b, q[1], q[2])} = {p}
                                       /\ p[1] # "push" => p[2] = owner[b]
  BY DEF OnePlace
<1>3. Functions(P, F, W, Q) /\ Chains(P, F) /\ Placed(P, F, W, Q, b) /\ owner[b] \in CPU
  BY <1>1, <1>2 DEF Located, KInv, KTypes
<1>new. PICK w, o : w = W[b] /\ o = IF W[b] = "push" THEN Q[b] ELSE owner[b]
  OBVIOUS
<1>4. w \in {"free", "held", "pending", "flush", "push"} /\ o \in CPU
  BY <1>new, <1>2, <1>3 DEF Functions, Placed
<1>5. ASSUME NEW at \in {"free", "held", "pending", "flush", "push"}, NEW c \in CPU
      PROVE  InPlace(b, at, c) <=> at = w /\ c = o
  <2>1. Linked(pending[c], b) <=> W[b] = "pending" /\ owner[b] = c
    <3>1. Path(link, pending[c], P[c])
      BY <1>3 DEF Chains
    <3>2. Linked(pending[c], b) <=> On(P[c], b)
      BY <3>1, LinkedExact
    <3> QED BY <1>3, <3>2 DEF Placed
  <2>2. Linked(cpu[c].chain, b) <=> W[b] = "flush" /\ owner[b] = c
    <3>1. Path(link, cpu[c].chain, F[c])
      BY <1>3 DEF Chains
    <3>2. Linked(cpu[c].chain, b) <=> On(F[c], b)
      BY <3>1, LinkedExact
    <3> QED BY <1>3, <3>2 DEF Placed
  <2>3. /\ b \in free <=> W[b] = "free"
        /\ b \in held <=> W[b] = "held"
        /\ cpu[c].ptr = b <=> W[b] = "push" /\ Q[b] = c
    BY <1>3 DEF Placed
  <2> QED BY <1>new, <2>1, <2>2, <2>3, SMTT(30) DEF InPlace
<1>6. <<w, o>> \in Place /\ <<w, o>>[1] = w /\ <<w, o>>[2] = o
  BY <1>4, SMTT(30) DEF Place
<1>7. ASSUME NEW q \in Place PROVE InPlace(b, q[1], q[2]) <=> q = <<w, o>>
  <2>1. PICK at \in {"free", "held", "pending", "flush", "push"}, c \in CPU : q = <<at, c>>
    BY <1>7, SMTT(30) DEF Place
  <2>2. q[1] = at /\ q[2] = c /\ (q = <<w, o>> <=> at = w /\ c = o)
    BY <2>1, SMTT(30)
  <2> QED BY <1>5, <2>2
<1>8. {q \in Place : InPlace(b, q[1], q[2])} = {<<w, o>>}
  BY <1>6, <1>7
<1>9. w # "push" => o = owner[b]
  BY <1>new
<1> QED BY <1>6, <1>8, <1>9

(* However kmalloc, krealloc and kfree on any number of CPUs interleave,   *)
(* every block of a heap is in exactly one place: free in its owner's      *)
(* heap, in use, on its owner's pending list, in the chain its owner is    *)
(* freeing, or in the hands of the CPU that pushes it.                     *)
THEOREM BlocksInOnePlace == KmemSpec => []OnePlace
<1>1. KmemSpec => []KInv
  BY InitPlaced, NextPlaced, PTL DEF KmemSpec
<1> QED BY <1>1, PlacesApart, PTL
=============================================================================
