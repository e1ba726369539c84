------------------------ MODULE JmemCellocatorProofs ------------------------
(***************************************************************************)
(* Proofs about the cell allocator, for every size of the heap, of the     *)
(* pages and of the cells, and for every sequence of calls.                *)
(***************************************************************************)
EXTENDS JmemCellocator, SequenceTheorems, TLAPS

-----------------------------------------------------------------------------
(* The inductive invariant                                                 *)

\* The allocator is at work: jmem_cellocator_finalize has not begun.
Working == pc \notin {"finalize", "done"}

\* The running call and the step it is at, which the collector interrupts.
InCall == pc \in {"enter", "gc", "try", "again", "page", "null", "grow"}
At == IF pc = "gc" THEN after ELSE pc

CallType == [kind : {"alloc", "free", "realloc"}, ptr : Area \cup {0},
             size : AllSizes \cup {0}, max : JMEM_PRESSURE_NONE .. JMEM_PRESSURE_FULL]

\* The caller owns the memory a call is about until the call frees it, and the
\* cell allocator is asked for small requests only.
CallInv ==
  /\ InCall => /\ op \in CallType
               /\ op.kind # "alloc" => op.ptr \in Owners
               /\ op.kind # "free" => op.size \in AllSizes
               /\ pc # "enter" => op.kind # "free"
  /\ pc = "gc" => after # "none"
  /\ At \in {"again", "page"} => IsSmall(op.size)
  /\ At = "grow" => op.kind = "realloc" /\ op.ptr \in DOMAIN blocks /\ ~ IsSmall(op.size)

\* Two runs of units do not meet.
Beside(a, m, b, n) == a + m <= b \/ b + n <= a

\* The blocks and the pages lie in the heap, apart from each other.
PlaceInv ==
  /\ \A b \in DOMAIN blocks : b + Units(blocks[b]) <= HeapUnits + 1
  /\ \A p \in PageSet : p + PageUnits <= HeapUnits + 1
  /\ \A b, c \in DOMAIN blocks : b # c => Beside(b, Units(blocks[b]), c, Units(blocks[c]))
  /\ \A p, q \in PageSet : p # q => Beside(p, PageUnits, q, PageUnits)
  /\ \A b \in DOMAIN blocks, p \in PageSet : Beside(b, Units(blocks[b]), p, PageUnits)

\* The lists of pages and of free cells, and the start_p of the pages.
ListInv ==
  /\ pages \in Seq(Area) /\ freeCells \in Seq(Area)
  /\ Working => freed = {} /\ \A p \in PageSet : start[p] = Start(p)
  /\ ~ Working => Owners = {} /\ iter >= 1

CellInv == TypeOK /\ CallInv /\ PlaceInv /\ ListInv /\ CellsConserved

-----------------------------------------------------------------------------
(* Addresses                                                               *)

\* Multiplication by the size of a cell keeps the order.
LEMMA Multiples ==
  ASSUME NEW k \in Nat, NEW i \in Nat, NEW j \in Nat, i < j
  PROVE  k * i \in Nat /\ k * j \in Nat /\ k * i + k <= k * j
<1>1. PICK d \in Nat : j = i + 1 + d
  <2>1. j - i - 1 \in Nat /\ j = i + 1 + (j - i - 1)
    OBVIOUS
  <2>. QED
    BY <2>1
<1>2. k * d \in Nat
  OBVIOUS
<1>3. k * (i + 1 + d) = k * i + k + k * d
  OBVIOUS
<1>4. k * i \in Nat /\ k * j \in Nat
  OBVIOUS
<1>. QED
  BY <1>1, <1>2, <1>3, <1>4

\* The sizes of the requests in units.
LEMMA SizeFacts ==
  /\ HeapUnits \in Nat \ {0} /\ CellUnits \in Nat \ {0}
  /\ \A s \in AllSizes : s \in Nat /\ Units(s) \in Nat \ {0}
  /\ \A s \in AllSizes : IsSmall(s) => s \in SmallSizes
  /\ \A s \in AllSizes : ~ IsSmall(s) => s \in Sizes
  /\ \A s \in Sizes : Units(s) \in Nat \ {0}
<1>1. HeapUnits \in Nat \ {0} /\ CellUnits \in Nat \ {0}
  BY HeapAssumption
<1>2. \A s \in Nat : Units(s) \in Nat
  BY DEF Units, JMEM_ALIGNMENT
<1>3. \A s \in Nat \ {0} : Units(s) # 0
  BY DEF Units, JMEM_ALIGNMENT
<1>4. \A s \in Sizes : s \in Nat /\ Units(s) > CellUnits /\ Units(s) \in Nat
  BY <1>2, SizesAssumption
<1>5. \A s \in SmallSizes : s \in Nat \ {0} /\ Units(s) <= CellUnits /\ Units(s) \in Nat
  BY <1>2, PageAssumption
<1>6. \A s \in AllSizes : s \in Sizes \/ s \in SmallSizes
  BY DEF AllSizes
<1>7. \A s \in Sizes : ~ IsSmall(s)
  BY <1>1, <1>4 DEF IsSmall
<1>8. \A s \in SmallSizes : IsSmall(s)
  BY <1>5 DEF IsSmall
<1>9. \A s \in Sizes : Units(s) \in Nat \ {0}
  BY <1>1, <1>4
<1>. QED
  BY <1>1, <1>3, <1>4, <1>5, <1>6, <1>7, <1>8, <1>9

\* The cells of a page lie in the page, between start_p and end_p, apart from
\* each other.
LEMMA PageFacts ==
  ASSUME NEW p \in Int
  PROVE  /\ PageUnits \in Nat \ {0} /\ Units(PageBytes) = PageUnits
         /\ Start(p) \in Int /\ End(p) \in Int /\ p < Start(p) /\ End(p) < p + PageUnits
         /\ \A c \in CellsOf(p) : /\ c \in Int /\ Start(p) <= c /\ c <= End(p)
                                  /\ c + CellUnits <= p + PageUnits
         /\ \A c, d \in CellsOf(p) : c # d => Beside(c, CellUnits, d, CellUnits)
<1> DEFINE n == CellUnits * CellCount
           m == CellUnits * (CellCount - 1)
<1>1. HeaderUnits \in Nat \ {0} /\ CellCount \in Nat \ {0} /\ CellUnits \in Nat \ {0}
  BY PageAssumption, HeapAssumption
<1>2. n \in Nat /\ m \in Nat /\ m + CellUnits <= n
  BY <1>1, Multiples
<1>3. PageUnits = HeaderUnits + n /\ End(p) = p + HeaderUnits + m /\ Start(p) = p + HeaderUnits
  BY <1>1 DEF PageUnits, End, Start
<1>4. \A i \in 0 .. (CellCount - 1) : CellUnits * i \in Nat /\ CellUnits * i <= m
  <2>1. ASSUME NEW i \in 0 .. (CellCount - 1) PROVE CellUnits * i \in Nat /\ CellUnits * i <= m
    <3>1. i \in Nat /\ CellCount - 1 \in Nat /\ (i < CellCount - 1 \/ i = CellCount - 1)
      BY <1>1
    <3>2. CASE i < CellCount - 1
      <4>1. CellUnits * i \in Nat /\ CellUnits * i + CellUnits <= m
        BY <1>1, <3>1, <3>2, Multiples
      <4>. HIDE DEF m
      <4>. QED
        BY <1>1, <1>2, <4>1
    <3>3. CASE i = CellCount - 1
      <4>1. CellUnits * i = m
        BY <3>3
      <4>. HIDE DEF m
      <4>. QED
        BY <1>2, <4>1
    <3>. QED
      BY <3>1, <3>2, <3>3
  <2>. QED
    BY <2>1
<1>5. ASSUME NEW i \in 0 .. (CellCount - 1), NEW j \in 0 .. (CellCount - 1), i # j
      PROVE  CellUnits * i + CellUnits <= CellUnits * j \/ CellUnits * j + CellUnits <= CellUnits * i
  <2>1. i \in Nat /\ j \in Nat /\ (i < j \/ j < i)
    BY <1>1, <1>5
  <2>. QED
    BY <1>1, <2>1, Multiples
<1>. HIDE DEF n, m
<1>6. PageUnits \in Nat \ {0} /\ Units(PageBytes) = PageUnits
  <2>1. PageUnits \in Nat \ {0}
    BY <1>1, <1>2, <1>3
  <2>2. \A u \in Nat : Units(u * JMEM_ALIGNMENT) = u
    BY DEF Units, JMEM_ALIGNMENT
  <2>. QED
    BY <2>1, <2>2 DEF PageBytes
<1>7. ASSUME NEW c \in CellsOf(p)
      PROVE  c \in Int /\ Start(p) <= c /\ c <= End(p) /\ c + CellUnits <= p + PageUnits
  <2>1. PICK i \in 0 .. (CellCount - 1) : c = Start(p) + CellUnits * i
    BY DEF CellsOf
  <2> DEFINE u == CellUnits * i
  <2>2. u \in Nat /\ u <= m /\ c = Start(p) + u
    BY <1>4, <2>1
  <2>. HIDE DEF u
  <2>. QED
    BY <1>1, <1>2, <1>3, <2>2
<1>8. ASSUME NEW c \in CellsOf(p), NEW d \in CellsOf(p), c # d
      PROVE  Beside(c, CellUnits, d, CellUnits)
  <2>1. PICK i \in 0 .. (CellCount - 1) : c = Start(p) + CellUnits * i
    BY DEF CellsOf
  <2>2. PICK j \in 0 .. (CellCount - 1) : d = Start(p) + CellUnits * j
    BY DEF CellsOf
  <2> DEFINE u == CellUnits * i
             v == CellUnits * j
  <2>3. i # j
    BY <1>8, <2>1, <2>2
  <2>4. /\ u \in Nat /\ v \in Nat /\ c = Start(p) + u /\ d = Start(p) + v
        /\ u + CellUnits <= v \/ v + CellUnits <= u
    BY <1>4, <1>5, <2>1, <2>2, <2>3
  <2>. HIDE DEF u, v
  <2>. QED
    BY <1>1, <1>3, <2>4 DEF Beside
<1>9. Start(p) \in Int /\ End(p) \in Int /\ p < Start(p) /\ End(p) < p + PageUnits
  BY <1>1, <1>2, <1>3
<1>. QED
  BY <1>6, <1>7, <1>8, <1>9

\* A cell is inside its page, behind the header.
LEMMA CellIn ==
  ASSUME NEW p \in Int, NEW c \in CellsOf(p)
  PROVE  c \in Int /\ p < c /\ c + CellUnits <= p + PageUnits
<1>1. Start(p) \in Int /\ p < Start(p) /\ c \in Int /\ Start(p) <= c /\ c + CellUnits <= p + PageUnits
  BY PageFacts
<1>. QED
  BY <1>1

-----------------------------------------------------------------------------
(* The lists                                                               *)

\* What is in a list of addresses.
LEMMA ListFacts ==
  ASSUME NEW s \in Seq(Area)
  PROVE  /\ Len(s) \in Nat /\ DOMAIN s = 1 .. Len(s)
         /\ \A x : x \in Range(s) <=> \E i \in 1 .. Len(s) : s[i] = x
         /\ Range(s) \subseteq Area
BY DEF Range

\* An address is put at the head of a list.
LEMMA PushCell ==
  ASSUME NEW s \in Seq(Area), NEW a \in Area
  PROVE  /\ <<a>> \o s \in Seq(Area) /\ <<a>> \o s # <<>>
         /\ Range(<<a>> \o s) = Range(s) \cup {a}
         /\ IsInjective(s) /\ a \notin Range(s) => IsInjective(<<a>> \o s)
<1> DEFINE t == <<a>> \o s
<1>1. /\ t \in Seq(Area) /\ Len(s) \in Nat /\ Len(t) = Len(s) + 1 /\ t[1] = a
      /\ \A i \in 1 .. Len(s) : t[i + 1] = s[i]
  OBVIOUS
<1>. HIDE DEF t
<1>2. t # <<>> /\ DOMAIN t = 1 .. Len(t) /\ DOMAIN s = 1 .. Len(s)
  BY <1>1
<1>3. \A i \in 1 .. Len(t) : i = 1 \/ (i - 1 \in 1 .. Len(s) /\ t[i] = s[i - 1])
  <2>1. ASSUME NEW i \in 1 .. Len(t), i # 1 PROVE i - 1 \in 1 .. Len(s) /\ t[i] = s[i - 1]
    <3>1. i - 1 \in 1 .. Len(s) /\ (i - 1) + 1 = i
      BY <1>1, <2>1
    <3>. QED
      BY <1>1, <3>1
  <2>. QED
    BY <2>1
<1>4. Range(t) = Range(s) \cup {a}
  <2>1. \A x \in Range(t) : x = a \/ x \in Range(s)
    <3>1. \A i \in 1 .. Len(s) : s[i] \in Range(s)
      BY <1>2 DEF Range
    <3>2. \A i \in 1 .. Len(t) : t[i] = a \/ t[i] \in Range(s)
      BY <1>1, <1>3, <3>1
    <3>. QED
      BY <1>2, <3>2 DEF Range
  <2>2. a \in Range(t)
    BY <1>1, <1>2 DEF Range
  <2>3. \A x \in Range(s) : x \in Range(t)
    <3>1. \A i \in 1 .. Len(s) : i + 1 \in 1 .. Len(t)
      BY <1>1
    <3>. QED
      BY <1>1, <1>2, <3>1 DEF Range
  <2>. QED
    BY <2>1, <2>2, <2>3
<1>5. ASSUME IsInjective(s), a \notin Range(s) PROVE IsInjective(t)
  <2>1. ASSUME NEW i \in 1 .. Len(t), NEW j \in 1 .. Len(t), t[i] = t[j] PROVE i = j
    <3>1. \A k \in 1 .. Len(s) : s[k] # a
      BY <1>2, <1>5 DEF Range
    <3>2. \A k, l \in 1 .. Len(s) : s[k] = s[l] => k = l
      BY <1>2, <1>5 DEF IsInjective
    <3>3. i = 1 <=> j = 1
      BY <1>1, <1>3, <2>1, <3>1
    <3>4. CASE i # 1
      <4>1. i - 1 \in 1 .. Len(s) /\ j - 1 \in 1 .. Len(s) /\ s[i - 1] = s[j - 1]
        BY <1>3, <2>1, <3>3, <3>4
      <4>2. i - 1 = j - 1
        BY <3>2, <4>1
      <4>. QED
        BY <2>1, <4>2
    <3>. QED
      BY <3>3, <3>4
  <2>. QED
    BY <1>2, <2>1 DEF IsInjective
<1>. QED
  BY <1>1, <1>2, <1>4, <1>5 DEF t

\* The head of a list is taken.
LEMMA PopCell ==
  ASSUME NEW s \in Seq(Area), s # <<>>
  PROVE  /\ Head(s) \in Area /\ Tail(s) \in Seq(Area)
         /\ Range(s) = Range(Tail(s)) \cup {Head(s)}
         /\ IsInjective(s) => IsInjective(Tail(s)) /\ Head(s) \notin Range(Tail(s))
<1>1. /\ Head(s) \in Area /\ Tail(s) \in Seq(Area) /\ Len(s) \in Nat \ {0}
      /\ Len(Tail(s)) = Len(s) - 1 /\ Head(s) = s[1]
      /\ \A i \in 1 .. Len(Tail(s)) : Tail(s)[i] = s[i + 1]
  BY HeadTailProperties
<1> DEFINE t == Tail(s)
<1>. HIDE DEF t
<1>2. DOMAIN s = 1 .. Len(s) /\ DOMAIN t = 1 .. Len(t)
  BY <1>1 DEF t
<1>3. Range(s) = Range(t) \cup {s[1]}
  <2>1. \A x \in Range(s) : x = s[1] \/ x \in Range(t)
    <3>1. ASSUME NEW i \in 1 .. Len(s), i # 1 PROVE s[i] \in Range(t)
      <4>1. i - 1 \in 1 .. Len(t) /\ (i - 1) + 1 = i
        BY <1>1, <3>1 DEF t
      <4>2. t[i - 1] = s[i]
        BY <1>1, <4>1 DEF t
      <4>. QED
        BY <1>2, <4>1, <4>2 DEF Range
    <3>. QED
      BY <1>2, <3>1 DEF Range
  <2>2. s[1] \in Range(s)
    BY <1>1, <1>2 DEF Range
  <2>3. \A i \in 1 .. Len(t) : t[i] \in Range(s)
    <3>1. \A i \in 1 .. Len(t) : i + 1 \in 1 .. Len(s)
      BY <1>1 DEF t
    <3>. QED
      BY <1>1, <1>2, <3>1 DEF Range, t
  <2>. QED
    BY <1>2, <2>1, <2>2, <2>3 DEF Range
<1>4. ASSUME IsInjective(s) PROVE IsInjective(t) /\ s[1] \notin Range(t)
  <2>1. \A i \in 1 .. Len(t) : i + 1 \in 1 .. Len(s) /\ t[i] = s[i + 1] /\ i + 1 # 1
    BY <1>1 DEF t
  <2>2. \A i, j \in 1 .. Len(s) : s[i] = s[j] => i = j
    BY <1>2, <1>4 DEF IsInjective
  <2>3. 1 \in 1 .. Len(s)
    BY <1>1
  <2>4. \A i \in 1 .. Len(t) : t[i] # s[1]
    BY <2>1, <2>2, <2>3
  <2>5. ASSUME NEW i \in 1 .. Len(t), NEW j \in 1 .. Len(t), t[i] = t[j] PROVE i = j
    <3>1. i + 1 = j + 1
      BY <2>1, <2>2, <2>5
    <3>. QED
      BY <3>1
  <2>. QED
    BY <1>2, <2>4, <2>5 DEF IsInjective, Range
<1>. QED
  BY <1>1, <1>3, <1>4 DEF t

\* The cells of a new page are put before the free cells.
LEMMA LinkPage ==
  ASSUME NEW s \in Seq(Area), NEW p \in Int, CellsOf(p) \subseteq Area
  PROVE  /\ PageCells(p) \o s \in Seq(Area) /\ PageCells(p) \o s # <<>>
         /\ Range(PageCells(p) \o s) = CellsOf(p) \cup Range(s)
         /\ IsInjective(s) /\ CellsOf(p) \cap Range(s) = {} => IsInjective(PageCells(p) \o s)
<1> DEFINE n == CellCount
           c == PageCells(p)
           t == c \o s
<1>1. n \in Nat \ {0} /\ CellUnits \in Nat \ {0} /\ Start(p) \in Int
  BY PageAssumption, HeapAssumption, PageFacts
<1>2. \A i \in 1 .. n : n - i \in 0 .. (n - 1) /\ c[i] = Start(p) + CellUnits * (n - i)
  BY <1>1 DEF PageCells
<1>3. \A i \in 0 .. (n - 1) : n - i \in 1 .. n /\ n - (n - i) = i
  BY <1>1
<1>4. \A i \in 1 .. n : c[i] \in CellsOf(p)
  BY <1>2 DEF CellsOf
<1>5. \A x \in CellsOf(p) : \E i \in 1 .. n : c[i] = x
  <2>1. ASSUME NEW k \in 0 .. (n - 1) PROVE c[n - k] = Start(p) + CellUnits * k
    <3>1. n - k \in 1 .. n /\ n - (n - k) = k
      BY <1>3
    <3>. QED
      BY <1>2, <3>1
  <2>. QED
    BY <1>3, <2>1 DEF CellsOf
<1>6. c \in Seq(Area) /\ Len(c) = n
  <2>1. c \in [1 .. n -> Area]
    BY <1>4 DEF PageCells
  <2>. HIDE DEF c, n
  <2>. QED
    BY <1>1, <2>1
<1>7. ASSUME NEW i \in 1 .. n, NEW j \in 1 .. n, c[i] = c[j] PROVE i = j
  <2> DEFINE a == n - i
             b == n - j
  <2>1. a \in Nat /\ b \in Nat /\ Start(p) + CellUnits * a = Start(p) + CellUnits * b
    BY <1>1, <1>2, <1>7
  <2>. HIDE DEF a, b
  <2>2. a < b => CellUnits * a + CellUnits <= CellUnits * b /\ CellUnits * a \in Nat /\ CellUnits * b \in Nat
    BY <1>1, <2>1, Multiples
  <2>3. b < a => CellUnits * b + CellUnits <= CellUnits * a /\ CellUnits * a \in Nat /\ CellUnits * b \in Nat
    BY <1>1, <2>1, Multiples
  <2>4. CellUnits * a = CellUnits * b
    <3> DEFINE x == CellUnits * a
               y == CellUnits * b
    <3>1. x \in Int /\ y \in Int /\ Start(p) + x = Start(p) + y
      BY <1>1, <2>1
    <3>. HIDE DEF x, y
    <3>2. x = y
      BY <1>1, <3>1
    <3>. QED
      BY <3>2 DEF x, y
  <2>5. a = b
    <3> DEFINE x == CellUnits * a
               y == CellUnits * b
    <3>1. /\ a < b => x + CellUnits <= y /\ x \in Nat /\ y \in Nat
          /\ b < a => y + CellUnits <= x /\ x \in Nat /\ y \in Nat
          /\ x = y
      BY <2>2, <2>3, <2>4
    <3>. HIDE DEF x, y
    <3>. QED
      BY <1>1, <2>1, <3>1
  <2>. QED
    BY <1>1, <2>5 DEF a, b
<1>. HIDE DEF c, n
<1>8. /\ t \in Seq(Area) /\ Len(s) \in Nat /\ Len(t) = n + Len(s)
      /\ \A i \in 1 .. n : t[i] = c[i]
      /\ \A i \in 1 .. Len(s) : t[n + i] = s[i]
  BY <1>1, <1>6
<1>. HIDE DEF t
<1>9. t # <<>> /\ DOMAIN t = 1 .. Len(t) /\ DOMAIN s = 1 .. Len(s)
  BY <1>1, <1>8
<1>10. \A i \in 1 .. Len(t) : i \in 1 .. n \/ (i - n \in 1 .. Len(s) /\ t[i] = s[i - n])
  <2>1. ASSUME NEW i \in 1 .. Len(t), i \notin 1 .. n PROVE i - n \in 1 .. Len(s) /\ t[i] = s[i - n]
    <3>1. i - n \in 1 .. Len(s) /\ n + (i - n) = i
      BY <1>1, <1>8, <2>1
    <3>. QED
      BY <1>8, <3>1
  <2>. QED
    BY <2>1
<1>11. Range(t) = CellsOf(p) \cup Range(s)
  <2>1. \A x \in Range(t) : x \in CellsOf(p) \/ x \in Range(s)
    BY <1>4, <1>8, <1>9, <1>10 DEF Range
  <2>2. \A i \in 1 .. n : i \in 1 .. Len(t)
    BY <1>1, <1>8
  <2>3. \A i \in 1 .. Len(s) : n + i \in 1 .. Len(t)
    BY <1>1, <1>8
  <2>4. \A x \in CellsOf(p) : x \in Range(t)
    BY <1>5, <1>8, <1>9, <2>2 DEF Range
  <2>5. \A x \in Range(s) : x \in Range(t)
    BY <1>8, <1>9, <2>3 DEF Range
  <2>. QED
    BY <2>1, <2>4, <2>5
<1>12. ASSUME IsInjective(s), CellsOf(p) \cap Range(s) = {} PROVE IsInjective(t)
  <2>1. ASSUME NEW i \in 1 .. Len(t), NEW j \in 1 .. Len(t), t[i] = t[j] PROVE i = j
    <3>1. \A k \in 1 .. Len(s) : s[k] \notin CellsOf(p)
      BY <1>9, <1>12 DEF Range
    <3>2. \A k, l \in 1 .. Len(s) : s[k] = s[l] => k = l
      BY <1>9, <1>12 DEF IsInjective
    <3>3. i \in 1 .. n <=> j \in 1 .. n
      BY <1>4, <1>8, <1>10, <2>1, <3>1
    <3>4. CASE i \notin 1 .. n
      <4>1. i - n \in 1 .. Len(s) /\ j - n \in 1 .. Len(s) /\ s[i - n] = s[j - n]
        BY <1>10, <2>1, <3>3, <3>4
      <4>2. i - n = j - n
        BY <3>2, <4>1
      <4>. QED
        BY <1>1, <2>1, <4>2
    <3>5. CASE i \in 1 .. n
      BY <1>7, <1>8, <2>1, <3>3, <3>5
    <3>. QED
      BY <3>4, <3>5
  <2>. QED
    BY <1>9, <2>1 DEF IsInjective
<1>. QED
  BY <1>8, <1>9, <1>11, <1>12 DEF t, c

-----------------------------------------------------------------------------
(* What the invariant says                                                 *)

\* What CellsConserved says while the allocator is at work.
Conserved ==
  /\ IsInjective(freeCells)
  /\ Range(freeCells) \cap DOMAIN cells = {}
  /\ Range(freeCells) \cup DOMAIN cells = UNION { CellsOf(p) : p \in PageSet }

\* The types in the form the proofs need.
LEMMA Types ==
  ASSUME CellInv
  PROVE  /\ \A b \in DOMAIN blocks : b \in Int /\ b \in Area /\ blocks[b] \in Sizes
                                     /\ Units(blocks[b]) \in Nat \ {0}
         /\ \A p \in PageSet : p \in Int /\ p \in Area /\ \E i \in 1 .. Len(pages) : pages[i] = p
         /\ \A i \in 1 .. Len(pages) : pages[i] \in PageSet
         /\ \A c \in DOMAIN cells : c \in Int /\ c \in Area
         /\ PageUnits \in Nat \ {0} /\ CellUnits \in Nat \ {0} /\ HeapUnits \in Nat \ {0}
         /\ Units(PageBytes) = PageUnits
         /\ pages \in Seq(Area) /\ freeCells \in Seq(Area)
         /\ Working => Conserved
<1>1. pages \in Seq(Area) /\ freeCells \in Seq(Area)
  BY DEF CellInv, ListInv
<1>2. \A p \in PageSet : p \in Area /\ \E i \in 1 .. Len(pages) : pages[i] = p
  BY <1>1, ListFacts DEF PageSet
<1>3. \A i \in 1 .. Len(pages) : pages[i] \in PageSet
  BY <1>1, ListFacts DEF PageSet
<1>4. \A x \in Area : x \in Int
  BY DEF Area
<1>5. \A b \in DOMAIN blocks : b \in Area /\ blocks[b] \in Sizes
  BY DEF CellInv, TypeOK
<1>6. \A c \in DOMAIN cells : c \in Area
  BY DEF CellInv, TypeOK
<1>7. /\ PageUnits \in Nat \ {0} /\ CellUnits \in Nat \ {0} /\ HeapUnits \in Nat \ {0}
      /\ Units(PageBytes) = PageUnits
  <2>1. 0 \in Int
    OBVIOUS
  <2>. QED
    BY <2>1, PageFacts, SizeFacts
<1>8. Working => Conserved
  BY DEF CellInv, CellsConserved, Conserved, Working
<1>. QED
  BY <1>1, <1>2, <1>3, <1>4, <1>5, <1>6, <1>7, <1>8, SizeFacts

\* Every cell, free or owned, is a cell of a page.
LEMMA CellPage ==
  ASSUME CellInv, Working
  PROVE  \A c : (c \in DOMAIN cells \/ c \in Range(freeCells)) <=> \E p \in PageSet : c \in CellsOf(p)
BY Types DEF Conserved

\* jmem_cellocator_find tells the cells from the blocks.
LEMMA Dispatch ==
  ASSUME CellInv, Working
  PROVE  /\ \A c \in DOMAIN cells : IsCell(c)
         /\ \A b \in DOMAIN blocks : ~ IsCell(b)
         /\ DOMAIN blocks \cap DOMAIN cells = {}
         /\ DOMAIN blocks \cap PageSet = {}
<1>1. \A p \in PageSet : start[p] = Start(p) /\ p \in Int
  BY Types DEF CellInv, ListInv
<1>2. ASSUME NEW c \in DOMAIN cells PROVE IsCell(c)
  <2>1. PICK p \in PageSet : c \in CellsOf(p)
    BY CellPage
  <2>2. Start(p) <= c /\ c <= End(p)
    BY <1>1, <2>1, PageFacts
  <2>3. PICK i \in 1 .. Len(pages) : pages[i] = p
    BY <2>1, Types
  <2>. QED
    BY <1>1, <2>1, <2>2, <2>3 DEF IsCell, InPage
<1>3. ASSUME NEW b \in DOMAIN blocks, NEW p \in PageSet PROVE ~ InPage(p, b) /\ b # p
  <2>1. /\ b \in Int /\ p \in Int /\ Units(blocks[b]) \in Nat \ {0} /\ PageUnits \in Nat \ {0}
        /\ start[p] = Start(p)
    BY <1>1, Types
  <2>2. Beside(b, Units(blocks[b]), p, PageUnits)
    BY DEF CellInv, PlaceInv
  <2>3. Start(p) \in Int /\ End(p) \in Int /\ p < Start(p) /\ End(p) < p + PageUnits
    BY <2>1, PageFacts
  <2>. QED
    BY <2>1, <2>2, <2>3 DEF Beside, InPage
<1>4. \A b \in DOMAIN blocks : ~ IsCell(b)
  BY <1>3, Types DEF IsCell
<1>. QED
  BY <1>2, <1>3, <1>4

\* Two cells never meet, be they of one page or of two.
LEMMA CellsApart ==
  ASSUME CellInv, Working, NEW c \in DOMAIN cells, NEW d \in DOMAIN cells, c # d
  PROVE  Beside(c, CellUnits, d, CellUnits)
<1>1. PICK p \in PageSet : c \in CellsOf(p)
  BY CellPage
<1>2. PICK q \in PageSet : d \in CellsOf(q)
  BY CellPage
<1>3. p \in Int /\ q \in Int /\ PageUnits \in Nat \ {0} /\ CellUnits \in Nat \ {0}
  BY <1>1, <1>2, Types
<1>4. CASE p = q
  BY <1>1, <1>2, <1>3, <1>4, PageFacts
<1>5. CASE p # q
  <2>1. Beside(p, PageUnits, q, PageUnits)
    BY <1>1, <1>2, <1>5 DEF CellInv, PlaceInv
  <2>2. c \in Int /\ p < c /\ c + CellUnits <= p + PageUnits
    BY <1>1, <1>3, CellIn
  <2>3. d \in Int /\ q < d /\ d + CellUnits <= q + PageUnits
    BY <1>2, <1>3, CellIn
  <2>. QED
    BY <1>3, <2>1, <2>2, <2>3 DEF Beside
<1>. QED
  BY <1>4, <1>5

\* A cell and a block never meet.
LEMMA CellBlockApart ==
  ASSUME CellInv, Working, NEW c \in DOMAIN cells, NEW b \in DOMAIN blocks
  PROVE  Beside(c, CellUnits, b, Units(blocks[b]))
<1>1. PICK p \in PageSet : c \in CellsOf(p)
  BY CellPage
<1>2. /\ p \in Int /\ PageUnits \in Nat \ {0} /\ CellUnits \in Nat \ {0}
      /\ b \in Int /\ Units(blocks[b]) \in Nat \ {0}
  BY <1>1, Types
<1>3. Beside(b, Units(blocks[b]), p, PageUnits)
  BY <1>1 DEF CellInv, PlaceInv
<1>4. c \in Int /\ p < c /\ c + CellUnits <= p + PageUnits
  BY <1>1, <1>2, CellIn
<1>. QED
  BY <1>2, <1>3, <1>4 DEF Beside

\* Runs of units beside each other share none.
LEMMA SpansApart ==
  ASSUME NEW a \in Int, NEW b \in Int, NEW s, NEW r, Units(s) \in Nat \ {0}, Units(r) \in Nat \ {0},
         Beside(a, Units(s), b, Units(r))
  PROVE  Span(a, s) \cap Span(b, r) = {}
BY DEF Span, Beside

\* The regions of the main heap.
LEMMA InUseFacts ==
  ASSUME CellInv, Working
  PROVE  /\ DOMAIN InUse = DOMAIN blocks \cup PageSet
         /\ \A b \in DOMAIN blocks : InUse[b] = blocks[b]
         /\ \A p \in PageSet : InUse[p] = PageBytes
<1>1. freed = {} /\ DOMAIN blocks \cap PageSet = {}
  BY Dispatch DEF CellInv, ListInv
<1>. QED
  BY <1>1 DEF InUse

\* What the invariant is for.
LEMMA InvSound ==
  ASSUME CellInv
  PROVE  OwnersSound
<1>1. CASE Working
  <2> DEFINE owned == [a \in Owners |-> IF a \in DOMAIN cells THEN CellUnits * JMEM_ALIGNMENT ELSE blocks[a]]
  <2>1. CellUnits \in Nat \ {0} /\ Units(CellUnits * JMEM_ALIGNMENT) = CellUnits
    <3>1. \A u \in Nat : Units(u * JMEM_ALIGNMENT) = u
      BY DEF Units, JMEM_ALIGNMENT
    <3>. QED
      BY <3>1, Types
  <2>2. ASSUME NEW a \in DOMAIN owned, NEW b \in DOMAIN owned, a # b
        PROVE  Span(a, owned[a]) \cap Span(b, owned[b]) = {}
    <3>1. ASSUME NEW x \in Owners
          PROVE  \/ x \in DOMAIN cells /\ owned[x] = CellUnits * JMEM_ALIGNMENT /\ x \in Int
                 \/ x \in DOMAIN blocks /\ owned[x] = blocks[x] /\ x \in Int /\ Units(blocks[x]) \in Nat \ {0}
      BY <1>1, Types, Dispatch DEF Owners
    <3>2. Beside(a, Units(owned[a]), b, Units(owned[b]))
      <4>1. ASSUME NEW x \in DOMAIN blocks, NEW y \in DOMAIN blocks, x # y
            PROVE  Beside(x, Units(blocks[x]), y, Units(blocks[y]))
        BY <4>1 DEF CellInv, PlaceInv
      <4>2. ASSUME NEW x \in DOMAIN cells, NEW y \in DOMAIN blocks
            PROVE  /\ Beside(x, CellUnits, y, Units(blocks[y]))
                   /\ Beside(y, Units(blocks[y]), x, CellUnits)
        BY <1>1, CellBlockApart DEF Beside
      <4>3. a \in Owners /\ b \in Owners
        OBVIOUS
      <4>. HIDE DEF owned
      <4>. QED
        BY <1>1, <2>1, <2>2, <3>1, <4>1, <4>2, <4>3, CellsApart
    <3>3. a \in Int /\ b \in Int /\ Units(owned[a]) \in Nat \ {0} /\ Units(owned[b]) \in Nat \ {0}
      <4>1. a \in Owners /\ b \in Owners
        OBVIOUS
      <4>. HIDE DEF owned
      <4>. QED
        BY <2>1, <3>1, <4>1
    <3>. HIDE DEF owned
    <3>. QED
      BY <3>2, <3>3, SpansApart
  <2>3. ASSUME NEW a \in DOMAIN InUse, NEW b \in DOMAIN InUse, a # b
        PROVE  Span(a, InUse[a]) \cap Span(b, InUse[b]) = {}
    <3>1. ASSUME NEW x \in DOMAIN InUse
          PROVE  /\ x \in Int /\ Units(InUse[x]) \in Nat \ {0}
                 /\ \/ x \in DOMAIN blocks /\ InUse[x] = blocks[x]
                    \/ x \in PageSet /\ InUse[x] = PageBytes
      BY <1>1, Types, InUseFacts
    <3>2. ASSUME NEW x \in DOMAIN blocks, NEW y \in PageSet
          PROVE  /\ Beside(x, Units(blocks[x]), y, PageUnits)
                 /\ Beside(y, PageUnits, x, Units(blocks[x]))
      BY DEF CellInv, PlaceInv, Beside
    <3>3. Beside(a, Units(InUse[a]), b, Units(InUse[b]))
      BY <2>3, <3>1, <3>2, Types DEF CellInv, PlaceInv
    <3>. QED
      BY <3>1, <3>3, SpansApart
  <2>4. DispatchExact
    BY <1>1, Dispatch DEF DispatchExact
  <2>. QED
    BY <2>2, <2>3, <2>4 DEF OwnersSound, OwnersApart, Apart, CellInv
<1>2. CASE ~ Working
  <2>1. DOMAIN blocks = {} /\ DOMAIN cells = {} /\ Owners = {}
    BY <1>2 DEF CellInv, ListInv, Owners
  <2>2. DispatchExact
    BY <2>1 DEF DispatchExact
  <2>3. ASSUME NEW a \in DOMAIN InUse, NEW b \in DOMAIN InUse, a # b
        PROVE  Span(a, InUse[a]) \cap Span(b, InUse[b]) = {}
    <3>1. \A x \in DOMAIN InUse : x \in PageSet /\ InUse[x] = PageBytes
      BY <2>1 DEF InUse
    <3>2. Beside(a, PageUnits, b, PageUnits)
      BY <2>3, <3>1 DEF CellInv, PlaceInv
    <3>. QED
      BY <3>1, <3>2, Types, SpansApart
  <2>. QED
    BY <2>1, <2>2, <2>3 DEF OwnersSound, OwnersApart, Apart, CellInv
<1>. QED
  BY <1>1, <1>2

-----------------------------------------------------------------------------
(* The kinds of steps                                                      *)

\* A free run of units is in the heap and beside every region.
LEMMA FreeRun ==
  ASSUME NEW f, NEW a \in Int, NEW s, Units(s) \in Nat \ {0}, HeapUnits \in Nat, FreeFor(f, a, s)
  PROVE  /\ a \in Area /\ a + Units(s) <= HeapUnits + 1
         /\ \A b \in DOMAIN f : b \in Int /\ Units(f[b]) \in Nat \ {0} =>
              Beside(a, Units(s), b, Units(f[b]))
<1>1. \A u \in Int : a <= u /\ u <= a + Units(s) - 1 => u \in Area /\ u \notin Owned(f)
  BY DEF FreeFor, Span
<1>2. a \in Area /\ a + Units(s) - 1 \in Area
  BY <1>1
<1>3. ASSUME NEW b \in DOMAIN f, b \in Int, Units(f[b]) \in Nat \ {0}
      PROVE  Beside(a, Units(s), b, Units(f[b]))
  <2>1. \A u \in Int : b <= u /\ u <= b + Units(f[b]) - 1 => u \in Owned(f)
    BY DEF Owned, Span
  <2>2. ~ (a <= b /\ b <= a + Units(s) - 1)
    BY <1>1, <1>3, <2>1
  <2>3. ~ (b <= a /\ a <= b + Units(f[b]) - 1)
    BY <1>1, <1>3, <2>1
  <2>. QED
    BY <1>3, <2>2, <2>3 DEF Beside
<1>. QED
  BY <1>2, <1>3 DEF Area

\* Blocks go, or none does.
LEMMA BlocksDropped ==
  ASSUME CellInv, pages' = pages, DOMAIN blocks' \subseteq DOMAIN blocks,
         \A b \in DOMAIN blocks' : blocks'[b] = blocks[b]
  PROVE  PlaceInv' /\ DOMAIN blocks' \subseteq Area /\ \A b \in DOMAIN blocks' : blocks'[b] \in Sizes
<1>1. PageSet' = PageSet
  BY DEF PageSet
<1>2. PlaceInv'
  BY <1>1 DEF CellInv, PlaceInv
<1>. QED
  BY <1>2, Types

\* A block is placed beside the ones that stay and beside the pages.
LEMMA BlockPlaced ==
  ASSUME CellInv, pages' = pages, NEW B \in SUBSET DOMAIN blocks, NEW a \in Area, NEW s \in Sizes,
         DOMAIN blocks' = B \cup {a}, blocks'[a] = s, \A b \in B : b # a => blocks'[b] = blocks[b],
         a + Units(s) <= HeapUnits + 1,
         \A b \in B : b # a => Beside(a, Units(s), b, Units(blocks[b])),
         \A p \in PageSet : Beside(a, Units(s), p, PageUnits)
  PROVE  PlaceInv' /\ DOMAIN blocks' \subseteq Area /\ \A b \in DOMAIN blocks' : blocks'[b] \in Sizes
<1>1. PageSet' = PageSet
  BY DEF PageSet
<1>2. \A x, m, y, n : Beside(x, m, y, n) <=> Beside(y, n, x, m)
  BY DEF Beside
<1>3. \A b \in DOMAIN blocks' : b = a \/ (b \in B /\ b \in DOMAIN blocks /\ b # a /\ blocks'[b] = blocks[b])
  OBVIOUS
<1>4. /\ \A b \in DOMAIN blocks : b + Units(blocks[b]) <= HeapUnits + 1
      /\ \A b, c \in DOMAIN blocks : b # c => Beside(b, Units(blocks[b]), c, Units(blocks[c]))
      /\ \A b \in DOMAIN blocks, p \in PageSet : Beside(b, Units(blocks[b]), p, PageUnits)
      /\ \A p \in PageSet : p + PageUnits <= HeapUnits + 1
      /\ \A p, q \in PageSet : p # q => Beside(p, PageUnits, q, PageUnits)
  BY DEF CellInv, PlaceInv
<1>5. \A b \in DOMAIN blocks' : b + Units(blocks'[b]) <= HeapUnits + 1
  BY <1>3, <1>4
<1>6. \A b, c \in DOMAIN blocks' : b # c => Beside(b, Units(blocks'[b]), c, Units(blocks'[c]))
  <2>1. ASSUME NEW b \in DOMAIN blocks', NEW c \in DOMAIN blocks', b # c
        PROVE  Beside(b, Units(blocks'[b]), c, Units(blocks'[c]))
    <3>1. CASE b = a
      BY <1>3, <2>1, <3>1
    <3>2. CASE c = a
      BY <1>2, <1>3, <2>1, <3>2
    <3>3. CASE b # a /\ c # a
      BY <1>3, <1>4, <2>1, <3>3
    <3>. QED
      BY <3>1, <3>2, <3>3
  <2>. QED
    BY <2>1
<1>7. \A b \in DOMAIN blocks', p \in PageSet : Beside(b, Units(blocks'[b]), p, PageUnits)
  BY <1>3, <1>4
<1>8. PlaceInv'
  BY <1>1, <1>4, <1>5, <1>6, <1>7 DEF PlaceInv
<1>9. DOMAIN blocks' \subseteq Area /\ \A b \in DOMAIN blocks' : blocks'[b] \in Sizes
  BY <1>3, Types
<1>. QED
  BY <1>8, <1>9

\* The call goes on: no memory changes hands.
LEMMA GoStep ==
  ASSUME CellInv, UNCHANGED heap, UNCHANGED final, Working, Working', CallInv',
         pc' \in {"idle", "enter", "gc", "try", "again", "page", "null", "grow",
                  "finalize", "done", "fatal"},
         after' \in {"none", "try", "again", "page", "grow"},
         pressure' \in JMEM_PRESSURE_NONE .. JMEM_PRESSURE_FULL,
         sub' \in JMEM_PRESSURE_NONE .. JMEM_PRESSURE_HIGH
  PROVE  CellInv'
<1>1. UNCHANGED <<blocks, cells, pages, start, freeCells, freed, iter>>
  BY DEF heap, final
<1>2. PageSet' = PageSet /\ Owners' = Owners
  BY <1>1 DEF PageSet, Owners
<1>3. TypeOK'
  BY <1>1, <1>2 DEF CellInv, TypeOK
<1>4. PlaceInv' /\ ListInv'
  BY <1>1, <1>2 DEF CellInv, PlaceInv, ListInv
<1>5. CellsConserved'
  BY <1>1, <1>2 DEF CellInv, CellsConserved, Working
<1>. QED
  BY <1>3, <1>4, <1>5 DEF CellInv

\* The call ends, with the memory as given.
LEMMA ReturnStep ==
  ASSUME CellInv, Working, Return, PlaceInv', Conserved',
         DOMAIN blocks' \subseteq Area, \A b \in DOMAIN blocks' : blocks'[b] \in Sizes,
         DOMAIN cells' \subseteq Area, \A c \in DOMAIN cells' : cells'[c] \in SmallSizes,
         pages' \in Seq(Area), freeCells' \in Seq(Area),
         DOMAIN start' = PageSet', \A p \in PageSet' : start'[p] = Start(p)
  PROVE  CellInv'
<1>1. /\ pc' = "idle" /\ after' = "none" /\ pressure' = 0 /\ sub' = 0
      /\ UNCHANGED <<freed, iter>> /\ freed = {} /\ iter \in Nat
  BY DEF Return, final, JMEM_PRESSURE_NONE, CellInv, ListInv, TypeOK
<1>2. PageSet' \subseteq Area /\ Range(freeCells') \subseteq Area
  BY ListFacts DEF PageSet
<1>3. \A p \in PageSet' : start'[p] \in 0 .. (HeapUnits + 1)
  <2>1. ASSUME NEW p \in PageSet' PROVE start'[p] \in 0 .. (HeapUnits + 1)
    <3>1. p \in Int /\ 1 <= p /\ p + PageUnits <= HeapUnits + 1
      BY <1>2 DEF PlaceInv, Area
    <3>2. /\ Start(p) \in Int /\ End(p) \in Int /\ p < Start(p) /\ End(p) < p + PageUnits
          /\ PageUnits \in Nat \ {0} /\ HeapUnits \in Nat
      BY <3>1, PageFacts, SizeFacts
    <3>3. Start(p) <= p + PageUnits
      <4>1. HeaderUnits \in Nat /\ CellCount * CellUnits \in Nat
        BY PageAssumption, HeapAssumption
      <4>. QED
        BY <3>1, <4>1 DEF Start, PageUnits
    <3>. QED
      BY <3>1, <3>2, <3>3
  <2>. QED
    BY <2>1
<1>4. TypeOK'
  BY <1>1, <1>2, <1>3 DEF TypeOK, JMEM_PRESSURE_NONE, JMEM_PRESSURE_FULL, JMEM_PRESSURE_HIGH
<1>5. CallInv'
  BY <1>1 DEF CallInv, InCall, At
<1>6. ListInv'
  BY <1>1 DEF ListInv, Working
<1>7. CellsConserved'
  BY DEF CellsConserved, Conserved
<1>. QED
  BY <1>4, <1>5, <1>6, <1>7 DEF CellInv

\* A cell goes back to the free list.
LEMMA CellFreed ==
  ASSUME CellInv, Working, NEW a \in DOMAIN cells,
         cells' = Drop(cells, a), freeCells' = <<a>> \o freeCells, pages' = pages
  PROVE  /\ Conserved' /\ freeCells' \in Seq(Area)
         /\ DOMAIN cells' = DOMAIN cells \ {a} /\ \A c \in DOMAIN cells' : cells'[c] = cells[c]
<1>1. a \in Area /\ freeCells \in Seq(Area) /\ Conserved
  BY Types
<1>2. a \notin Range(freeCells)
  BY <1>1 DEF Conserved
<1>3. /\ freeCells' \in Seq(Area) /\ Range(freeCells') = Range(freeCells) \cup {a}
      /\ IsInjective(freeCells')
  BY <1>1, <1>2, PushCell DEF Conserved
<1>4. DOMAIN cells' = DOMAIN cells \ {a} /\ \A c \in DOMAIN cells' : cells'[c] = cells[c]
  BY DEF Drop
<1>5. PageSet' = PageSet
  BY DEF PageSet
<1>6. Range(freeCells') \cap DOMAIN cells' = {}
  BY <1>1, <1>3, <1>4 DEF Conserved
<1>7. Range(freeCells') \cup DOMAIN cells' = UNION { CellsOf(p) : p \in PageSet' }
  <2>1. Range(freeCells') \cup DOMAIN cells' = Range(freeCells) \cup DOMAIN cells
    BY <1>3, <1>4
  <2>. QED
    BY <1>1, <1>5, <2>1 DEF Conserved
<1>. QED
  BY <1>3, <1>4, <1>6, <1>7 DEF Conserved

\* The cells stay as they are.
LEMMA CellsSame ==
  ASSUME CellInv, Working, DOMAIN cells' = DOMAIN cells, freeCells' = freeCells, pages' = pages
  PROVE  Conserved' /\ freeCells' \in Seq(Area)
<1>1. PageSet' = PageSet
  BY DEF PageSet
<1>. QED
  BY <1>1, Types DEF Conserved

\* The pages stay as they are.
LEMMA PagesSame ==
  ASSUME CellInv, Working, UNCHANGED <<pages, start>>
  PROVE  pages' \in Seq(Area) /\ DOMAIN start' = PageSet' /\ \A p \in PageSet' : start'[p] = Start(p)
<1>1. PageSet' = PageSet
  BY DEF PageSet
<1>. QED
  BY <1>1 DEF CellInv, ListInv, TypeOK

\* The step a running call goes on with.
LEMMA GoOn ==
  ASSUME CellInv, InCall, op.kind # "free", UNCHANGED heap, UNCHANGED final, op' = op,
         pc' \in {"gc", "try", "again", "page", "null", "grow", "fatal"},
         after' \in {"none", "try", "again", "page", "grow"}, pc' = "gc" => after' # "none",
         At' \in {"again", "page"} => IsSmall(op.size),
         At' = "grow" => op.kind = "realloc" /\ op.ptr \in DOMAIN blocks /\ ~ IsSmall(op.size),
         pressure' \in 0 .. 3, sub' \in 0 .. 2
  PROVE  CellInv'
<1>1. Working /\ Working'
  BY DEF InCall, Working
<1>2. Owners' = Owners /\ blocks' = blocks
  BY DEF heap, Owners
<1>3. CallInv'
  BY <1>2 DEF CellInv, CallInv
<1>. QED
  BY <1>1, <1>3, GoStep DEF JMEM_PRESSURE_NONE, JMEM_PRESSURE_FULL, JMEM_PRESSURE_HIGH

\* A caller calls jmem_heap_alloc, jmem_heap_free_block or jmem_heap_realloc_block.
LEMMA CallStep ==
  ASSUME CellInv, NEW r \in Calls, Call(r)
  PROVE  CellInv'
<1>1. /\ pc = "idle" /\ pc' = "enter" /\ op' = r /\ UNCHANGED heap /\ UNCHANGED final
      /\ UNCHANGED <<pressure, sub, after>>
  BY DEF Call
<1>2. Owners' = Owners /\ Owners \subseteq Area
  BY <1>1, Types DEF heap, Owners
<1>3. /\ r \in CallType /\ (r.kind # "alloc" => r.ptr \in Owners)
      /\ (r.kind # "free" => r.size \in AllSizes)
  <2>1. 0 \in 0 .. 3 /\ 2 \in 0 .. 3 /\ 3 \in 0 .. 3
    OBVIOUS
  <2>2. CASE r \in [kind : {"alloc"}, ptr : {0}, size : AllSizes, max : MaxPressures]
    BY <2>1, <2>2 DEF CallType, MaxPressures, JMEM_PRESSURE_NONE, JMEM_PRESSURE_FULL, JMEM_PRESSURE_HIGH
  <2>3. CASE r \in [kind : {"free"}, ptr : Owners, size : {0}, max : {0}]
    BY <1>2, <2>1, <2>3 DEF CallType, JMEM_PRESSURE_NONE, JMEM_PRESSURE_FULL
  <2>4. CASE r \in [kind : {"realloc"}, ptr : Owners, size : AllSizes, max : {JMEM_PRESSURE_FULL}]
    BY <1>2, <2>1, <2>4 DEF CallType, JMEM_PRESSURE_NONE, JMEM_PRESSURE_FULL
  <2>. QED
    BY <2>2, <2>3, <2>4 DEF Calls
<1>4. CallInv'
  BY <1>1, <1>2, <1>3 DEF CallInv, InCall, At
<1>. QED
  BY <1>1, <1>4, GoStep DEF Working, CellInv, TypeOK

\* What is known of the running call.
LEMMA CallFacts ==
  ASSUME CellInv, InCall
  PROVE  /\ Working /\ op \in CallType /\ op.max \in 0 .. 3 /\ pressure \in 0 .. 3 /\ sub \in 0 .. 2
         /\ (op.kind # "alloc" => op.ptr \in Owners)
         /\ (op.kind # "free" => op.size \in AllSizes)
         /\ (pc # "enter" => op.kind # "free")
         /\ after \in {"none", "try", "again", "page", "grow"}
<1>1. op \in CallType
  BY DEF CellInv, CallInv
<1>2. op.max \in 0 .. 3
  BY <1>1 DEF CallType, JMEM_PRESSURE_NONE, JMEM_PRESSURE_FULL
<1>. QED
  BY <1>1, <1>2 DEF CellInv, CallInv, TypeOK, InCall, Working,
     JMEM_PRESSURE_NONE, JMEM_PRESSURE_FULL, JMEM_PRESSURE_HIGH

\* A cell or a block, and nothing else, belongs to a call.
LEMMA PtrFacts ==
  ASSUME CellInv, InCall, op.kind # "alloc"
  PROVE  /\ IsCell(op.ptr) => op.ptr \in DOMAIN cells
         /\ ~ IsCell(op.ptr) => op.ptr \in DOMAIN blocks
BY CallFacts, Dispatch DEF Owners

\* The steps that decide what to try next.
LEMMA DecideStep ==
  ASSUME CellInv,
         \/ EnterAlloc \/ GcDone \/ TryCellGc \/ AddPage \/ PageRetry \/ PageNull \/ TryNull
         \/ NullRetry \/ ReallocFromCell \/ ReallocToCell \/ ReallocGrow \/ GrowByCopy
  PROVE  CellInv'
<1> USE DEF JMEM_PRESSURE_NONE, JMEM_PRESSURE_LOW, JMEM_PRESSURE_HIGH, JMEM_PRESSURE_FULL
<1>1. CASE EnterAlloc \/ ReallocFromCell
  <2>1. /\ InCall /\ op.kind # "free" /\ UNCHANGED heap /\ UNCHANGED final /\ op' = op /\ sub' = sub
        /\ \/ pc' = "try" /\ after' = "none" /\ pressure' = 0
           \/ pc' = "gc" /\ after' = "try" /\ pressure' = 1
    BY <1>1 DEF EnterAlloc, ReallocFromCell, Collect, InCall
  <2>. QED
    BY <2>1, CallFacts, GoOn DEF At
<1>2. CASE GcDone
  <2>1. /\ pc = "gc" /\ InCall /\ UNCHANGED heap /\ UNCHANGED final /\ op' = op /\ sub' = sub
        /\ pressure' = pressure /\ pc' = after /\ after' = "none" /\ after # "none"
    BY <1>2 DEF GcDone, InCall, CellInv, CallInv
  <2>2. pc' \in {"try", "again", "page", "grow"} /\ At' = At
    BY <2>1, CallFacts DEF At
  <2>3. /\ At \in {"again", "page"} => IsSmall(op.size)
        /\ At = "grow" => op.kind = "realloc" /\ op.ptr \in DOMAIN blocks /\ ~ IsSmall(op.size)
    BY DEF CellInv, CallInv
  <2>. QED
    BY <2>1, <2>2, <2>3, CallFacts, GoOn
<1>3. CASE TryCellGc
  <2>1. /\ pc = "try" /\ InCall /\ UNCHANGED heap /\ UNCHANGED final /\ op' = op /\ sub' = sub
        /\ pressure' = pressure /\ pc' = "gc" /\ after' = "again" /\ IsSmall(op.size)
    BY <1>3 DEF TryCellGc, InCall
  <2>. QED
    BY <2>1, CallFacts, GoOn DEF At
<1>4. CASE AddPage
  <2>1. /\ pc = "again" /\ InCall /\ UNCHANGED heap /\ UNCHANGED final /\ op' = op
        /\ pressure' = pressure /\ IsSmall(op.size)
        /\ \/ pc' = "page" /\ after' = "none" /\ sub' = 0
           \/ pc' = "gc" /\ after' = "page" /\ sub' = 1
    BY <1>4 DEF AddPage, InCall, CellInv, CallInv, At
  <2>. QED
    BY <2>1, CallFacts, GoOn DEF At
<1>5. CASE PageRetry
  <2>1. /\ pc = "page" /\ InCall /\ UNCHANGED heap /\ UNCHANGED final /\ op' = op
        /\ pressure' = pressure /\ IsSmall(op.size) /\ pc' = "gc" /\ after' = "page"
        /\ sub < 2 /\ sub' = sub + 1
    BY <1>5 DEF PageRetry, InCall, CellInv, CallInv, At
  <2>2. sub' \in 0 .. 2
    BY <2>1, CallFacts
  <2>. QED
    BY <2>1, <2>2, CallFacts, GoOn DEF At
<1>6. CASE PageNull \/ TryNull
  <2>1. /\ pc \in {"page", "try"} /\ InCall /\ UNCHANGED heap /\ UNCHANGED final /\ op' = op
        /\ pressure' = pressure /\ sub' = sub /\ pc' = "null" /\ after' = after
    BY <1>6 DEF PageNull, TryNull, InCall
  <2>. QED
    BY <2>1, CallFacts, GoOn DEF At
<1>7. CASE NullRetry
  <2>1. /\ pc = "null" /\ InCall /\ UNCHANGED heap /\ UNCHANGED final /\ op' = op
        /\ pressure < op.max /\ pressure' = pressure + 1 /\ sub' = 0
        /\ \/ pc' = "fatal" /\ after' = "none"
           \/ pc' = "gc" /\ after' = "try"
    BY <1>7 DEF NullRetry, InCall
  <2>2. pressure' \in 0 .. 3
    BY <2>1, CallFacts
  <2>. QED
    BY <2>1, <2>2, CallFacts, GoOn DEF At
<1>8. CASE ReallocToCell
  <2>1. /\ pc = "enter" /\ InCall /\ UNCHANGED heap /\ UNCHANGED final /\ op' = op /\ op.kind = "realloc"
        /\ pressure' = pressure /\ sub' = sub /\ pc' = "try" /\ after' = after
    BY <1>8 DEF ReallocToCell, InCall
  <2>. QED
    BY <2>1, CallFacts, GoOn DEF At
<1>9. CASE ReallocGrow
  <2>1. /\ InCall /\ UNCHANGED heap /\ UNCHANGED final /\ op' = op /\ op.kind = "realloc"
        /\ sub' = sub /\ ~ IsCell(op.ptr) /\ ~ IsSmall(op.size)
        /\ \/ pc' = "grow" /\ after' = "none" /\ pressure' = 0
           \/ pc' = "gc" /\ after' = "grow" /\ pressure' = 1
    BY <1>9 DEF ReallocGrow, Collect, InCall
  <2>. QED
    BY <2>1, CallFacts, PtrFacts, GoOn DEF At
<1>10. CASE GrowByCopy
  <2>1. /\ pc = "grow" /\ InCall /\ UNCHANGED heap /\ UNCHANGED final /\ op' = op /\ sub' = sub
        /\ \/ pc' = "try" /\ after' = "none" /\ pressure' = 0
           \/ pc' = "gc" /\ after' = "try" /\ pressure' = 1
    BY <1>10 DEF GrowByCopy, Collect, InCall
  <2>. QED
    BY <2>1, CallFacts, GoOn DEF At
<1>. QED
  BY <1>1, <1>2, <1>3, <1>4, <1>5, <1>6, <1>7, <1>8, <1>9, <1>10

-----------------------------------------------------------------------------
(* The steps that move memory                                              *)

\* The collector frees a cell or a block that the running call is not about.
LEMMA GcFreeStep ==
  ASSUME CellInv, NEW a \in Area, GcFree(a)
  PROVE  CellInv'
<1>1. /\ pc = "gc" /\ a \in Owners /\ a # op.ptr
      /\ UNCHANGED <<pages, start, pc, op, pressure, sub, after, freed, iter>>
      /\ IF IsCell(a)
           THEN cells' = Drop(cells, a) /\ freeCells' = <<a>> \o freeCells /\ blocks' = blocks
           ELSE blocks' = Drop(blocks, a) /\ cells' = cells /\ freeCells' = freeCells
  BY DEF GcFree, final
<1>2. InCall /\ Working /\ Working'
  BY <1>1 DEF InCall, Working
<1>3. /\ IsCell(a) => a \in DOMAIN cells
      /\ ~ IsCell(a) => a \in DOMAIN blocks
  BY <1>1, <1>2, Dispatch DEF Owners
<1>4. /\ Conserved' /\ freeCells' \in Seq(Area) /\ PlaceInv'
      /\ DOMAIN blocks' \subseteq Area /\ \A b \in DOMAIN blocks' : blocks'[b] \in Sizes
      /\ DOMAIN cells' \subseteq DOMAIN cells /\ \A c \in DOMAIN cells' : cells'[c] = cells[c]
      /\ Owners' = Owners \ {a}
      /\ \A b \in DOMAIN blocks : b # a => b \in DOMAIN blocks'
  <2>1. CASE IsCell(a)
    <3>1. cells' = Drop(cells, a) /\ freeCells' = <<a>> \o freeCells /\ blocks' = blocks /\ a \in DOMAIN cells
      BY <1>1, <1>3, <2>1
    <3>2. /\ Conserved' /\ freeCells' \in Seq(Area)
          /\ DOMAIN cells' = DOMAIN cells \ {a} /\ \A c \in DOMAIN cells' : cells'[c] = cells[c]
      BY <1>1, <1>2, <3>1, CellFreed
    <3>3. /\ PlaceInv' /\ DOMAIN blocks' \subseteq Area
          /\ \A b \in DOMAIN blocks' : blocks'[b] \in Sizes
      BY <1>1, <3>1, BlocksDropped
    <3>4. Owners' = Owners \ {a}
      BY <1>2, <3>1, <3>2, Dispatch DEF Owners
    <3>. QED
      BY <3>1, <3>2, <3>3, <3>4
  <2>2. CASE ~ IsCell(a)
    <3>1. blocks' = Drop(blocks, a) /\ cells' = cells /\ freeCells' = freeCells /\ a \in DOMAIN blocks
      BY <1>1, <1>3, <2>2
    <3>2. DOMAIN blocks' = DOMAIN blocks \ {a} /\ \A b \in DOMAIN blocks' : blocks'[b] = blocks[b]
      BY <3>1 DEF Drop
    <3>3. Conserved' /\ freeCells' \in Seq(Area)
      BY <1>1, <1>2, <3>1, CellsSame
    <3>4. /\ PlaceInv' /\ DOMAIN blocks' \subseteq Area
          /\ \A b \in DOMAIN blocks' : blocks'[b] \in Sizes
      BY <1>1, <3>2, BlocksDropped
    <3>5. Owners' = Owners \ {a}
      BY <1>2, <3>1, <3>2, Dispatch DEF Owners
    <3>. QED
      BY <3>1, <3>2, <3>3, <3>4, <3>5
  <2>. QED
    BY <2>1, <2>2
<1>5. PageSet' = PageSet
  BY <1>1 DEF PageSet
<1>6. TypeOK'
  <2>1. Range(freeCells') \subseteq Area
    BY <1>4, ListFacts
  <2>. QED
    BY <1>1, <1>4, <1>5, <2>1 DEF CellInv, TypeOK
<1>7. CallInv'
  BY <1>1, <1>2, <1>4 DEF CellInv, CallInv, InCall, At
<1>8. ListInv'
  BY <1>1, <1>2, <1>4, <1>5 DEF CellInv, ListInv
<1>9. CellsConserved'
  BY <1>4 DEF CellsConserved, Conserved
<1>. QED
  BY <1>4, <1>6, <1>7, <1>8, <1>9 DEF CellInv

\* A call frees a cell or a block, or keeps its cell for the new size.
LEMMA FreeOrKeepStep ==
  ASSUME CellInv, FreeCell \/ FreeHeapBlock \/ ReallocInCell
  PROVE  CellInv'
<1>1. InCall /\ Working /\ Return /\ op.kind # "alloc" /\ UNCHANGED <<pages, start>> /\ pages' = pages
  BY DEF FreeCell, FreeHeapBlock, ReallocInCell, InCall, Working
<1>2. /\ pages' \in Seq(Area) /\ DOMAIN start' = PageSet' /\ \A p \in PageSet' : start'[p] = Start(p)
  BY <1>1, PagesSame
<1>3. DOMAIN cells \subseteq Area /\ \A c \in DOMAIN cells : cells[c] \in SmallSizes
  BY DEF CellInv, TypeOK
<1>4. CASE FreeCell
  <2>1. /\ op.ptr \in DOMAIN cells /\ cells' = Drop(cells, op.ptr)
        /\ freeCells' = <<op.ptr>> \o freeCells /\ blocks' = blocks
    BY <1>1, <1>4, PtrFacts DEF FreeCell
  <2>2. /\ Conserved' /\ freeCells' \in Seq(Area)
        /\ DOMAIN cells' = DOMAIN cells \ {op.ptr} /\ \A c \in DOMAIN cells' : cells'[c] = cells[c]
    BY <1>1, <2>1, CellFreed
  <2>3. PlaceInv' /\ DOMAIN blocks' \subseteq Area /\ \A b \in DOMAIN blocks' : blocks'[b] \in Sizes
    BY <1>1, <2>1, BlocksDropped
  <2>4. DOMAIN cells' \subseteq Area /\ \A c \in DOMAIN cells' : cells'[c] \in SmallSizes
    BY <1>3, <2>2
  <2>. QED
    BY <1>1, <1>2, <2>2, <2>3, <2>4, ReturnStep
<1>5. CASE FreeHeapBlock
  <2>1. blocks' = Drop(blocks, op.ptr) /\ UNCHANGED <<cells, freeCells>>
    BY <1>5 DEF FreeHeapBlock
  <2>2. DOMAIN blocks' \subseteq DOMAIN blocks /\ \A b \in DOMAIN blocks' : blocks'[b] = blocks[b]
    BY <2>1 DEF Drop
  <2>3. PlaceInv' /\ DOMAIN blocks' \subseteq Area /\ \A b \in DOMAIN blocks' : blocks'[b] \in Sizes
    BY <1>1, <2>2, BlocksDropped
  <2>4. Conserved' /\ freeCells' \in Seq(Area)
    BY <1>1, <2>1, CellsSame
  <2>5. DOMAIN cells' \subseteq Area /\ \A c \in DOMAIN cells' : cells'[c] \in SmallSizes
    BY <1>3, <2>1
  <2>. QED
    BY <1>1, <1>2, <2>3, <2>4, <2>5, ReturnStep
<1>6. CASE ReallocInCell
  <2>1. /\ op.ptr \in DOMAIN cells /\ cells' = Put(cells, op.ptr, op.size)
        /\ UNCHANGED <<blocks, freeCells>> /\ IsSmall(op.size) /\ op.kind # "free"
    BY <1>1, <1>6, PtrFacts DEF ReallocInCell
  <2>2. op.size \in SmallSizes
    BY <1>1, <2>1, CallFacts, SizeFacts
  <2>3. DOMAIN cells' = DOMAIN cells /\ \A c \in DOMAIN cells' : cells'[c] \in SmallSizes
    BY <1>3, <2>1, <2>2 DEF Put
  <2>4. Conserved' /\ freeCells' \in Seq(Area)
    BY <1>1, <2>1, <2>3, CellsSame
  <2>5. PlaceInv' /\ DOMAIN blocks' \subseteq Area /\ \A b \in DOMAIN blocks' : blocks'[b] \in Sizes
    BY <1>1, <2>1, BlocksDropped
  <2>6. DOMAIN cells' \subseteq Area
    BY <1>3, <2>3
  <2>. QED
    BY <1>1, <1>2, <2>3, <2>4, <2>5, <2>6, ReturnStep
<1>. QED
  BY <1>4, <1>5, <1>6

\* The block stays where it is with a size that is not larger in units.
LEMMA ReallocStayStep ==
  ASSUME CellInv, ReallocStay
  PROVE  CellInv'
<1> DEFINE a == op.ptr
           s == op.size
           B == DOMAIN blocks \ {a}
<1>1. /\ InCall /\ Working /\ Return /\ op.kind = "realloc" /\ UNCHANGED <<pages, start>> /\ pages' = pages
      /\ ~ IsCell(a) /\ ~ IsSmall(s) /\ ~ (Units(s) > Units(blocks[a]))
      /\ blocks' = Put(blocks, a, s) /\ UNCHANGED <<cells, freeCells>>
  BY DEF ReallocStay, InCall, Working, Grows
<1>2. a \in DOMAIN blocks /\ s \in Sizes /\ Units(s) \in Nat \ {0} /\ B \in SUBSET DOMAIN blocks
  BY <1>1, PtrFacts, CallFacts, SizeFacts
<1>3. a \in Area /\ a \in Int /\ Units(blocks[a]) \in Nat \ {0} /\ HeapUnits \in Nat
  BY <1>2, Types
<1>4. Units(s) <= Units(blocks[a])
  BY <1>1, <1>2, <1>3
<1>5. /\ DOMAIN blocks' = B \cup {a} /\ blocks'[a] = s /\ \A b \in B : b # a => blocks'[b] = blocks[b]
  BY <1>1, <1>2 DEF Put
<1>6. a + Units(s) <= HeapUnits + 1
  <2>1. a + Units(blocks[a]) <= HeapUnits + 1
    BY <1>2 DEF CellInv, PlaceInv
  <2>. QED
    BY <1>2, <1>3, <1>4, <2>1
<1>7. ASSUME NEW b \in B PROVE Beside(a, Units(s), b, Units(blocks[b]))
  <2>1. Beside(a, Units(blocks[a]), b, Units(blocks[b])) /\ b \in Int /\ Units(blocks[b]) \in Nat
    BY <1>2, Types DEF CellInv, PlaceInv
  <2>. QED
    BY <1>2, <1>3, <1>4, <2>1 DEF Beside
<1>8. ASSUME NEW p \in PageSet PROVE Beside(a, Units(s), p, PageUnits)
  <2>1. Beside(a, Units(blocks[a]), p, PageUnits) /\ p \in Int /\ PageUnits \in Nat
    BY <1>2, Types DEF CellInv, PlaceInv
  <2>. QED
    BY <1>2, <1>3, <1>4, <2>1 DEF Beside
<1>. HIDE DEF a, s, B
<1>9. PlaceInv' /\ DOMAIN blocks' \subseteq Area /\ \A b \in DOMAIN blocks' : blocks'[b] \in Sizes
  BY <1>1, <1>2, <1>3, <1>5, <1>6, <1>7, <1>8, BlockPlaced
<1>10. Conserved' /\ freeCells' \in Seq(Area)
  BY <1>1, CellsSame
<1>11. DOMAIN cells' \subseteq Area /\ \A c \in DOMAIN cells' : cells'[c] \in SmallSizes
  BY <1>1 DEF CellInv, TypeOK
<1>12. pages' \in Seq(Area) /\ DOMAIN start' = PageSet' /\ \A p \in PageSet' : start'[p] = Start(p)
  BY <1>1, PagesSame
<1>. QED
  BY <1>1, <1>9, <1>10, <1>11, <1>12, ReturnStep

\* The block grows over the free units next to it.
LEMMA GrowExtendStep ==
  ASSUME CellInv, NEW a \in Area, GrowExtend(a)
  PROVE  CellInv'
<1> DEFINE s == op.size
           B == DOMAIN blocks \ {op.ptr}
<1>1. /\ pc = "grow" /\ InCall /\ Working /\ Return /\ UNCHANGED <<pages, start>> /\ pages' = pages
      /\ FreeFor(Drop(InUse, op.ptr), a, s)
      /\ blocks' = Put(Drop(blocks, op.ptr), a, s) /\ UNCHANGED <<cells, freeCells>>
  BY DEF GrowExtend, ExtendTo, InCall, Working
<1>2. op.kind = "realloc" /\ op.ptr \in DOMAIN blocks /\ ~ IsSmall(s)
  BY <1>1 DEF CellInv, CallInv, At
<1>3. s \in Sizes /\ Units(s) \in Nat \ {0} /\ B \in SUBSET DOMAIN blocks /\ a \in Int /\ HeapUnits \in Nat
  BY <1>1, <1>2, CallFacts, SizeFacts DEF Area
<1> DEFINE f == Drop(InUse, op.ptr)
<1>4. /\ \A b \in B : b \in DOMAIN f /\ f[b] = blocks[b]
      /\ \A p \in PageSet : p \in DOMAIN f /\ f[p] = PageBytes
  BY <1>1, <1>2, InUseFacts, Dispatch DEF Drop
<1>5. /\ DOMAIN blocks' = B \cup {a} /\ blocks'[a] = s /\ \A b \in B : b # a => blocks'[b] = blocks[b]
  BY <1>1 DEF Put, Drop
<1>. HIDE DEF f, B, s
<1>6. /\ a + Units(s) <= HeapUnits + 1
      /\ \A b \in DOMAIN f : b \in Int /\ Units(f[b]) \in Nat \ {0} => Beside(a, Units(s), b, Units(f[b]))
  BY <1>1, <1>3, FreeRun DEF f
<1>7. \A b \in B : Beside(a, Units(s), b, Units(blocks[b]))
  BY <1>3, <1>4, <1>6, Types
<1>8. \A p \in PageSet : Beside(a, Units(s), p, PageUnits)
  BY <1>4, <1>6, Types
<1>9. PlaceInv' /\ DOMAIN blocks' \subseteq Area /\ \A b \in DOMAIN blocks' : blocks'[b] \in Sizes
  BY <1>1, <1>3, <1>5, <1>6, <1>7, <1>8, BlockPlaced
<1>10. Conserved' /\ freeCells' \in Seq(Area)
  BY <1>1, CellsSame
<1>11. DOMAIN cells' \subseteq Area /\ \A c \in DOMAIN cells' : cells'[c] \in SmallSizes
  BY <1>1 DEF CellInv, TypeOK
<1>12. pages' \in Seq(Area) /\ DOMAIN start' = PageSet' /\ \A p \in PageSet' : start'[p] = Start(p)
  BY <1>1, PagesSame
<1>. QED
  BY <1>1, <1>9, <1>10, <1>11, <1>12, ReturnStep

\* A block is taken from the main heap; the old cell or block is freed.
LEMMA TryBlockStep ==
  ASSUME CellInv, NEW a \in Area, TryBlock(a)
  PROVE  CellInv'
<1> DEFINE s == op.size
           B == IF OldBlock THEN DOMAIN blocks \ {op.ptr} ELSE DOMAIN blocks
<1>1. /\ pc = "try" /\ InCall /\ Working /\ Return /\ UNCHANGED <<pages, start>> /\ pages' = pages
      /\ ~ IsSmall(s) /\ FreeFor(InUse, a, s)
      /\ blocks' = Put(IF OldBlock THEN Drop(blocks, op.ptr) ELSE blocks, a, s)
      /\ cells' = (IF OldCell THEN Drop(cells, op.ptr) ELSE cells)
      /\ freeCells' = (IF OldCell THEN <<op.ptr>> \o freeCells ELSE freeCells)
  BY DEF TryBlock, InCall, Working
<1>2. s \in Sizes /\ Units(s) \in Nat \ {0} /\ B \in SUBSET DOMAIN blocks /\ a \in Int /\ HeapUnits \in Nat
  BY <1>1, CallFacts, SizeFacts DEF Area
<1>3. /\ a + Units(s) <= HeapUnits + 1
      /\ \A b \in DOMAIN InUse : b \in Int /\ Units(InUse[b]) \in Nat \ {0} =>
           Beside(a, Units(s), b, Units(InUse[b]))
  <2>. HIDE DEF s
  <2>. QED
    BY <1>1, <1>2, FreeRun
<1>4. /\ DOMAIN blocks' = B \cup {a} /\ blocks'[a] = s /\ \A b \in B : b # a => blocks'[b] = blocks[b]
  BY <1>1 DEF Put, Drop
<1>. HIDE DEF B, s
<1>5. \A b \in B : Beside(a, Units(s), b, Units(blocks[b]))
  BY <1>1, <1>2, <1>3, InUseFacts, Types
<1>6. \A p \in PageSet : Beside(a, Units(s), p, PageUnits)
  BY <1>1, <1>3, InUseFacts, Types
<1>7. PlaceInv' /\ DOMAIN blocks' \subseteq Area /\ \A b \in DOMAIN blocks' : blocks'[b] \in Sizes
  BY <1>1, <1>2, <1>3, <1>4, <1>5, <1>6, BlockPlaced
<1>8. /\ Conserved' /\ freeCells' \in Seq(Area) /\ DOMAIN cells' \subseteq DOMAIN cells
      /\ \A c \in DOMAIN cells' : cells'[c] = cells[c]
  <2>1. CASE OldCell
    <3>1. op.ptr \in DOMAIN cells /\ cells' = Drop(cells, op.ptr) /\ freeCells' = <<op.ptr>> \o freeCells
      BY <1>1, <2>1 DEF OldCell
    <3>. QED
      BY <1>1, <3>1, CellFreed
  <2>2. CASE ~ OldCell
    <3>1. cells' = cells /\ freeCells' = freeCells
      BY <1>1, <2>2
    <3>. QED
      BY <1>1, <3>1, CellsSame
  <2>. QED
    BY <2>1, <2>2
<1>9. DOMAIN cells' \subseteq Area /\ \A c \in DOMAIN cells' : cells'[c] \in SmallSizes
  BY <1>8 DEF CellInv, TypeOK
<1>10. pages' \in Seq(Area) /\ DOMAIN start' = PageSet' /\ \A p \in PageSet' : start'[p] = Start(p)
  BY <1>1, PagesSame
<1>. QED
  BY <1>1, <1>7, <1>8, <1>9, <1>10, ReturnStep

\* The first free cell is handed out.
LEMMA CellGiven ==
  ASSUME CellInv, Working, op.size \in SmallSizes, NEW l \in Seq(Area), l # <<>>, IsInjective(l),
         Range(l) \cap DOMAIN cells = {},
         Range(l) \cup DOMAIN cells = UNION { CellsOf(p) : p \in PageSet' },
         GiveCell(Head(l), Tail(l))
  PROVE  /\ Conserved' /\ freeCells' \in Seq(Area)
         /\ DOMAIN cells' \subseteq Area /\ \A c \in DOMAIN cells' : cells'[c] \in SmallSizes
         /\ DOMAIN blocks' \subseteq DOMAIN blocks /\ \A b \in DOMAIN blocks' : blocks'[b] = blocks[b]
         /\ Return
<1> DEFINE a == Head(l)
           t == Tail(l)
<1>1. a \in Area /\ t \in Seq(Area) /\ Range(l) = Range(t) \cup {a} /\ IsInjective(t) /\ a \notin Range(t)
  BY PopCell
<1>2. /\ cells' = Put(cells, a, op.size) /\ freeCells' = t /\ Return
      /\ blocks' = (IF OldBlock THEN Drop(blocks, op.ptr) ELSE blocks)
  BY DEF GiveCell
<1>. HIDE DEF a, t
<1>3. DOMAIN cells' = DOMAIN cells \cup {a} /\ \A c \in DOMAIN cells' : cells'[c] \in SmallSizes
  BY <1>2 DEF Put, CellInv, TypeOK
<1>4. DOMAIN blocks' \subseteq DOMAIN blocks /\ \A b \in DOMAIN blocks' : blocks'[b] = blocks[b]
  BY <1>2 DEF Drop
<1>5. Range(t) \cap DOMAIN cells' = {}
  BY <1>1, <1>3
<1>6. Range(t) \cup DOMAIN cells' = Range(l) \cup DOMAIN cells
  BY <1>1, <1>3
<1>7. Conserved'
  BY <1>1, <1>2, <1>5, <1>6 DEF Conserved
<1>8. DOMAIN cells' \subseteq Area
  BY <1>1, <1>3 DEF CellInv, TypeOK
<1>. QED
  BY <1>1, <1>2, <1>3, <1>4, <1>7, <1>8

\* A small request takes a cell of the free list.
LEMMA TryCellStep ==
  ASSUME CellInv, TryCell
  PROVE  CellInv'
<1>1. /\ pc \in {"try", "again"} /\ InCall /\ Working /\ IsSmall(op.size) /\ freeCells # <<>>
      /\ GiveCell(Head(freeCells), Tail(freeCells)) /\ UNCHANGED <<pages, start>> /\ pages' = pages
  BY DEF TryCell, InCall, Working
<1>2. op.size \in SmallSizes
  BY <1>1, CallFacts, SizeFacts
<1>3. freeCells \in Seq(Area) /\ Conserved /\ PageSet' = PageSet
  BY <1>1, Types DEF PageSet
<1>4. /\ Conserved' /\ freeCells' \in Seq(Area) /\ Return
      /\ DOMAIN cells' \subseteq Area /\ \A c \in DOMAIN cells' : cells'[c] \in SmallSizes
      /\ DOMAIN blocks' \subseteq DOMAIN blocks /\ \A b \in DOMAIN blocks' : blocks'[b] = blocks[b]
  <2>1. /\ IsInjective(freeCells) /\ Range(freeCells) \cap DOMAIN cells = {}
        /\ Range(freeCells) \cup DOMAIN cells = UNION { CellsOf(p) : p \in PageSet' }
    BY <1>3 DEF Conserved
  <2>. QED
    BY <1>1, <1>2, <1>3, <2>1, CellGiven
<1>5. PlaceInv' /\ DOMAIN blocks' \subseteq Area /\ \A b \in DOMAIN blocks' : blocks'[b] \in Sizes
  BY <1>1, <1>4, BlocksDropped
<1>6. pages' \in Seq(Area) /\ DOMAIN start' = PageSet' /\ \A p \in PageSet' : start'[p] = Start(p)
  BY <1>1, PagesSame
<1>. QED
  BY <1>1, <1>4, <1>5, <1>6, ReturnStep

\* A new page is linked and its first cell handed out.
LEMMA PageTakeStep ==
  ASSUME CellInv, NEW p \in Area, PageTake(p)
  PROVE  CellInv'
<1> DEFINE l == PageCells(p) \o freeCells
<1>1. /\ pc = "page" /\ InCall /\ Working /\ FreeFor(InUse, p, PageBytes)
      /\ pages' = <<p>> \o pages /\ start' = Put(start, p, Start(p))
      /\ GiveCell(Head(l), Tail(l))
  BY DEF PageTake, InCall, Working
<1>2. IsSmall(op.size) /\ op.size \in SmallSizes
  BY <1>1, CallFacts, SizeFacts DEF CellInv, CallInv, At
<1>3. /\ p \in Int /\ PageUnits \in Nat \ {0} /\ Units(PageBytes) = PageUnits /\ HeapUnits \in Nat
      /\ CellUnits \in Nat \ {0} /\ pages \in Seq(Area) /\ freeCells \in Seq(Area) /\ Conserved
  BY <1>1, Types DEF Area
<1>4. /\ p + PageUnits <= HeapUnits + 1
      /\ \A b \in DOMAIN InUse : b \in Int /\ Units(InUse[b]) \in Nat \ {0} =>
           Beside(p, PageUnits, b, Units(InUse[b]))
  <2>1. Units(PageBytes) \in Nat \ {0}
    BY <1>3
  <2>2. /\ p + Units(PageBytes) <= HeapUnits + 1
        /\ \A b \in DOMAIN InUse : b \in Int /\ Units(InUse[b]) \in Nat \ {0} =>
             Beside(p, Units(PageBytes), b, Units(InUse[b]))
    BY <1>1, <1>3, <2>1, FreeRun
  <2>. QED
    BY <1>3, <2>2
<1>5. /\ \A b \in DOMAIN blocks : Beside(p, PageUnits, b, Units(blocks[b]))
      /\ \A q \in PageSet : Beside(p, PageUnits, q, PageUnits) /\ q # p
  <2>1. \A b \in DOMAIN blocks : Beside(p, PageUnits, b, Units(blocks[b]))
    BY <1>1, <1>4, InUseFacts, Types
  <2>2. \A q \in PageSet : Beside(p, PageUnits, q, PageUnits)
    BY <1>1, <1>4, InUseFacts, Types
  <2>3. ~ Beside(p, PageUnits, p, PageUnits)
    BY <1>3 DEF Beside
  <2>. QED
    BY <2>1, <2>2, <2>3
<1>6. pages' \in Seq(Area) /\ PageSet' = PageSet \cup {p}
  BY <1>1, <1>3, PushCell DEF PageSet
<1>7. DOMAIN start' = PageSet' /\ \A q \in PageSet' : start'[q] = Start(q)
  BY <1>1, <1>6 DEF Put, CellInv, TypeOK, ListInv
<1>8. CellsOf(p) \subseteq Area
  <2>1. \A c \in CellsOf(p) : c \in Int /\ p < c /\ c + CellUnits <= p + PageUnits
    BY <1>3, CellIn
  <2>2. ASSUME NEW c \in CellsOf(p) PROVE c \in Area
    <3>1. c \in Int /\ p < c /\ c + CellUnits <= p + PageUnits /\ 1 <= p
      BY <2>1 DEF Area
    <3>. QED
      BY <1>3, <1>4, <3>1 DEF Area
  <2>. QED
    BY <2>2
<1>9. ASSUME NEW q \in PageSet, NEW c \in CellsOf(q) PROVE c \notin CellsOf(p)
  <2>1. q \in Int /\ Beside(p, PageUnits, q, PageUnits)
    BY <1>5, Types
  <2>2. c \in Int /\ q < c /\ c + CellUnits <= q + PageUnits
    BY <2>1, CellIn
  <2>3. c \in CellsOf(p) => p < c /\ c + CellUnits <= p + PageUnits
    BY <1>3, CellIn
  <2>. QED
    BY <1>3, <2>1, <2>2, <2>3 DEF Beside
<1>10. CellsOf(p) \cap Range(freeCells) = {} /\ CellsOf(p) \cap DOMAIN cells = {}
  BY <1>1, <1>9, CellPage
<1>11. /\ l \in Seq(Area) /\ l # <<>> /\ Range(l) = CellsOf(p) \cup Range(freeCells) /\ IsInjective(l)
  BY <1>3, <1>8, <1>10, LinkPage DEF Conserved
<1>. HIDE DEF l
<1>12. /\ Conserved' /\ freeCells' \in Seq(Area) /\ Return
       /\ DOMAIN cells' \subseteq Area /\ \A c \in DOMAIN cells' : cells'[c] \in SmallSizes
       /\ DOMAIN blocks' \subseteq DOMAIN blocks /\ \A b \in DOMAIN blocks' : blocks'[b] = blocks[b]
  <2>1. Range(l) \cap DOMAIN cells = {}
    BY <1>3, <1>10, <1>11 DEF Conserved
  <2>2. Range(l) \cup DOMAIN cells = UNION { CellsOf(q) : q \in PageSet' }
    <3>1. Range(l) \cup DOMAIN cells = CellsOf(p) \cup UNION { CellsOf(q) : q \in PageSet }
      BY <1>3, <1>11 DEF Conserved
    <3>. QED
      BY <1>6, <3>1
  <2>. QED
    BY <1>1, <1>2, <1>11, <2>1, <2>2, CellGiven
<1>13. PlaceInv'
  <2>1. \A x, m, y, n : Beside(x, m, y, n) <=> Beside(y, n, x, m)
    BY DEF Beside
  <2>2. /\ \A b \in DOMAIN blocks' : b + Units(blocks'[b]) <= HeapUnits + 1
        /\ \A b, c \in DOMAIN blocks' : b # c => Beside(b, Units(blocks'[b]), c, Units(blocks'[c]))
    BY <1>12 DEF CellInv, PlaceInv
  <2>3. \A q \in PageSet' : q + PageUnits <= HeapUnits + 1
    BY <1>4, <1>6 DEF CellInv, PlaceInv
  <2>4. \A q, r \in PageSet' : q # r => Beside(q, PageUnits, r, PageUnits)
    BY <1>5, <1>6, <2>1 DEF CellInv, PlaceInv
  <2>5. \A b \in DOMAIN blocks', q \in PageSet' : Beside(b, Units(blocks'[b]), q, PageUnits)
    BY <1>5, <1>6, <1>12, <2>1 DEF CellInv, PlaceInv
  <2>. QED
    BY <2>2, <2>3, <2>4, <2>5 DEF PlaceInv
<1>14. DOMAIN blocks' \subseteq Area /\ \A b \in DOMAIN blocks' : blocks'[b] \in Sizes
  BY <1>12, Types
<1>. QED
  BY <1>1, <1>6, <1>7, <1>12, <1>13, <1>14, ReturnStep

\* The request fails; a reallocation from a block to a cell loses its block.
LEMMA NullStep ==
  ASSUME CellInv, NullReturn \/ NullDirect
  PROVE  CellInv'
<1>1. /\ InCall /\ Working /\ Return /\ UNCHANGED <<pages, start>> /\ pages' = pages
      /\ UNCHANGED <<cells, freeCells>>
      /\ DOMAIN blocks' \subseteq DOMAIN blocks /\ \A b \in DOMAIN blocks' : blocks'[b] = blocks[b]
  BY DEF NullReturn, NullDirect, InCall, Working, heap, Drop
<1>2. pages' \in Seq(Area) /\ DOMAIN start' = PageSet' /\ \A p \in PageSet' : start'[p] = Start(p)
  BY <1>1, PagesSame
<1>3. PlaceInv' /\ DOMAIN blocks' \subseteq Area /\ \A b \in DOMAIN blocks' : blocks'[b] \in Sizes
  BY <1>1, BlocksDropped
<1>4. Conserved' /\ freeCells' \in Seq(Area)
  BY <1>1, CellsSame
<1>5. DOMAIN cells' \subseteq Area /\ \A c \in DOMAIN cells' : cells'[c] \in SmallSizes
  BY <1>1 DEF CellInv, TypeOK
<1>. QED
  BY <1>1, <1>2, <1>3, <1>4, <1>5, ReturnStep

-----------------------------------------------------------------------------
(* jmem_heap_finalize                                                      *)

\* It starts when everything the engine owned is freed.
LEMMA StartFinalizeStep ==
  ASSUME CellInv, StartFinalize
  PROVE  CellInv'
<1>1. /\ pc = "idle" /\ pc' = "finalize" /\ Owners = {} /\ iter' = 1
      /\ UNCHANGED <<blocks, cells, pages, start, freeCells, op, pressure, sub, after, freed>>
  BY DEF StartFinalize, heap
<1>2. PageSet' = PageSet /\ Owners' = Owners
  BY <1>1 DEF PageSet, Owners
<1>3. TypeOK'
  BY <1>1, <1>2 DEF CellInv, TypeOK
<1>4. CallInv'
  BY <1>1 DEF CallInv, InCall, At
<1>5. PlaceInv' /\ ListInv' /\ CellsConserved'
  BY <1>1, <1>2 DEF CellInv, PlaceInv, ListInv, CellsConserved, Working
<1>. QED
  BY <1>3, <1>4, <1>5 DEF CellInv

\* jmem_cellocator_finalize frees a page, whichever way jmem_heap_free_block
\* takes it for.
LEMMA FinalizePageStep ==
  ASSUME CellInv, FinalizeFree \/ FinalizeAsCell
  PROVE  CellInv'
<1> DEFINE p == pages[iter]
<1>1. /\ pc = "finalize" /\ iter <= Len(pages) /\ iter' = iter + 1
      /\ UNCHANGED <<blocks, cells, pages, pc, op, pressure, sub, after>>
      /\ \/ /\ freed' = freed \cup {p} /\ freeCells' = freeCells
            /\ start' = [start EXCEPT ![p] = StaleStart(p)]
         \/ /\ freed' = freed /\ freeCells' = <<p>> \o freeCells
            /\ start' = [start EXCEPT ![p] = IF freeCells = <<>> THEN 0 ELSE Head(freeCells)]
  BY DEF FinalizeFree, FinalizeAsCell
<1>2. /\ iter \in Nat /\ iter >= 1 /\ Owners = {}
      /\ pages \in Seq(Area) /\ freeCells \in Seq(Area) /\ HeapUnits \in Nat
  BY <1>1, Types DEF CellInv, ListInv, TypeOK, Working
<1>3. p \in PageSet /\ p \in Area
  <2>1. iter \in 1 .. Len(pages)
    BY <1>1, <1>2
  <2>. QED
    BY <2>1, Types
<1>4. DOMAIN start = PageSet /\ \A q \in PageSet : start[q] \in 0 .. (HeapUnits + 1)
  BY DEF CellInv, TypeOK
<1>. HIDE DEF p
<1>5. DOMAIN start' = PageSet /\ \A q \in PageSet : start'[q] \in 0 .. (HeapUnits + 1)
  <2>1. 0 \in 0 .. (HeapUnits + 1) /\ HeapUnits + 1 \in 0 .. (HeapUnits + 1)
    BY <1>2
  <2>2. StaleStart(p) \in 0 .. (HeapUnits + 1)
    BY <1>3, <1>4, <2>1 DEF StaleStart
  <2>3. freeCells # <<>> => Head(freeCells) \in 0 .. (HeapUnits + 1)
    <3>1. \A x \in Area : x \in 0 .. (HeapUnits + 1)
      BY <1>2 DEF Area
    <3>. QED
      BY <1>2, <3>1, PopCell
  <2>4. \E v \in 0 .. (HeapUnits + 1) : start' = [start EXCEPT ![p] = v]
    BY <1>1, <2>1, <2>2, <2>3
  <2>. QED
    BY <1>4, <2>4
<1>6. freeCells' \in Seq(Area) /\ freed' \subseteq PageSet
  BY <1>1, <1>2, <1>3, PushCell DEF CellInv, TypeOK
<1>7. Range(freeCells') \subseteq Area
  BY <1>6, ListFacts
<1>8. PageSet' = PageSet /\ Owners' = Owners /\ iter' \in Nat /\ iter' >= 1
  BY <1>1, <1>2 DEF PageSet, Owners
<1>9. TypeOK'
  BY <1>1, <1>5, <1>6, <1>7, <1>8 DEF CellInv, TypeOK
<1>10. CallInv'
  BY <1>1 DEF CallInv, InCall, At
<1>11. PlaceInv' /\ CellsConserved'
  BY <1>1, <1>8 DEF CellInv, PlaceInv, CellsConserved
<1>12. ListInv'
  BY <1>1, <1>2, <1>6, <1>8 DEF ListInv, Working
<1>. QED
  BY <1>9, <1>10, <1>11, <1>12 DEF CellInv

\* It ends, or nothing happens.
LEMMA StopStep ==
  ASSUME CellInv, FinalizeDone \/ UNCHANGED vars
  PROVE  CellInv'
<1>1. /\ UNCHANGED <<blocks, cells, pages, start, freeCells, op, pressure, sub, after, freed, iter>>
      /\ pc' = pc \/ (pc = "finalize" /\ pc' = "done")
  BY DEF FinalizeDone, heap, final, vars
<1>2. PageSet' = PageSet /\ Owners' = Owners
  BY <1>1 DEF PageSet, Owners
<1>3. TypeOK'
  BY <1>1, <1>2 DEF CellInv, TypeOK
<1>4. CallInv'
  BY <1>1, <1>2 DEF CellInv, CallInv, InCall, At
<1>5. PlaceInv' /\ ListInv' /\ CellsConserved'
  BY <1>1, <1>2 DEF CellInv, PlaceInv, ListInv, CellsConserved, Working
<1>. QED
  BY <1>3, <1>4, <1>5 DEF CellInv

-----------------------------------------------------------------------------
(* The theorems                                                            *)

\* The invariant holds when the heap is empty.
LEMMA InitInv ==
  ASSUME Init
  PROVE  CellInv
<1>1. /\ DOMAIN blocks = {} /\ DOMAIN cells = {} /\ DOMAIN start = {} /\ pages = <<>> /\ freeCells = <<>>
      /\ pc = "idle" /\ pressure = 0 /\ sub = 0 /\ after = "none" /\ freed = {} /\ iter = 0
  BY DEF Init, JMEM_PRESSURE_NONE
<1>2. PageSet = {} /\ Range(freeCells) = {} /\ IsInjective(freeCells)
  BY <1>1 DEF PageSet, Range, IsInjective
<1>3. pages \in Seq(Area) /\ freeCells \in Seq(Area)
  BY <1>1
<1>4. TypeOK
  BY <1>1, <1>2 DEF TypeOK, JMEM_PRESSURE_NONE, JMEM_PRESSURE_FULL, JMEM_PRESSURE_HIGH
<1>5. CallInv /\ PlaceInv /\ ListInv
  BY <1>1, <1>2, <1>3 DEF CallInv, PlaceInv, ListInv, InCall, At, Working
<1>6. CellsConserved
  BY <1>1, <1>2 DEF CellsConserved
<1>. QED
  BY <1>4, <1>5, <1>6 DEF CellInv

\* Every step keeps the invariant.
LEMMA NextInv ==
  ASSUME CellInv, [Next]_vars
  PROVE  CellInv'
<1>1. CASE UNCHANGED vars
  BY <1>1, StopStep
<1>2. ASSUME NEW r \in Calls, Call(r) PROVE CellInv'
  BY <1>2, CallStep
<1>3. CASE StartFinalize \/ FinalStep \/ Stopped
  BY <1>3, StartFinalizeStep, FinalizePageStep, StopStep DEF FinalStep, Stopped
<1>4. CASE AllocStep
  <2>1. ASSUME NEW a \in Area, PageTake(a) \/ TryBlock(a) PROVE CellInv'
    BY <2>1, PageTakeStep, TryBlockStep
  <2>. QED
    BY <1>4, <2>1, DecideStep, TryCellStep, NullStep DEF AllocStep
<1>5. CASE FreeStep
  BY <1>5, FreeOrKeepStep DEF FreeStep
<1>6. CASE ReallocStep
  <2>1. ASSUME NEW a \in Area, GrowExtend(a) PROVE CellInv'
    BY <2>1, GrowExtendStep
  <2>. QED
    BY <1>6, <2>1, FreeOrKeepStep, DecideStep, ReallocStayStep DEF ReallocStep
<1>7. CASE GcStep
  <2>1. ASSUME NEW a \in Area, GcFree(a) PROVE CellInv'
    BY <2>1, GcFreeStep
  <2>. QED
    BY <1>7, <2>1, DecideStep DEF GcStep
<1>. QED
  BY <1>1, <1>2, <1>3, <1>4, <1>5, <1>6, <1>7 DEF Next, Step

\* The inductive invariant holds in every heap, for all sizes of pages and cells.
THEOREM CellInvariant == Spec => []CellInv
<1>1. Init => CellInv
  BY InitInv
<1>2. CellInv /\ [Next]_vars => CellInv'
  BY NextInv
<1>. QED
  BY <1>1, <1>2, PTL DEF Spec

\* jmem_cellocator loses no cell and hands none out twice, whatever frees,
\* reallocations and collections in the middle of a request do to the free list.
THEOREM CellsConservedCorrect == Spec => []CellsConserved
<1>1. CellInv => CellsConserved
  BY DEF CellInv
<1>. QED
  BY <1>1, CellInvariant, PTL

\* jmem_cellocator_find tells the cells from the blocks of the main heap, and
\* what the callers own never overlaps.
THEOREM OwnersCorrect == Spec => []OwnersSound
<1>1. CellInv => OwnersSound
  BY InvSound
<1>. QED
  BY <1>1, CellInvariant, PTL

=============================================================================
