---------------------------- MODULE QueueProofs ----------------------------
(***************************************************************************)
(* Proofs about the three queues: the Chase-Lev deque is a work pool when  *)
(* the owner is the only thread that calls pop, as the class comment       *)
(* demands; the SPSC ring is a bounded FIFO when one thread pushes; the    *)
(* MPMC queue is one for any number of producers and consumers.  Each for  *)
(* every capacity, number of threads and number of pushes.                 *)
(***************************************************************************)
EXTENDS MCQueues, TLAPS

(* Remainders *)

\* Two numbers less than C apart have different remainders.
LEMMA ModInjective ==
  ASSUME NEW C \in Nat \ {0}, NEW i \in Nat, NEW j \in Nat, i < j, j - i < C
  PROVE  i % C # j % C
<1> DEFINE q == i \div C
           r == j \div C
<1>1. q \in Nat /\ r \in Nat
  OBVIOUS
<1>2. i = C * q + (i % C) /\ j = C * r + (j % C)
  OBVIOUS
<1>3. SUFFICES ASSUME i % C = j % C PROVE FALSE
  OBVIOUS
<1>4. C * (r - q) = j - i
  BY <1>1, <1>2, <1>3
<1>5. r - q >= 1 => C * (r - q) >= C
  BY <1>1
<1>6. r - q <= 0 => C * (r - q) <= 0
  BY <1>1
<1> QED BY <1>1, <1>4, <1>5, <1>6

\* Adding a multiple of C leaves the remainder alone.
LEMMA ModShift ==
  ASSUME NEW C \in Nat \ {0}, NEW n \in Nat, NEW k \in Nat
  PROVE  (n + C * k) % C = n % C
<1> DEFINE s == n + C * k
           a == s \div C
           c == n \div C
           u == s % C
           v == n % C
           d == a - c - k
<1>1. s \in Nat
  OBVIOUS
<1> HIDE DEF s
<1>2. a \in Nat /\ s = C * a + u /\ u \in 0..(C - 1)
  BY <1>1
<1>3. c \in Nat /\ n = C * c + v /\ v \in 0..(C - 1)
  OBVIOUS
<1> HIDE DEF a, c, u, v
<1>4. d \in Int /\ C * d = C * a - C * c - C * k
  BY <1>2, <1>3
<1>5. v - u = C * d
  BY <1>2, <1>3, <1>4 DEF s
<1> HIDE DEF d
<1>6. d >= 1 => C * d >= C
  BY <1>4
<1>7. d <= -1 => C * d <= -C
  BY <1>4
<1>8. d = 0
  BY <1>2, <1>3, <1>4, <1>5, <1>6, <1>7
<1>9. u = v
  BY <1>2, <1>3, <1>5, <1>8
<1> QED BY <1>9 DEF u, v, s

-----------------------------------------------------------------------------
(* The Chase-Lev deque *)

Cell(i) == buffer[Slot(i)]

Last == IF Claiming THEN bottom ELSE bottom - 1

ThiefPc == {"idle", "stealBottom", "stealRead", "stealCas"}

OwnerPc == {"idle", "pushStore", "pushPublish", "popStore", "popTop",
            "popCas", "popRestore"}

\* Where top_ may be relative to bottom_ at each point of the owner's code,
\* and what the owner's locals remember of them.
IndexInv ==
  /\ pc[Owner] \in OwnerPc
  /\ pc[Owner] \in {"idle", "pushStore", "pushPublish", "popStore"} => top <= bottom
  /\ pc[Owner] = "popTop" => top <= bottom + 1
  /\ pc[Owner] = "popCas" => t[Owner] = bottom /\ (top = bottom \/ top = bottom + 1)
  /\ pc[Owner] = "popRestore" => top = bottom + 1
  /\ pc[Owner] = "popStore" => b[Owner] = bottom - 1
  /\ pc[Owner] \in {"pushStore", "pushPublish", "popTop", "popCas", "popRestore"}
       => b[Owner] = bottom
  /\ pc[Owner] \in {"pushStore", "pushPublish"}
       => bottom - top < Capacity - 1 /\ pushed < MaxPush
  /\ Last - top < Capacity - 1

\* The live cells hold the pushed items that nobody has taken, each once.
CellInv ==
  /\ \A i \in Live : Cell(i) \in 1..pushed /\ takes[Cell(i)] = 0
  /\ \A i, j \in Live : Cell(i) = Cell(j) => i = j
  /\ \A x \in Item : takes[x] <= 1
  /\ \A x \in Item : x > pushed => takes[x] = 0
  /\ \A x \in 1..pushed : takes[x] = 0 => \E i \in Live : Cell(i) = x
  /\ pc[Owner] = "pushPublish" => Cell(bottom) = pushed + 1
  /\ pc[Owner] = "popCas" /\ top = bottom => item[Owner] = Cell(top)

\* A thief whose t is still top_ is about to claim a live cell, and has read
\* that very cell.
ThiefInv ==
  \A p \in Thieves :
    /\ pc[p] \in ThiefPc
    /\ t[p] <= top
    /\ pc[p] \in {"stealRead", "stealCas"} /\ t[p] = top => top <= Last
    /\ pc[p] = "stealCas" /\ t[p] = top => item[p] = Cell(top)

Inv == TypeOK /\ IndexInv /\ CellInv /\ ThiefInv

-----------------------------------------------------------------------------
\* Slot maps every index to a buffer cell.
LEMMA SlotType ==
  ASSUME NEW i \in Nat
  PROVE  Slot(i) \in 0..(Capacity - 1)
BY DequeAssumption DEF Slot

\* Two indices less than a capacity apart never share a cell.
LEMMA SlotInjective ==
  ASSUME NEW i \in Nat, NEW j \in Nat, i < j, j - i < Capacity
  PROVE  Slot(i) # Slot(j)
BY DequeAssumption, ModInjective DEF Slot

-----------------------------------------------------------------------------
\* The owner's thread is not a thief.
LEMMA ThreadFacts ==
  ASSUME Poppers = {Owner}
  PROVE  Owner \in Threads /\ Thieves \subseteq Threads /\ Owner \notin Thieves
BY DequeAssumption DEF Threads

\* The empty deque satisfies the invariant.
LEMMA InitInv ==
  ASSUME Poppers = {Owner}, Init
  PROVE  Inv
<1>1. TypeOK
  BY DequeAssumption DEF Init, TypeOK, Item, NoItem
<1>2. IndexInv
  BY ThreadFacts, DequeAssumption DEF Init, IndexInv, OwnerPc, Last, Claiming
<1>3. CellInv
  BY ThreadFacts, DequeAssumption DEF Init, CellInv, Live, Claiming, Item
<1>4. ThiefInv
  BY ThreadFacts DEF Init, ThiefInv, ThiefPc
<1> QED BY <1>1, <1>2, <1>3, <1>4 DEF Inv

\* push has seen room; nothing shared changes.
LEMMA PushLoadInv ==
  ASSUME Poppers = {Owner}, Inv, PushLoad
  PROVE  Inv'
<1> USE ThreadFacts, DequeAssumption DEF Inv, PushLoad, Goto
<1>1. TypeOK'
  BY DEF TypeOK
<1>2. IndexInv'
  BY DEF TypeOK, IndexInv, OwnerPc, Last, Claiming, PushRoom
<1>3. CellInv'
  BY DEF TypeOK, CellInv, Live, Claiming, Cell
<1>4. ThiefInv'
  BY DEF TypeOK, ThiefInv, Last, Claiming, Cell
<1> QED BY <1>1, <1>2, <1>3, <1>4

\* push stores to the cell at bottom_, which no live index uses.
LEMMA PushStoreInv ==
  ASSUME Poppers = {Owner}, Inv, PushStore
  PROVE  Inv'
<1> USE ThreadFacts, DequeAssumption DEF Inv, PushStore, Goto
<1>0. pushed + 1 \in Item
  BY DEF TypeOK, IndexInv, Item
<1>1. TypeOK'
  BY <1>0 DEF TypeOK
<1>2. IndexInv'
  BY DEF TypeOK, IndexInv, OwnerPc, Last, Claiming
<1>3. bottom \in Nat /\ top \in Nat /\ Live = top..(bottom - 1)
      /\ Live' = Live /\ bottom' = bottom /\ b[Owner] = bottom
  BY DEF TypeOK, IndexInv, Live, Claiming
<1>4. \A i \in Live : Cell(i)' = Cell(i)
  <2> TAKE i \in Live
  <2>1. i \in Nat /\ i < bottom /\ bottom - i < Capacity
    BY <1>3 DEF TypeOK, IndexInv
  <2>2. Slot(i) # Slot(bottom)
    BY <1>3, <2>1, SlotInjective
  <2> QED BY <1>3, <2>1, <2>2, SlotType DEF TypeOK, Cell, Slot
<1>5. Cell(bottom)' = pushed + 1
  BY <1>3, SlotType DEF TypeOK, Cell, Slot
<1>6. CellInv'
  BY <1>3, <1>4, <1>5 DEF TypeOK, CellInv
<1>7. ThiefInv'
  BY <1>3, <1>4 DEF TypeOK, ThiefInv, Last, Claiming, Live
<1> QED BY <1>1, <1>2, <1>6, <1>7

\* push makes the stored cell live.
LEMMA PushPublishInv ==
  ASSUME Poppers = {Owner}, Inv, PushPublish
  PROVE  Inv'
<1> USE ThreadFacts, DequeAssumption DEF Inv, PushPublish, Goto
<1>1. TypeOK'
  BY DEF TypeOK, IndexInv, Item
<1>2. IndexInv'
  BY DEF TypeOK, IndexInv, OwnerPc, Last, Claiming
<1>3. /\ top \in Nat /\ bottom \in Int /\ top <= bottom
      /\ top' = top /\ bottom' = bottom + 1 /\ takes' = takes
      /\ pushed \in Nat /\ pushed' = pushed + 1 /\ pushed + 1 \in Item
  BY DEF TypeOK, IndexInv, Item
<1>4. Live = top..(bottom - 1) /\ Live' = top..bottom
  BY <1>3 DEF TypeOK, IndexInv, Live, Claiming
<1>5. \A i \in Live' : Cell(i)' = Cell(i)
  BY DEF Cell, Slot
<1>6. /\ \A i \in Live : Cell(i) \in 1..pushed /\ takes[Cell(i)] = 0
      /\ \A i, j \in Live : Cell(i) = Cell(j) => i = j
      /\ \A x \in Item : takes[x] <= 1 /\ (x > pushed => takes[x] = 0)
      /\ \A x \in 1..pushed : takes[x] = 0 => \E i \in Live : Cell(i) = x
      /\ Cell(bottom) = pushed + 1
  BY DEF CellInv
<1>7. CellInv'
  <2>1. \A i \in Live' : Cell(i)' \in 1..pushed' /\ takes'[Cell(i)'] = 0
    BY <1>3, <1>4, <1>5, <1>6
  <2>2. \A i, j \in Live' : Cell(i)' = Cell(j)' => i = j
    BY <1>3, <1>4, <1>5, <1>6
  <2>3. \A x \in Item : takes'[x] <= 1 /\ (x > pushed' => takes'[x] = 0)
    BY <1>3, <1>6 DEF Item
  <2>4. \A x \in 1..pushed' : takes'[x] = 0 => \E i \in Live' : Cell(i)' = x
    BY <1>3, <1>4, <1>5, <1>6
  <2>5. pc'[Owner] = "idle"
    BY DEF TypeOK
  <2> QED BY <2>1, <2>2, <2>3, <2>4, <2>5 DEF CellInv
<1>8. ThiefInv'
  BY <1>3, <1>5 DEF TypeOK, ThiefInv, Last, Claiming, Cell, Slot
<1> QED BY <1>1, <1>2, <1>7, <1>8

-----------------------------------------------------------------------------
\* pop reads bottom_; nothing shared changes.
LEMMA PopLoadInv ==
  ASSUME Poppers = {Owner}, Inv, PopLoad(Owner)
  PROVE  Inv'
<1> USE ThreadFacts, DequeAssumption DEF Inv, PopLoad, Goto
<1>1. TypeOK'
  BY DEF TypeOK
<1>2. IndexInv'
  BY DEF TypeOK, IndexInv, OwnerPc, Last, Claiming
<1>3. CellInv'
  BY DEF TypeOK, CellInv, Live, Claiming, Cell
<1>4. ThiefInv'
  BY DEF TypeOK, ThiefInv, Last, Claiming, Cell
<1> QED BY <1>1, <1>2, <1>3, <1>4

\* pop lowers bottom_; the cell it claims still counts as live.
LEMMA PopStoreInv ==
  ASSUME Poppers = {Owner}, Inv, PopStore(Owner)
  PROVE  Inv'
<1> USE ThreadFacts, DequeAssumption DEF Inv, PopStore, Goto
<1>1. TypeOK'
  BY DEF TypeOK
<1>2. IndexInv'
  BY DEF TypeOK, IndexInv, OwnerPc, Last, Claiming
<1>3. Live' = Live /\ Last' = Last
  BY DEF TypeOK, IndexInv, Live, Last, Claiming
<1>4. CellInv'
  BY <1>3 DEF TypeOK, CellInv, Cell
<1>5. ThiefInv'
  BY <1>3 DEF TypeOK, ThiefInv, Cell
<1> QED BY <1>1, <1>2, <1>4, <1>5

\* Taking the item of a live cell keeps the cell invariant, whichever end of
\* the live range the cell leaves from.
LEMMA TakeCell ==
  ASSUME TypeOK, CellInv, NEW i \in Live,
         Live' = Live \ {i}, buffer' = buffer, pushed' = pushed,
         takes' = [takes EXCEPT ![Cell(i)] = @ + 1],
         pc'[Owner] = "pushPublish" => Cell(bottom)' = pushed' + 1,
         pc'[Owner] = "popCas" => top' # bottom'
  PROVE  CellInv'
<1>1. Cell(i) \in Item /\ takes[Cell(i)] = 0
  BY DequeAssumption DEF TypeOK, CellInv, Item
<1>2. \A k : Cell(k)' = Cell(k)
  BY DEF Cell, Slot
<1>3. \A k \in Live' : Cell(k)' \in 1..pushed' /\ takes'[Cell(k)'] = 0
  BY <1>1, <1>2 DEF TypeOK, CellInv, Item
<1>4. \A k, l \in Live' : Cell(k)' = Cell(l)' => k = l
  BY <1>2 DEF CellInv
<1>5. \A x \in Item : takes'[x] <= 1 /\ (x > pushed' => takes'[x] = 0)
  BY <1>1 DEF TypeOK, CellInv, Item
<1>6. \A x \in 1..pushed' : takes'[x] = 0 => \E k \in Live' : Cell(k)' = x
  BY <1>1, <1>2 DEF TypeOK, CellInv, Item
<1> QED BY <1>3, <1>4, <1>5, <1>6 DEF CellInv

\* One more take leaves takes a function from items to numbers, even if the
\* item taken were none.
LEMMA TakesType ==
  ASSUME takes \in [Item -> Nat], NEW x \in Item \cup {NoItem}
  PROVE  [takes EXCEPT ![x] = @ + 1] \in [Item -> Nat]
<1>1. CASE x \in Item
  BY <1>1
<1>2. CASE x \notin Item
  <2>1. [takes EXCEPT ![x] = @ + 1] = takes
    BY <1>2
  <2> QED BY <2>1
<1> QED BY <1>1, <1>2

\* pop keeps the claimed cell, races for the last one, or gives up.
LEMMA PopTopInv ==
  ASSUME Poppers = {Owner}, Inv, PopTop(Owner)
  PROVE  Inv'
<1> USE ThreadFacts, DequeAssumption DEF Inv, PopTop, Goto, Return
<1>0. /\ top \in Nat /\ bottom \in Int /\ top <= bottom + 1 /\ b[Owner] = bottom
      /\ Live = top..bottom
      /\ top <= bottom => Slot(bottom) \in 0..(Capacity - 1)
  BY SlotType DEF TypeOK, IndexInv, Live, Claiming
<1>1. TypeOK'
  <2>0. top <= bottom => Cell(bottom) \in Item \cup {NoItem}
    BY <1>0 DEF TypeOK, Cell
  <2>a. CASE top < bottom
    <3>1. takes' = [takes EXCEPT ![Cell(bottom)] = @ + 1] /\ item' = item
      BY <1>0, <2>a DEF TypeOK, Cell
    <3> QED BY <1>0, <2>0, <2>a, <3>1, TakesType DEF TypeOK
  <2>b. CASE top = bottom
    <3>1. takes' = takes /\ item' = [item EXCEPT ![Owner] = Cell(bottom)]
      BY <1>0, <2>b DEF TypeOK, Cell
    <3> QED BY <1>0, <2>0, <2>b, <3>1 DEF TypeOK
  <2>c. CASE top > bottom
    <3>1. takes' = takes /\ item' = item
      BY <1>0, <2>c DEF TypeOK
    <3> QED BY <1>0, <2>c, <3>1 DEF TypeOK
  <2> QED BY <1>0, <2>a, <2>b, <2>c
<1>2. IndexInv'
  BY <1>0 DEF TypeOK, IndexInv, OwnerPc, Last, Claiming
<1>3. CASE top < bottom
  <2>1. bottom \in Live /\ Live' = Live \ {bottom}
    BY <1>0, <1>3 DEF TypeOK, Live, Claiming
  <2>2. takes' = [takes EXCEPT ![Cell(bottom)] = @ + 1] /\ pc'[Owner] = "idle"
    BY <1>0, <1>3 DEF TypeOK, Cell
  <2>3. CellInv'
    BY <2>1, <2>2, TakeCell
  <2>4. ThiefInv'
    BY <1>0, <1>3, <2>2 DEF TypeOK, ThiefInv, Last, Claiming, Cell, Slot
  <2> QED BY <1>1, <1>2, <2>3, <2>4
<1>4. CASE top >= bottom
  <2>1. /\ takes' = takes /\ Live' = Live /\ Last' = Last
        /\ \/ pc'[Owner] = "popCas" /\ item'[Owner] = Cell(bottom)
           \/ pc'[Owner] = "popRestore"
        /\ \A p \in Thieves : pc'[p] = pc[p] /\ t'[p] = t[p] /\ item'[p] = item[p]
    BY <1>0, <1>4 DEF TypeOK, Live, Last, Claiming, Cell
  <2>2. CellInv'
    BY <1>0, <2>1 DEF TypeOK, CellInv, Cell, Slot
  <2>3. ThiefInv'
    BY <1>0, <2>1 DEF TypeOK, ThiefInv, Cell, Slot
  <2> QED BY <1>1, <1>2, <2>2, <2>3
<1> QED BY <1>0, <1>3, <1>4

\* pop wins or loses the last cell by its CAS on top_.
LEMMA PopCasInv ==
  ASSUME Poppers = {Owner}, Inv, PopCas(Owner)
  PROVE  Inv'
<1> USE ThreadFacts, DequeAssumption DEF Inv, PopCas, Goto
<1>0. /\ top \in Nat /\ bottom \in Int /\ b[Owner] = bottom /\ t[Owner] = bottom
      /\ top = bottom \/ top = bottom + 1
      /\ Live = top..bottom /\ pc'[Owner] = "popRestore" /\ Live' = top'..bottom
  BY DEF TypeOK, IndexInv, Live, Claiming
<1>1. TypeOK'
  <2>1. item[Owner] \in Item \cup {NoItem} /\ top' \in Nat
    BY <1>0 DEF TypeOK
  <2>2. takes' \in [Item -> Nat]
    BY <2>1, TakesType DEF TypeOK
  <2> QED BY <2>1, <2>2 DEF TypeOK
<1>2. IndexInv'
  BY <1>0 DEF TypeOK, IndexInv, OwnerPc, Last, Claiming
<1>3. CASE top = bottom
  <2>1. bottom \in Live /\ Live' = Live \ {bottom} /\ item[Owner] = Cell(bottom)
    BY <1>0, <1>3 DEF CellInv
  <2>2. CellInv'
    BY <1>0, <1>3, <2>1, TakeCell
  <2>3. ThiefInv'
    BY <1>0, <1>3 DEF TypeOK, ThiefInv
  <2> QED BY <1>1, <1>2, <2>2, <2>3
<1>4. CASE top # bottom
  <2>1. CellInv'
    BY <1>0, <1>4 DEF TypeOK, CellInv, Cell, Slot
  <2>2. ThiefInv'
    BY <1>0, <1>4 DEF TypeOK, ThiefInv, Last, Claiming, Cell, Slot
  <2> QED BY <1>1, <1>2, <2>1, <2>2
<1> QED BY <1>3, <1>4

\* pop puts bottom_ back.
LEMMA PopRestoreInv ==
  ASSUME Poppers = {Owner}, Inv, PopRestore(Owner)
  PROVE  Inv'
<1> USE ThreadFacts, DequeAssumption DEF Inv, PopRestore, Goto
<1>1. TypeOK'
  BY DEF TypeOK
<1>2. IndexInv'
  BY DEF TypeOK, IndexInv, OwnerPc, Last, Claiming
<1>3. Live' = Live /\ Last' = Last
  BY DEF TypeOK, IndexInv, Live, Last, Claiming
<1>4. CellInv'
  BY <1>3 DEF TypeOK, CellInv, Cell
<1>5. ThiefInv'
  BY <1>3 DEF TypeOK, ThiefInv, Cell
<1> QED BY <1>1, <1>2, <1>4, <1>5

-----------------------------------------------------------------------------
\* steal reads top_; nothing shared changes.
LEMMA StealTopInv ==
  ASSUME Poppers = {Owner}, Inv, NEW p \in Thieves, StealTop(p)
  PROVE  Inv'
<1> USE ThreadFacts, DequeAssumption DEF Inv, StealTop, Goto
<1>1. TypeOK'
  BY DEF TypeOK
<1>2. IndexInv'
  BY DEF TypeOK, IndexInv, Last, Claiming
<1>3. CellInv'
  BY DEF TypeOK, CellInv, Live, Claiming, Cell
<1>4. ThiefInv'
  BY DEF TypeOK, ThiefInv, ThiefPc, Last, Claiming, Cell
<1> QED BY <1>1, <1>2, <1>3, <1>4

\* steal goes on when it saw top_ below bottom_.
LEMMA StealBottomInv ==
  ASSUME Poppers = {Owner}, Inv, NEW p \in Thieves, StealBottom(p)
  PROVE  Inv'
<1> USE ThreadFacts, DequeAssumption DEF Inv, StealBottom, Goto
<1>1. TypeOK'
  BY DEF TypeOK
<1>2. IndexInv'
  BY DEF TypeOK, IndexInv, Last, Claiming
<1>3. CellInv'
  BY DEF TypeOK, CellInv, Live, Claiming, Cell
<1>4. ThiefInv'
  BY DEF TypeOK, ThiefInv, ThiefPc, Last, Claiming, Cell
<1> QED BY <1>1, <1>2, <1>3, <1>4

\* steal reads its cell: while top_ is still what it saw, the item is live.
LEMMA StealReadInv ==
  ASSUME Poppers = {Owner}, Inv, NEW p \in Thieves, StealRead(p)
  PROVE  Inv'
<1> USE ThreadFacts, DequeAssumption DEF Inv, StealRead, Goto
<1>0. Cell(t[p]) \in Item \cup {NoItem} /\ item' = [item EXCEPT ![p] = Cell(t[p])]
  <2>1. t[p] \in Nat
    BY DEF TypeOK
  <2> QED BY <2>1, SlotType DEF TypeOK, Cell
<1>1. TypeOK'
  BY <1>0 DEF TypeOK
<1>2. IndexInv'
  BY DEF TypeOK, IndexInv, Last, Claiming
<1>3. CellInv'
  BY DEF TypeOK, CellInv, Live, Claiming, Cell
<1>4. ThiefInv'
  BY <1>0 DEF TypeOK, ThiefInv, ThiefPc, Last, Claiming, Cell
<1> QED BY <1>1, <1>2, <1>3, <1>4

\* steal takes the cell by its CAS on top_, or returns nothing.
LEMMA StealCasInv ==
  ASSUME Poppers = {Owner}, Inv, NEW p \in Thieves, StealCas(p)
  PROVE  Inv'
<1> USE ThreadFacts, DequeAssumption DEF Inv, StealCas, Goto, Return
<1>1. CASE top = t[p]
  <2>0. /\ top \in Nat /\ bottom \in Int /\ top' = top + 1 /\ bottom' = bottom
        /\ top <= Last /\ Last \in Int /\ Last' = Last /\ pc'[Owner] = pc[Owner]
        /\ item[p] = Cell(top) /\ Live = top..Last /\ Live' = (top + 1)..Last
        /\ item[p] \in Item \cup {NoItem}
        /\ takes' = [takes EXCEPT ![Cell(top)] = @ + 1]
    BY <1>1 DEF TypeOK, ThiefInv, Live, Last, Claiming
  <2>1. TypeOK'
    <3>1. takes' \in [Item -> Nat]
      BY <2>0, TakesType DEF TypeOK
    <3>2. top' \in Nat
      BY <2>0
    <3>3. pc' = [pc EXCEPT ![p] = "idle"]
      BY <1>1
    <3>4. p \in Threads
      OBVIOUS
    <3>5. pc' \in [Threads -> {"idle", "pushStore", "pushPublish", "popStore",
                              "popTop", "popCas", "popRestore", "stealBottom",
                              "stealRead", "stealCas"}]
      BY <3>3, <3>4 DEF TypeOK
    <3> QED BY <3>1, <3>2, <3>5 DEF TypeOK
  <2>2. IndexInv'
    BY <2>0 DEF TypeOK, IndexInv, Last, Claiming
  <2>3. top \in Live /\ Live' = Live \ {top}
    BY <2>0
  <2>4. CellInv'
    <3>1. pc[Owner] = "pushPublish" => Cell(bottom)' = pushed + 1
      BY DEF CellInv, Cell, Slot
    <3>2. pc[Owner] = "popCas" => top' # bottom'
      BY <2>0 DEF IndexInv, Last, Claiming
    <3> QED BY <2>0, <2>3, <3>1, <3>2, TakeCell
  <2>5. ThiefInv'
    <3>1. \A q \in Thieves : t'[q] = t[q] /\ t[q] \in Nat /\ t[q] <= top
      BY DEF TypeOK, ThiefInv
    <3>2. \A q \in Thieves : pc'[q] \in ThiefPc
      BY <1>1 DEF TypeOK, ThiefInv, ThiefPc
    <3>3. \A q \in Thieves : t'[q] <= top' /\ t'[q] # top'
      BY <2>0, <3>1
    <3> QED BY <3>2, <3>3 DEF ThiefInv
  <2> QED BY <2>1, <2>2, <2>4, <2>5
<1>2. CASE top # t[p]
  <2>1. TypeOK'
    BY <1>2 DEF TypeOK
  <2>2. IndexInv'
    BY <1>2 DEF TypeOK, IndexInv, Last, Claiming
  <2>3. CellInv'
    BY <1>2 DEF TypeOK, CellInv, Live, Claiming, Cell
  <2>4. ThiefInv'
    BY <1>2 DEF TypeOK, ThiefInv, ThiefPc, Last, Claiming, Cell
  <2> QED BY <2>1, <2>2, <2>3, <2>4
<1> QED BY <1>1, <1>2

-----------------------------------------------------------------------------
\* A step that changes nothing.
LEMMA StutterInv ==
  ASSUME Inv, UNCHANGED vars
  PROVE  Inv'
BY DEF Inv, TypeOK, IndexInv, CellInv, ThiefInv, Last, Live, Claiming, Cell,
       Slot, vars

\* Every step preserves the invariant.
LEMMA NextInv ==
  ASSUME Poppers = {Owner}, Inv, [Next]_vars
  PROVE  Inv'
BY PushLoadInv, PushStoreInv, PushPublishInv, PopLoadInv, PopStoreInv,
   PopTopInv, PopCasInv, PopRestoreInv, StealTopInv, StealBottomInv,
   StealReadInv, StealCasInv, StutterInv
DEF Next, Push, Pop, Steal

\* The inductive invariant holds of every reachable state.
THEOREM DequeInvariant ==
  ASSUME Poppers = {Owner}
  PROVE  Spec => []Inv
<1>1. Init => Inv
  BY InitInv
<1>2. Inv /\ [Next]_vars => Inv'
  BY NextInv
<1> QED BY <1>1, <1>2, PTL DEF Spec

\* The shared words and the locals keep their types whatever pushes, pops and
\* steals interleave.
THEOREM DequeTypeOK ==
  ASSUME Poppers = {Owner}
  PROVE  Spec => []TypeOK
<1>1. Inv => TypeOK
  BY DEF Inv
<1> QED BY <1>1, DequeInvariant, PTL

\* With the owner as the only popper no item is returned twice, for every
\* capacity, every number of thieves and every number of pushes.
THEOREM DequeNoDoubleTake ==
  ASSUME Poppers = {Owner}
  PROVE  Spec => []NoDoubleTake
<1>1. Inv => NoDoubleTake
  BY DEF Inv, CellInv, NoDoubleTake
<1> QED BY <1>1, DequeInvariant, PTL

-----------------------------------------------------------------------------
\* What a step does to the live cells: nothing, publish one at the bottom, or
\* let the item of one go to a caller.
Keeps ==
  /\ Live' = Live
  /\ \A i \in Live : Cell(i)' = Cell(i)
  /\ takes' = takes

Publishes ==
  /\ Live' = Live \cup {bottom}
  /\ buffer' = buffer
  /\ Cell(bottom) = pushed + 1
  /\ pushed + 1 \in Item
  /\ takes' = takes

Releases(i) ==
  /\ Live' = Live \ {i}
  /\ \A j \in Live : Cell(j)' = Cell(j)
  /\ takes' = [takes EXCEPT ![Cell(i)] = @ + 1]

\* What push does to the live items and to the counts.
LEMMA PushShape ==
  ASSUME Poppers = {Owner}, Inv, Push
  PROVE  Keeps \/ Publishes
<1> USE ThreadFacts, DequeAssumption DEF Inv, Goto
<1>1. CASE PushLoad
  BY <1>1 DEF PushLoad, TypeOK, Keeps, Live, Claiming, Cell, Slot
<1>2. CASE PushStore
  <2>1. bottom \in Nat /\ Live = top..(bottom - 1) /\ Live' = Live /\ b[Owner] = bottom
    BY <1>2 DEF PushStore, TypeOK, IndexInv, Live, Claiming
  <2>2. \A i \in Live : i \in Nat /\ i < bottom /\ bottom - i < Capacity
    BY <1>2, <2>1 DEF PushStore, TypeOK, IndexInv
  <2>3. \A i \in Live : Slot(i) # Slot(bottom)
    BY <2>1, <2>2, SlotInjective
  <2>4. \A i \in Live : Cell(i)' = Cell(i)
    BY <1>2, <2>1, <2>2, <2>3, SlotType DEF PushStore, TypeOK, Cell, Slot
  <2> QED BY <1>2, <2>1, <2>4 DEF PushStore, Keeps
<1>3. CASE PushPublish
  <2>1. /\ top \in Nat /\ bottom \in Int /\ top <= bottom /\ bottom' = bottom + 1
        /\ Live = top..(bottom - 1) /\ Live' = top..bottom
        /\ pushed + 1 \in Item /\ Cell(bottom) = pushed + 1
    BY <1>3 DEF PushPublish, TypeOK, IndexInv, CellInv, Live, Claiming, Item
  <2>2. Live' = Live \cup {bottom}
    BY <2>1
  <2> QED BY <1>3, <2>1, <2>2 DEF PushPublish, Publishes
<1> QED BY <1>1, <1>2, <1>3 DEF Push

\* What pop does to the live items and to the counts.
LEMMA PopShape ==
  ASSUME Poppers = {Owner}, Inv, Pop(Owner)
  PROVE  Keeps \/ \E i \in Live : Releases(i)
<1> USE ThreadFacts, DequeAssumption DEF Inv, Goto
<1>1. CASE PopLoad(Owner)
  BY <1>1 DEF PopLoad, TypeOK, Keeps, Live, Claiming, Cell, Slot
<1>2. CASE PopStore(Owner)
  BY <1>2 DEF PopStore, TypeOK, IndexInv, Keeps, Live, Claiming, Cell, Slot
<1>3. CASE PopTop(Owner)
  <2>1. /\ top \in Nat /\ bottom \in Int /\ top <= bottom + 1 /\ b[Owner] = bottom
        /\ Live = top..bottom
    BY <1>3 DEF PopTop, TypeOK, IndexInv, Live, Claiming
  <2>2. CASE top < bottom
    <3>1. takes' = [takes EXCEPT ![Cell(bottom)] = @ + 1]
      BY <1>3, <2>1, <2>2 DEF PopTop, Return, TypeOK, Cell
    <3>2. bottom \in Live /\ Live' = Live \ {bottom} /\ buffer' = buffer
      BY <1>3, <2>1, <2>2 DEF PopTop, Return, TypeOK, Live, Claiming
    <3> QED BY <3>1, <3>2 DEF Releases, Cell, Slot
  <2>3. CASE top >= bottom
    <3>1. takes' = takes /\ buffer' = buffer /\ Live' = Live
      BY <1>3, <2>1, <2>3 DEF PopTop, Return, TypeOK, Live, Claiming
    <3> QED BY <3>1 DEF Keeps, Cell, Slot
  <2> QED BY <2>1, <2>2, <2>3
<1>4. CASE PopCas(Owner)
  <2>1. /\ top \in Nat /\ bottom \in Int /\ t[Owner] = bottom
        /\ Live = top..bottom /\ Live' = top'..bottom
        /\ top = bottom => item[Owner] = Cell(bottom)
        /\ buffer' = buffer
    BY <1>4 DEF PopCas, TypeOK, IndexInv, CellInv, Live, Claiming
  <2>2. CASE top = bottom
    <3>1. takes' = [takes EXCEPT ![Cell(bottom)] = @ + 1] /\ top' = top + 1
      BY <1>4, <2>1, <2>2 DEF PopCas
    <3>2. bottom \in Live /\ Live' = Live \ {bottom}
      BY <2>1, <2>2, <3>1
    <3> QED BY <2>1, <3>1, <3>2 DEF Releases, Cell, Slot
  <2>3. CASE top # bottom
    BY <1>4, <2>1, <2>3 DEF PopCas, Keeps, Cell, Slot
  <2> QED BY <2>2, <2>3
<1>5. CASE PopRestore(Owner)
  BY <1>5 DEF PopRestore, TypeOK, IndexInv, Keeps, Live, Claiming, Cell, Slot
<1> QED BY <1>1, <1>2, <1>3, <1>4, <1>5 DEF Pop

\* What steal does to the live items and to the counts.
LEMMA StealShape ==
  ASSUME Poppers = {Owner}, Inv, NEW p \in Thieves, Steal(p)
  PROVE  Keeps \/ \E i \in Live : Releases(i)
<1> USE ThreadFacts, DequeAssumption DEF Inv, Goto
<1>1. CASE StealTop(p) \/ StealBottom(p) \/ StealRead(p)
  BY <1>1 DEF StealTop, StealBottom, StealRead, TypeOK, Keeps, Live, Claiming,
              Cell, Slot
<1>2. CASE StealCas(p)
  <2>1. CASE top = t[p]
    <3>1. /\ top \in Nat /\ top' = top + 1 /\ top <= Last /\ Last \in Int
          /\ Live = top..Last /\ Live' = (top + 1)..Last /\ buffer' = buffer
          /\ takes' = [takes EXCEPT ![Cell(top)] = @ + 1]
      BY <1>2, <2>1 DEF StealCas, Return, TypeOK, ThiefInv, Live, Last, Claiming
    <3>2. top \in Live /\ Live' = Live \ {top}
      BY <3>1
    <3> QED BY <3>1, <3>2 DEF Releases, Cell, Slot
  <2>2. CASE top # t[p]
    BY <1>2, <2>2 DEF StealCas, TypeOK, Keeps, Live, Claiming, Cell, Slot
  <2> QED BY <2>1, <2>2
<1> QED BY <1>1, <1>2 DEF Steal

\* Every step of the deque is a step of the work pool or leaves it unchanged.
LEMMA PoolStep ==
  ASSUME Poppers = {Owner}, Inv, [Next]_vars
  PROVE  [Pool!Next]_(Pool!poolVars)
<1> USE DequeAssumption
<1>1. CASE Keeps
  BY <1>1 DEF Keeps, LiveItems, Cell, Pool!poolVars
<1>2. CASE Publishes
  <2>1. pushed + 1 \notin LiveItems /\ takes[pushed + 1] = 0
    BY <1>2 DEF Publishes, Inv, TypeOK, CellInv, LiveItems, Cell
  <2>2. LiveItems' = LiveItems \cup {pushed + 1}
    BY <1>2 DEF Publishes, LiveItems, Cell, Slot
  <2>3. Pool!Put(pushed + 1)
    BY <1>2, <2>1, <2>2 DEF Publishes, Pool!Put
  <2> QED BY <1>2, <2>3 DEF Publishes, Pool!Next
<1>3. ASSUME NEW i \in Live, Releases(i)
      PROVE  Pool!Next
  <2>1. Cell(i) \in Item /\ Cell(i) \in LiveItems
    BY DEF Inv, TypeOK, CellInv, LiveItems, Item, Cell
  <2>2. LiveItems' = LiveItems \ {Cell(i)}
    BY <1>3 DEF Releases, Inv, CellInv, LiveItems, Cell
  <2>3. Pool!Take(Cell(i))
    BY <1>3, <2>1, <2>2 DEF Releases, Pool!Take
  <2> QED BY <2>1, <2>3 DEF Pool!Next
<1>4. CASE UNCHANGED vars
  BY <1>4 DEF vars, LiveItems, Live, Claiming, Slot, Pool!poolVars
<1> QED BY <1>1, <1>2, <1>3, <1>4, PushShape, PopShape, StealShape DEF Next

\* The deque implements the work pool: each published item stays available
\* until one pop or steal returns it, and no step loses or duplicates one.
THEOREM DequeImplementsPool ==
  ASSUME Poppers = {Owner}
  PROVE  Spec => ImplementsWorkPool
<1>1. Init => Pool!Init
  BY ThreadFacts, DequeAssumption DEF Init, Pool!Init, LiveItems, Live, Claiming
<1>2. Inv /\ [Next]_vars => [Pool!Next]_(Pool!poolVars)
  BY PoolStep
<1> QED BY <1>1, <1>2, DequeInvariant, PTL DEF Spec, ImplementsWorkPool, Pool!Spec

-----------------------------------------------------------------------------
(* The SPSC ring *)

\* A number below the word is itself, one below two words wraps once.
LEMMA RingWrapOnce ==
  ASSUME NEW n \in Nat, n < RingWord + RingWord
  PROVE  RingWrap(n) = IF n < RingWord THEN n ELSE n - RingWord
<1> DEFINE W == RingWord
           q == n \div W
<1>0. W \in Nat /\ W > 0
  BY RingAssumption
<1>1. q \in Nat /\ n % W \in 0..(W - 1) /\ n = W * q + (n % W)
  BY <1>0
<1>2. q >= 2 => W * q >= W + W
  BY <1>0, <1>1
<1>3. q = 0 \/ q = 1
  BY <1>0, <1>1, <1>2
<1>4. CASE q = 0
  BY <1>0, <1>1, <1>4 DEF RingWrap
<1>5. CASE q = 1
  BY <1>0, <1>1, <1>5 DEF RingWrap
<1> QED BY <1>3, <1>4, <1>5

\* A word is a multiple of the cells, so wrapping does not move an index.
LEMMA RingSlotWraps ==
  ASSUME NEW n \in Nat
  PROVE  RingSlot(n + RingWord) = RingSlot(n)
<1> DEFINE k == RingWord \div RingCells
<1>1. RingCells \in Nat \ {0} /\ k \in Nat /\ RingWord = RingCells * k
  BY RingAssumption
<1> QED BY <1>1, ModShift DEF RingSlot

\* Two indices less than the number of cells apart never share a cell.
LEMMA RingSlotInjective ==
  ASSUME NEW i \in Nat, NEW j \in Nat, i < j, j - i < RingCells
  PROVE  RingSlot(i) # RingSlot(j)
BY RingAssumption, ModInjective DEF RingSlot

\* Every index has a cell.
LEMMA RingSlotType ==
  ASSUME NEW i \in Nat
  PROVE  RingSlot(i) \in 0..(RingCells - 1)
BY RingAssumption DEF RingSlot

\* The number of published items not yet popped, without the wrapping.
LEMMA RingDistance ==
  ASSUME NEW hd \in 0..(RingWord - 1), NEW tl \in 0..(RingWord - 1)
  PROVE  RingWrap(hd + RingWord - tl) = IF hd >= tl THEN hd - tl ELSE hd + RingWord - tl
<1>1. RingWord \in Nat
  BY RingAssumption
<1>2. hd + RingWord - tl \in Nat /\ hd + RingWord - tl < RingWord + RingWord
  BY <1>1
<1> QED BY <1>1, <1>2, RingWrapOnce

\* Wrapping an index does not move its cell.
LEMMA RingSlotOfWrap ==
  ASSUME NEW n \in Nat, n < RingWord + RingWord
  PROVE  RingSlot(RingWrap(n)) = RingSlot(n)
<1>1. RingWord \in Nat
  BY RingAssumption
<1>2. CASE n < RingWord
  BY <1>2, RingWrapOnce
<1>3. CASE n >= RingWord
  <2>1. n - RingWord \in Nat /\ (n - RingWord) + RingWord = n /\ RingWrap(n) = n - RingWord
    BY <1>1, <1>3, RingWrapOnce
  <2>2. RingSlot((n - RingWord) + RingWord) = RingSlot(n - RingWord)
    BY <2>1, RingSlotWraps
  <2> QED BY <2>1, <2>2
<1> QED BY <1>1, <1>2, <1>3

RingBound(p) == IF ringPc[p] = "idle" THEN ringOffered ELSE ringOffered - 1

RingTypeOK(p) ==
  /\ head \in 0..(RingWord - 1)
  /\ tail \in 0..(RingWord - 1)
  /\ buf \in [0..(RingCells - 1) -> Nat]
  /\ ringPc \in [{p} -> {"idle", "check", "store", "publish"}]
  /\ h \in [{p} -> Nat]
  /\ val \in [{p} -> Nat]
  /\ cpc \in {"idle", "read", "publish"}
  /\ got \in Nat
  /\ ringOffered \in 0..RingMax
  /\ out \in Seq(Nat)

\* The i-th item of the ring.
RingAt(i) == IF i = 1 /\ cpc = "publish" THEN got ELSE buf[RingSlot(tail + i - 1)]

\* Room for the item on its way in, an item to take for the consumer, and
\* everything that went in was offered before the item on its way.
RingInv(p) ==
  /\ RingTypeOK(p)
  /\ RingSize <= RingCells
  /\ cpc # "idle" => RingSize > 0
  /\ ringPc[p] # "idle" => h[p] = head /\ val[p] = ringOffered /\ ringOffered > 0
  /\ ringPc[p] \in {"store", "publish"} => RingSize < RingCells
  /\ ringPc[p] = "publish" => buf[RingSlot(head)] = val[p]
  /\ \A i \in 1..RingSize : RingAt(i) \in 1..RingBound(p)
  /\ \A i \in 1..Len(out) : out[i] \in 1..RingBound(p)

\* The items of the line are those of RingAt; head_ is the index after the last.
LEMMA RingLineAt ==
  ASSUME NEW p, RingTypeOK(p), RingSize <= RingCells
  PROVE  /\ RingSize \in Nat
         /\ RingLine = [i \in 1..RingSize |-> RingAt(i)]
         /\ RingSlot(head) = RingSlot(tail + RingSize)
         /\ RingWrap(tail + RingSize) = head
<1>0. RingWord \in Nat /\ RingCells \in Nat /\ RingCells < RingWord /\ head \in Nat /\ tail \in Nat
      /\ head < RingWord /\ tail < RingWord
  BY RingAssumption DEF RingTypeOK
<1>1. RingSize = IF head >= tail THEN head - tail ELSE head + RingWord - tail
  BY RingDistance DEF RingSize, RingTypeOK
<1>2. RingSize \in Nat
  BY <1>0, <1>1
<1>3. tail + RingSize \in Nat /\ tail + RingSize < RingWord + RingWord
      /\ (tail + RingSize = head \/ tail + RingSize = head + RingWord)
  BY <1>0, <1>1
<1>4. RingWrap(tail + RingSize) = head
  BY <1>0, <1>3, RingWrapOnce
<1>5. RingSlot(head) = RingSlot(tail + RingSize)
  BY <1>3, <1>4, RingSlotOfWrap
<1>6. ASSUME NEW i \in 1..RingSize
      PROVE  RingSlot(RingWrap(tail + i - 1)) = RingSlot(tail + i - 1)
  <2>1. tail + i - 1 \in Nat /\ tail + i - 1 < RingWord + RingWord
    BY <1>0, <1>2, <1>6
  <2> QED BY <2>1, RingSlotOfWrap
<1>7. RingLine = [i \in 1..RingSize |-> RingAt(i)]
  BY <1>6 DEF RingLine, RingAt
<1> QED BY <1>2, <1>4, <1>5, <1>7

\* What the ring's invariant says of the indices.
LEMMA RingFacts ==
  ASSUME NEW p, RingInv(p)
  PROVE  /\ RingCells \in Nat /\ RingCells > 0 /\ RingWord \in Nat /\ RingCells < RingWord
         /\ head \in Nat /\ head < RingWord /\ tail \in Nat /\ tail < RingWord
         /\ RingSize \in Nat /\ RingSize <= RingCells
         /\ RingSlot(head) = RingSlot(tail + RingSize)
<1>1. RingTypeOK(p) /\ RingSize <= RingCells
  BY DEF RingInv
<1>2. RingSize \in Nat /\ RingSlot(head) = RingSlot(tail + RingSize)
  BY <1>1, RingLineAt
<1>3. head \in 0..(RingWord - 1) /\ tail \in 0..(RingWord - 1)
  BY <1>1 DEF RingTypeOK
<1> QED BY <1>1, <1>2, <1>3, RingAssumption

\* The empty ring satisfies the invariant.
LEMMA RingInitInv ==
  ASSUME NEW p, RingProducers = {p}, RingInit
  PROVE  RingInv(p) /\ RingSize = 0
<1>0. RingWord \in Nat /\ RingCells \in Nat /\ RingCells < RingWord /\ RingCells > 0 /\ RingMax \in Nat
  BY RingAssumption
<1>1. RingTypeOK(p)
  BY <1>0 DEF RingInit, RingTypeOK, NoCell
<1>2. RingSize = 0
  BY <1>0, <1>1, RingDistance DEF RingSize, RingTypeOK, RingInit
<1>3. cpc = "idle" /\ ringPc[p] = "idle" /\ out = <<>>
  BY DEF RingInit
<1> QED BY <1>0, <1>1, <1>2, <1>3 DEF RingInv

\* push loads head_ into h; its item was offered after every item before it.
LEMMA RingPushLoadStep ==
  ASSUME NEW p, RingProducers = {p}, RingInv(p), RingPushLoad(p)
  PROVE  RingInv(p)' /\ RingLine' = RingLine /\ out' = out
<1> USE DEF RingPushLoad
<1>1. RingTypeOK(p)'
  BY RingAssumption DEF RingInv, RingTypeOK
<1>2. RingSize' = RingSize /\ RingLine' = RingLine
  BY DEF RingSize, RingLine
<1>3. RingBound(p)' = RingBound(p) /\ (\A i : RingAt(i)' = RingAt(i))
  BY DEF RingBound, RingInv, RingTypeOK, RingAt
<1>4. ringPc'[p] = "check" /\ h'[p] = head' /\ val'[p] = ringOffered' /\ ringOffered' > 0
  BY DEF RingInv, RingTypeOK
<1> QED BY <1>1, <1>2, <1>3, <1>4 DEF RingInv

\* push compares: to store it needs a free cell; on a full ring the item is dropped.
LEMMA RingPushCheckStep ==
  ASSUME NEW p, RingProducers = {p}, RingInv(p), RingPushCheck(p)
  PROVE  RingInv(p)' /\ RingLine' = RingLine /\ out' = out
<1> USE DEF RingPushCheck
<1>1. RingTypeOK(p)'
  BY RingAssumption DEF RingInv, RingTypeOK
<1>2. RingSize' = RingSize /\ RingLine' = RingLine
  BY DEF RingSize, RingLine
<1>3. RingBound(p) \in Nat /\ RingBound(p)' \in Nat /\ RingBound(p) <= RingBound(p)'
      /\ (\A i : RingAt(i)' = RingAt(i))
  BY DEF RingBound, RingInv, RingTypeOK, RingAt
<1>4. ringPc'[p] \in {"idle", "store"} /\ h'[p] = head' /\ val'[p] = ringOffered' /\ ringOffered' > 0
  BY DEF RingInv, RingTypeOK
<1>5. RingSize \in Nat
  BY RingLineAt DEF RingInv
<1>6. ringPc'[p] = "store" => RingSize' < RingCells
  BY <1>2, <1>5, RingAssumption DEF RingInv, RingTypeOK, RingFull, RingSize
<1>7. \A i \in 1..RingSize' : RingAt(i)' \in 1..RingBound(p)'
  BY <1>2, <1>3, <1>5 DEF RingInv
<1>8. \A i \in 1..Len(out)' : out'[i] \in 1..RingBound(p)'
  BY <1>3 DEF RingInv
<1> QED BY <1>1, <1>2, <1>4, <1>6, <1>7, <1>8 DEF RingInv

\* push stores to the cell after the last published one, which holds no item.
LEMMA RingPushStoreStep ==
  ASSUME NEW p, RingProducers = {p}, RingInv(p), RingPushStore(p)
  PROVE  RingInv(p)' /\ RingLine' = RingLine /\ out' = out
<1> USE DEF RingPushStore
<1>0. RingCells \in Nat /\ RingCells > 0 /\ RingSize \in Nat /\ RingSize < RingCells /\ tail \in Nat
      /\ h[p] = head /\ RingSlot(head) = RingSlot(tail + RingSize) /\ head \in Nat
  BY RingFacts DEF RingInv
<1>1. RingTypeOK(p)'
  BY <1>0, RingSlotType, RingAssumption DEF RingInv, RingTypeOK
<1>2. RingSize' = RingSize /\ RingBound(p)' = RingBound(p)
  BY DEF RingSize, RingBound, RingInv, RingTypeOK
<1>3. ASSUME NEW i \in 1..RingSize
      PROVE  RingAt(i)' = RingAt(i)
  <2>1. tail + i - 1 \in Nat
    BY <1>0
  <2>2. RingSlot(tail + i - 1) # RingSlot(tail + RingSize)
    <3>1. tail + i - 1 \in Nat /\ tail + RingSize \in Nat /\ tail + i - 1 < tail + RingSize
          /\ (tail + RingSize) - (tail + i - 1) < RingCells
      BY <1>0
    <3> QED BY <3>1, RingSlotInjective
  <2>3. buf'[RingSlot(tail + i - 1)] = buf[RingSlot(tail + i - 1)]
    <3>1. RingSlot(tail + i - 1) \in 0..(RingCells - 1)
      BY <2>1, RingSlotType, <1>0
    <3> QED BY <1>0, <2>2, <3>1 DEF RingInv, RingTypeOK
  <2> QED BY <2>3 DEF RingAt
<1>4. RingLine' = RingLine
  <2>1. RingLine' = [i \in 1..RingSize |-> RingLine'[i]] /\ RingLine = [i \in 1..RingSize |-> RingLine[i]]
    BY <1>2 DEF RingLine
  <2>2. RingSize' <= RingCells
    BY <1>2, <1>0
  <2>3. RingLine' = [i \in 1..RingSize |-> RingAt(i)']
    <3>1. RingWord \in Nat /\ RingCells < RingWord
      BY RingAssumption
    <3>2. ASSUME NEW i \in 1..RingSize
          PROVE  RingSlot(RingWrap(tail + i - 1)) = RingSlot(tail + i - 1)
      <4>1. tail + i - 1 \in Nat /\ tail + i - 1 < RingWord + RingWord
        BY <1>0, <3>1, <3>2 DEF RingInv, RingTypeOK
      <4> QED BY <4>1, RingSlotOfWrap
    <3> QED BY <1>2, <3>2 DEF RingLine, RingAt
  <2>4. RingLine = [i \in 1..RingSize |-> RingAt(i)]
    BY RingLineAt DEF RingInv
  <2> QED BY <1>3, <2>3, <2>4
<1>5. buf'[RingSlot(head)] = val[p]
  BY <1>0, RingSlotType DEF RingInv, RingTypeOK
<1>6. ringPc'[p] = "publish"
  BY DEF RingInv, RingTypeOK
<1>7. \A i \in 1..RingSize : RingAt(i)' \in 1..RingBound(p)
  BY <1>3 DEF RingInv
<1> QED BY <1>0, <1>1, <1>2, <1>4, <1>5, <1>6, <1>7 DEF RingInv

\* push publishes head_: the item joins the line.
LEMMA RingPushPublishStep ==
  ASSUME NEW p, RingProducers = {p}, RingInv(p), RingPushPublish(p)
  PROVE  RingInv(p)' /\ RingFifo!Put(val[p]) /\ val[p] \in RingItem
<1> USE DEF RingPushPublish
<1>0. RingCells \in Nat /\ RingCells > 0 /\ RingSize \in Nat /\ RingSize < RingCells /\ tail \in Nat
      /\ h[p] = head /\ RingSlot(head) = RingSlot(tail + RingSize) /\ head \in Nat
      /\ RingWord \in Nat /\ RingCells < RingWord /\ head < RingWord /\ tail < RingWord
  BY RingFacts DEF RingInv
<1>1. head' = (IF head + 1 = RingWord THEN 0 ELSE head + 1) /\ head' \in 0..(RingWord - 1)
  BY <1>0, RingWrapOnce
<1>2. RingTypeOK(p)'
  BY <1>1 DEF RingInv, RingTypeOK
<1>3. RingSize' = RingSize + 1
  <2>1. RingSize = IF head >= tail THEN head - tail ELSE head + RingWord - tail
    BY RingDistance DEF RingSize, RingInv, RingTypeOK
  <2>2. RingSize' = IF head' >= tail THEN head' - tail ELSE head' + RingWord - tail
    BY <1>1, RingDistance DEF RingSize, RingInv, RingTypeOK
  <2> QED BY <1>0, <1>1, <2>1, <2>2
<1>4. RingBound(p)' = RingBound(p) + 1 /\ val[p] = RingBound(p)' /\ RingBound(p) \in Nat
      /\ val[p] \in RingItem /\ val[p] = ringOffered
  BY DEF RingBound, RingInv, RingTypeOK, RingItem
<1>5. \A i : RingAt(i)' = RingAt(i)
  BY DEF RingAt
<1>6. RingAt(RingSize + 1) = val[p]
  <2>1. tail + (RingSize + 1) - 1 = tail + RingSize
    BY <1>0
  <2>2. ~(RingSize + 1 = 1 /\ cpc = "publish")
    BY <1>0 DEF RingInv
  <2> QED BY <1>0, <2>1, <2>2 DEF RingAt, RingInv
<1>7. RingLine = [i \in 1..RingSize |-> RingAt(i)]
  BY RingLineAt DEF RingInv
<1>8. RingLine' = [i \in 1..(RingSize + 1) |-> RingAt(i)]
  <2>1. ASSUME NEW i \in 1..(RingSize + 1)
        PROVE  RingSlot(RingWrap(tail + i - 1)) = RingSlot(tail + i - 1)
    <3>1. tail + i - 1 \in Nat /\ tail + i - 1 < RingWord + RingWord
      BY <1>0, <2>1
    <3> QED BY <3>1, RingSlotOfWrap
  <2> QED BY <1>3, <2>1 DEF RingLine, RingAt
<1>9. RingLine' = Append(RingLine, val[p]) /\ Len(RingLine) = RingSize
  BY <1>0, <1>6, <1>7, <1>8
<1>10. \A i \in 1..RingSize' : RingAt(i)' \in 1..RingBound(p)'
  BY <1>0, <1>3, <1>4, <1>5, <1>6 DEF RingInv
<1>11. \A i \in 1..Len(out)' : out'[i] \in 1..RingBound(p)'
  BY <1>4 DEF RingInv
<1>12. RingInv(p)'
  BY <1>0, <1>2, <1>3, <1>10, <1>11 DEF RingInv, RingTypeOK
<1>13. val[p] \notin RingFifo!Used
  <2>1. \A i \in 1..RingSize : RingLine[i] \in 1..RingBound(p)
    BY <1>7 DEF RingInv
  <2>2. val[p] \notin 1..RingBound(p)
    BY <1>4
  <2>3. DOMAIN RingLine = 1..RingSize /\ DOMAIN out = 1..Len(out)
    BY <1>7 DEF RingInv, RingTypeOK
  <2> QED BY <2>1, <2>2, <2>3 DEF RingFifo!Used, RingInv
<1> QED BY <1>0, <1>4, <1>9, <1>12, <1>13 DEF RingFifo!Put

\* pop sees an item.
LEMMA RingPopCheckStep ==
  ASSUME NEW p, RingProducers = {p}, RingInv(p), RingPopCheck
  PROVE  RingInv(p)' /\ RingLine' = RingLine /\ out' = out
<1> USE DEF RingPopCheck
<1>1. RingTypeOK(p)'
  BY DEF RingInv, RingTypeOK
<1>2. RingSize' = RingSize /\ RingLine' = RingLine /\ RingBound(p)' = RingBound(p)
      /\ (\A i : RingAt(i)' = RingAt(i))
  BY DEF RingSize, RingLine, RingBound, RingAt
<1>3. RingSize = IF head >= tail THEN head - tail ELSE head + RingWord - tail
  BY RingDistance DEF RingSize, RingInv, RingTypeOK
<1>4. RingSize > 0
  BY <1>3, RingAssumption DEF RingInv, RingTypeOK
<1> QED BY <1>1, <1>2, <1>4 DEF RingInv

\* pop moves the oldest item out of its cell.
LEMMA RingPopReadStep ==
  ASSUME NEW p, RingProducers = {p}, RingInv(p), RingPopRead
  PROVE  RingInv(p)' /\ RingLine' = RingLine /\ out' = out
<1> USE DEF RingPopRead
<1>0. RingCells \in Nat /\ RingCells > 0 /\ RingSize \in Nat /\ RingSize > 0 /\ RingSize <= RingCells
      /\ tail \in Nat /\ RingSlot(head) = RingSlot(tail + RingSize) /\ head \in Nat
      /\ RingWord \in Nat /\ RingCells < RingWord /\ tail < RingWord
  BY RingFacts DEF RingInv
<1>a. RingSlot(tail) \in 0..(RingCells - 1)
  BY <1>0, RingSlotType
<1>1. RingTypeOK(p)'
  BY <1>a DEF RingInv, RingTypeOK, NoCell
<1>2. RingSize' = RingSize /\ RingBound(p)' = RingBound(p)
  BY DEF RingSize, RingBound
<1>3. ASSUME NEW i \in 2..RingCells
      PROVE  buf'[RingSlot(tail + i - 1)] = buf[RingSlot(tail + i - 1)]
  <2>1. tail + i - 1 \in Nat /\ tail < tail + i - 1 /\ (tail + i - 1) - tail < RingCells
    BY <1>0, <1>3
  <2>2. RingSlot(tail) # RingSlot(tail + i - 1)
    BY <1>0, <2>1, RingSlotInjective
  <2>3. RingSlot(tail + i - 1) \in 0..(RingCells - 1)
    BY <2>1, RingSlotType
  <2> QED BY <2>2, <2>3 DEF RingInv, RingTypeOK
<1>4. ASSUME NEW i \in 1..RingSize
      PROVE  RingAt(i)' = RingAt(i)
  <2>1. CASE i = 1
    <3>1. tail + i - 1 = tail
      BY <1>0, <2>1
    <3> QED BY <2>1, <3>1 DEF RingAt
  <2>2. CASE i # 1
    <3>1. i \in 2..RingCells
      BY <1>0, <2>2
    <3> QED BY <2>2, <3>1, <1>3 DEF RingAt
  <2> QED BY <2>1, <2>2
<1>5. RingLine' = RingLine
  <2>1. ASSUME NEW i \in 1..RingSize
        PROVE  RingSlot(RingWrap(tail + i - 1)) = RingSlot(tail + i - 1)
    <3>1. tail + i - 1 \in Nat /\ tail + i - 1 < RingWord + RingWord
      BY <1>0, <2>1
    <3> QED BY <3>1, RingSlotOfWrap
  <2>2. RingLine' = [i \in 1..RingSize |-> RingAt(i)']
    BY <1>2, <2>1 DEF RingLine, RingAt
  <2>3. RingLine = [i \in 1..RingSize |-> RingAt(i)]
    BY RingLineAt DEF RingInv
  <2> QED BY <1>4, <2>2, <2>3
<1>6. ringPc[p] = "publish" => buf'[RingSlot(head)] = val[p]
  <2>1. ringPc[p] = "publish" => RingSize + 1 \in 2..RingCells
    BY <1>0 DEF RingInv
  <2>2. tail + (RingSize + 1) - 1 = tail + RingSize
    BY <1>0
  <2> QED BY <1>0, <1>3, <2>1, <2>2 DEF RingInv
<1>7. \A i \in 1..RingSize : RingAt(i)' \in 1..RingBound(p)
  BY <1>4 DEF RingInv
<1> QED BY <1>0, <1>1, <1>2, <1>5, <1>6, <1>7 DEF RingInv

\* pop publishes tail_: the oldest item has left.
LEMMA RingPopPublishStep ==
  ASSUME NEW p, RingProducers = {p}, RingInv(p), RingPopPublish
  PROVE  RingInv(p)' /\ RingFifo!Take
<1> USE DEF RingPopPublish
<1>0. RingCells \in Nat /\ RingCells > 0 /\ RingSize \in Nat /\ RingSize > 0 /\ RingSize <= RingCells
      /\ tail \in Nat /\ head \in Nat /\ RingWord \in Nat /\ RingCells < RingWord
      /\ tail < RingWord /\ head < RingWord /\ RingAt(1) = got
  BY RingFacts DEF RingInv, RingAt
<1>1. tail' = (IF tail + 1 = RingWord THEN 0 ELSE tail + 1) /\ tail' \in 0..(RingWord - 1)
  BY <1>0, RingWrapOnce
<1>2. RingTypeOK(p)'
  BY <1>1 DEF RingInv, RingTypeOK
<1>3. RingSize' = RingSize - 1
  <2>1. RingSize = IF head >= tail THEN head - tail ELSE head + RingWord - tail
    BY RingDistance DEF RingSize, RingInv, RingTypeOK
  <2>2. RingSize' = IF head >= tail' THEN head - tail' ELSE head + RingWord - tail'
    BY <1>1, RingDistance DEF RingSize, RingInv, RingTypeOK
  <2> QED BY <1>0, <1>1, <2>1, <2>2
<1>4. RingBound(p)' = RingBound(p)
  BY DEF RingBound
<1>5. ASSUME NEW i \in 1..(RingSize - 1)
      PROVE  RingAt(i)' = RingAt(i + 1) /\ RingSlot(RingWrap(tail' + i - 1)) = RingSlot(tail' + i - 1)
  <2>1. tail' + i - 1 \in Nat /\ tail' + i - 1 < RingWord + RingWord
        /\ tail + (i + 1) - 1 \in Nat /\ i + 1 # 1
        /\ (tail + (i + 1) - 1 = tail' + i - 1 \/ tail + (i + 1) - 1 = (tail' + i - 1) + RingWord)
    BY <1>0, <1>1, <1>5
  <2>2. RingSlot(RingWrap(tail' + i - 1)) = RingSlot(tail' + i - 1)
    BY <2>1, RingSlotOfWrap
  <2>3. RingSlot(tail + (i + 1) - 1) = RingSlot(tail' + i - 1)
    BY <2>1, RingSlotWraps
  <2>4. RingAt(i + 1) = buf[RingSlot(tail + (i + 1) - 1)]
    BY <2>1 DEF RingAt
  <2>5. RingAt(i)' = buf[RingSlot(tail' + i - 1)]
    BY DEF RingAt
  <2> QED BY <2>2, <2>3, <2>4, <2>5
<1>6. RingLine = [i \in 1..RingSize |-> RingAt(i)]
  BY RingLineAt DEF RingInv
<1>7. RingLine' = [i \in 1..(RingSize - 1) |-> RingAt(i + 1)]
  <2>1. RingLine' = [i \in 1..(RingSize - 1) |-> RingAt(i)']
    BY <1>3, <1>5 DEF RingLine, RingAt
  <2> QED BY <1>5, <2>1
<1>8. RingLine # <<>> /\ Head(RingLine) = got /\ RingLine' = Tail(RingLine)
  BY <1>0, <1>6, <1>7
<1>9. \A i \in 1..RingSize' : RingAt(i)' \in 1..RingBound(p)
  <2>1. \A i \in 1..(RingSize - 1) : i + 1 \in 1..RingSize
    BY <1>0
  <2> QED BY <1>3, <1>5, <2>1 DEF RingInv
<1>10. \A i \in 1..Len(out') : out'[i] \in 1..RingBound(p)
  <2>1. got \in 1..RingBound(p)
    BY <1>0 DEF RingInv
  <2>2. out \in Seq(Nat) /\ got \in Nat
    BY DEF RingInv, RingTypeOK
  <2> QED BY <2>1, <2>2 DEF RingInv
<1>11. RingInv(p)'
  BY <1>0, <1>2, <1>3, <1>4, <1>9, <1>10 DEF RingInv, RingTypeOK
<1> QED BY <1>8, <1>11 DEF RingFifo!Take

\* With one pushing thread the ring of the scheduler is a bounded FIFO, for every
\* number of cells that divides the range of its indices: push and pop, whose
\* every access to head_, tail_ and a cell is a step of its own, never lose,
\* repeat, reorder or overwrite an item, also when the indices wrap around.
THEOREM RingIsFifo ==
  ASSUME NEW p, RingProducers = {p}
  PROVE  RingSpec => RingImplementsFifo
<1>1. RingInit => RingInv(p) /\ RingFifo!Init
  <2> SUFFICES ASSUME RingInit PROVE RingInv(p) /\ RingFifo!Init
    OBVIOUS
  <2>1. RingInv(p) /\ RingSize = 0
    BY RingInitInv
  <2>2. RingLine = <<>> /\ out = <<>>
    BY <2>1 DEF RingLine, RingInit
  <2> QED BY <2>1, <2>2 DEF RingFifo!Init
<1>2. RingInv(p) /\ [RingNext]_ringVars => RingInv(p)' /\ [RingFifo!Next]_(RingFifo!fifoVars)
  <2> SUFFICES ASSUME RingInv(p), [RingNext]_ringVars
               PROVE  RingInv(p)' /\ [RingFifo!Next]_(RingFifo!fifoVars)
    OBVIOUS
  <2> USE DEF RingFifo!Next, RingFifo!fifoVars
  <2>1. CASE UNCHANGED ringVars
    <3>1. RingInv(p)'
      BY <2>1 DEF ringVars, RingInv, RingTypeOK, RingSize, RingAt, RingBound
    <3>2. RingLine' = RingLine /\ out' = out
      BY <2>1 DEF ringVars, RingLine, RingSize
    <3> QED BY <3>1, <3>2
  <2>2. CASE RingPushLoad(p)
    BY <2>2, RingPushLoadStep
  <2>3. CASE RingPushCheck(p)
    BY <2>3, RingPushCheckStep
  <2>4. CASE RingPushStore(p)
    BY <2>4, RingPushStoreStep
  <2>5. CASE RingPushPublish(p)
    BY <2>5, RingPushPublishStep
  <2>6. CASE RingPopCheck
    BY <2>6, RingPopCheckStep
  <2>7. CASE RingPopRead
    BY <2>7, RingPopReadStep
  <2>8. CASE RingPopPublish
    BY <2>8, RingPopPublishStep
  <2> QED BY <2>1, <2>2, <2>3, <2>4, <2>5, <2>6, <2>7, <2>8 DEF RingNext, RingPush, RingPop
<1> QED BY <1>1, <1>2, PTL DEF RingSpec, RingImplementsFifo, RingFifo!Spec

-----------------------------------------------------------------------------
(* The MPMC queue *)

\* Positions less than a capacity apart never share a cell.
LEMMA CellInjective ==
  ASSUME NEW i \in Nat, NEW j \in Nat, i < j, j - i < CellCount
  PROVE  CellOf(i) # CellOf(j)
BY QueueAssumption, ModInjective DEF CellOf

\* A position has a cell.
LEMMA CellType ==
  ASSUME NEW i \in Nat
  PROVE  CellOf(i) \in Cells
BY QueueAssumption DEF CellOf, Cells

\* A cell comes round again a capacity later.
LEMMA CellRound ==
  ASSUME NEW i \in Nat
  PROVE  CellOf(i + CellCount) = CellOf(i)
<1>1. CellCount \in Nat \ {0} /\ CellCount * 1 = CellCount
  BY QueueAssumption
<1>2. (i + CellCount * 1) % CellCount = i % CellCount
  BY <1>1, ModShift
<1> QED BY <1>1, <1>2 DEF CellOf

ProducerPc == {"idle", "sequence", "reload", "cas", "write", "publish"}
ConsumerPc == {"idle", "sequence", "reload", "cas", "read", "publish"}

QueueTypeOK ==
  /\ enqueuePos \in Nat
  /\ dequeuePos \in Nat
  /\ sequence \in [Cells -> Nat]
  /\ data \in [Cells -> Nat]
  /\ queuePc \in [QueueThreads -> ProducerPc \cup ConsumerPc]
  /\ \A p \in QueueProducers : queuePc[p] \in ProducerPc
  /\ \A c \in QueueConsumers : queuePc[c] \in ConsumerPc
  /\ pos \in [QueueThreads -> Nat]
  /\ arg \in [QueueThreads -> Nat]
  /\ queueOffered \in 0..QueueMax

\* The positions in use fit the cells; the sequence number of a cell tells the
\* state of the one position of the window it stands for.
WindowInv ==
  /\ dequeuePos <= enqueuePos
  /\ enqueuePos <= dequeuePos + CellCount
  /\ \A n \in dequeuePos..(enqueuePos - 1) : sequence[CellOf(n)] \in {n, n + 1}
  /\ \A n \in enqueuePos..(dequeuePos + CellCount - 1) :
       sequence[CellOf(n)] \in {n, n - CellCount + 1}

\* A producer that won its position holds it until it publishes; one about to
\* compete for the next position has seen its cell free.
ProducerInv ==
  \A p \in QueueProducers :
    /\ queuePc[p] \in {"write", "publish"} =>
         dequeuePos <= pos[p] /\ pos[p] < enqueuePos /\ sequence[CellOf(pos[p])] = pos[p]
    /\ queuePc[p] \in {"sequence", "reload", "cas"} => pos[p] <= enqueuePos
    /\ queuePc[p] = "cas" /\ pos[p] = enqueuePos => sequence[CellOf(enqueuePos)] = enqueuePos

\* The same for the consumers.
ConsumerInv ==
  \A c \in QueueConsumers :
    /\ queuePc[c] \in {"read", "publish"} =>
         enqueuePos <= pos[c] + CellCount /\ pos[c] < dequeuePos /\ sequence[CellOf(pos[c])] = pos[c] + 1
    /\ queuePc[c] \in {"sequence", "reload", "cas"} => pos[c] <= dequeuePos
    /\ queuePc[c] = "cas" /\ pos[c] = dequeuePos =>
         dequeuePos < enqueuePos /\ sequence[CellOf(dequeuePos)] = dequeuePos + 1

\* No two threads hold one position.
HolderInv ==
  /\ \A p, q \in QueueProducers :
       queuePc[p] \in {"write", "publish"} /\ queuePc[q] \in {"write", "publish"} /\ pos[p] = pos[q] => p = q
  /\ \A c, d \in QueueConsumers :
       queuePc[c] \in {"read", "publish"} /\ queuePc[d] \in {"read", "publish"} /\ pos[c] = pos[d] => c = d

\* A position is read once, after its pop won it.
TakenInv ==
  /\ DOMAIN taken \subseteq 0..(dequeuePos - 1)
  /\ \A n \in 0..(dequeuePos - 1) :
       n \in DOMAIN taken \/ \E c \in QueueConsumers : queuePc[c] = "read" /\ pos[c] = n
  /\ \A c \in QueueConsumers : queuePc[c] = "read" => pos[c] \notin DOMAIN taken

\* The item that entered at position n, from then on.
Entry(n) == IF n \in DOMAIN taken THEN taken[n] ELSE ItemAt(n)

\* The item of a producer that has no position yet is nowhere else.
FreshInv ==
  /\ \A n \in 0..(enqueuePos - 1) : Entry(n) \in 0..queueOffered
  /\ \A p \in QueueProducers : queuePc[p] \in {"sequence", "reload", "cas"} =>
       arg[p] \in 1..queueOffered /\ \A n \in 0..(enqueuePos - 1) : Entry(n) # arg[p]
  /\ \A p, q \in QueueProducers :
       queuePc[p] \in {"sequence", "reload", "cas"} /\ queuePc[q] \in {"sequence", "reload", "cas"}
         /\ arg[p] = arg[q] => p = q

QueueInv ==
  QueueTypeOK /\ WindowInv /\ ProducerInv /\ ConsumerInv /\ HolderInv /\ TakenInv /\ FreshInv

\* A producer is not a consumer.
LEMMA ThreadSets ==
  ASSUME NEW p \in QueueProducers, NEW c \in QueueConsumers
  PROVE  p \in QueueThreads /\ c \in QueueThreads /\ p # c
BY QueueAssumption DEF QueueThreads

\* An empty queue.
LEMMA QueueInitInv ==
  ASSUME QueueInit
  PROVE  QueueInv
<1> USE QueueAssumption DEF QueueInit
<1>1. QueueTypeOK
  BY DEF QueueTypeOK, ProducerPc, ConsumerPc, QueueThreads, Cells, NoData
<1>2. WindowInv
  <2>1. \A n \in 0..(CellCount - 1) : CellOf(n) = n
    BY DEF CellOf
  <2> QED BY <2>1 DEF WindowInv, Cells
<1>3. ProducerInv /\ ConsumerInv /\ HolderInv
  BY DEF ProducerInv, ConsumerInv, HolderInv, QueueThreads
<1>4. TakenInv /\ FreshInv
  BY DEF TakenInv, FreshInv, QueueThreads
<1> QED BY <1>1, <1>2, <1>3, <1>4 DEF QueueInv

\* What a step must leave alone for the entry of a position to stay.
LEMMA EntryKept ==
  ASSUME NEW n,
         Writers(n)' = Writers(n),
         \A p \in Writers(n) : arg'[p] = arg[p],
         data'[CellOf(n)] = data[CellOf(n)],
         taken' = taken
  PROVE  Entry(n)' = Entry(n)
<1>1. CASE Writers(n) = {}
  BY <1>1 DEF Entry, ItemAt
<1>2. CASE Writers(n) # {}
  <2>1. (CHOOSE p \in Writers(n) : TRUE) \in Writers(n)
    BY <1>2
  <2>2. ItemAt(n)' = arg'[CHOOSE p \in Writers(n) : TRUE]
    BY <1>2 DEF ItemAt
  <2> QED BY <1>2, <2>1, <2>2 DEF Entry, ItemAt
<1> QED BY <1>1, <1>2

\* A step of a thread that is not at "write" before or after it, and leaves the
\* cells alone, leaves every entry alone.
LEMMA EntriesKept ==
  ASSUME NEW x \in QueueThreads, QueueTypeOK,
         UNCHANGED <<data, taken>>,
         queuePc[x] # "write", queuePc'[x] # "write",
         \A y \in QueueThreads \ {x} : queuePc'[y] = queuePc[y] /\ pos'[y] = pos[y] /\ arg'[y] = arg[y]
  PROVE  \A n : Entry(n)' = Entry(n)
<1> TAKE n
<1>1. Writers(n)' = Writers(n)
  BY DEF Writers, QueueThreads
<1>2. \A p \in Writers(n) : arg'[p] = arg[p]
  BY DEF Writers, QueueThreads
<1> QED BY <1>1, <1>2, EntryKept

QueuePushLocal(p) ==
  QueuePushLoadPos(p) \/ QueuePushLoadSequence(p) \/ QueuePushReload(p) \/ QueuePushCasFails(p)
QueuePopLocal(c) ==
  QueuePopLoadPos(c) \/ QueuePopLoadSequence(c) \/ QueuePopReload(c) \/ QueuePopCasFails(c)

\* The steps of push that only read shared words.
LEMMA PushLocalFacts ==
  ASSUME NEW p \in QueueProducers, QueueInv, QueuePushLocal(p)
  PROVE  /\ UNCHANGED <<enqueuePos, dequeuePos, sequence, data, taken>>
         /\ queuePc[p] \in {"idle", "sequence", "reload", "cas"}
         /\ queuePc'[p] \in {"idle", "sequence", "reload", "cas"}
         /\ queuePc' \in [QueueThreads -> ProducerPc \cup ConsumerPc]
         /\ pos' \in [QueueThreads -> Nat] /\ arg' \in [QueueThreads -> Nat]
         /\ queueOffered' \in 0..QueueMax /\ queueOffered <= queueOffered'
         /\ \A y \in QueueThreads \ {p} : queuePc'[y] = queuePc[y] /\ pos'[y] = pos[y] /\ arg'[y] = arg[y]
<1> USE QueueAssumption DEF QueueInv, QueueTypeOK, QueueGoto, QueueThreads, ProducerPc, NoData
<1>1. CASE QueuePushLoadPos(p)
  BY <1>1 DEF QueuePushLoadPos
<1>2. CASE QueuePushLoadSequence(p)
  BY <1>2 DEF QueuePushLoadSequence
<1>3. CASE QueuePushReload(p)
  BY <1>3 DEF QueuePushReload
<1>4. CASE QueuePushCasFails(p)
  BY <1>4 DEF QueuePushCasFails
<1> QED BY <1>1, <1>2, <1>3, <1>4 DEF QueuePushLocal

\* Where the position of such a producer is, and the item it carries.
LEMMA PushLocalOwn ==
  ASSUME NEW p \in QueueProducers, QueueInv, QueuePushLocal(p)
  PROVE  /\ queuePc'[p] # "idle" => pos'[p] <= enqueuePos
         /\ queuePc'[p] = "cas" /\ pos'[p] = enqueuePos => sequence[CellOf(enqueuePos)] = enqueuePos
         /\ queuePc'[p] # "idle" =>
              \/ queuePc[p] # "idle" /\ arg'[p] = arg[p]
              \/ arg'[p] = queueOffered + 1 /\ queueOffered' = queueOffered + 1
<1> USE DEF QueueInv, QueueTypeOK, ProducerInv, QueueGoto, QueueThreads
<1>1. CASE QueuePushLoadPos(p)
  BY <1>1 DEF QueuePushLoadPos
<1>2. CASE QueuePushLoadSequence(p)
  <2>1. CellOf(pos[p]) \in Cells /\ pos[p] \in Nat /\ sequence[CellOf(pos[p])] \in Nat
    BY CellType
  <2>2. queuePc'[p] = "cas" => sequence[CellOf(pos[p])] - pos[p] = 0
    BY <1>2 DEF QueuePushLoadSequence
  <2>3. queuePc'[p] = "cas" => sequence[CellOf(pos[p])] = pos[p]
    BY <2>1, <2>2
  <2>4. pos' = pos /\ queuePc[p] = "sequence" /\ pos[p] <= enqueuePos
    BY <1>2 DEF QueuePushLoadSequence
  <2>5. queuePc'[p] # "idle" => arg'[p] = arg[p]
    BY <1>2 DEF QueuePushLoadSequence
  <2> QED BY <2>3, <2>4, <2>5
<1>3. CASE QueuePushReload(p)
  BY <1>3 DEF QueuePushReload
<1>4. CASE QueuePushCasFails(p)
  BY <1>4 DEF QueuePushCasFails
<1> QED BY <1>1, <1>2, <1>3, <1>4 DEF QueuePushLocal

\* The steps of push that change only what the producer itself knows.
LEMMA PushLocalStep ==
  ASSUME NEW p \in QueueProducers, QueueInv, QueuePushLocal(p)
  PROVE  QueueInv' /\ (\A n : Entry(n)' = Entry(n)) /\ UNCHANGED <<enqueuePos, dequeuePos>>
<1>0. p \in QueueThreads /\ QueueProducers \subseteq QueueThreads /\ QueueConsumers \subseteq QueueThreads
      /\ p \notin QueueConsumers
  BY QueueAssumption DEF QueueThreads
<1>1. /\ UNCHANGED <<enqueuePos, dequeuePos, sequence, data, taken>>
      /\ queuePc[p] \in {"idle", "sequence", "reload", "cas"}
      /\ queuePc'[p] \in {"idle", "sequence", "reload", "cas"}
      /\ \A y \in QueueThreads \ {p} : queuePc'[y] = queuePc[y] /\ pos'[y] = pos[y] /\ arg'[y] = arg[y]
  BY PushLocalFacts
<1>2. \A n : Entry(n)' = Entry(n)
  BY <1>0, <1>1, EntriesKept DEF QueueInv
<1>3. QueueTypeOK'
  <2>1. /\ queuePc' \in [QueueThreads -> ProducerPc \cup ConsumerPc]
        /\ pos' \in [QueueThreads -> Nat] /\ arg' \in [QueueThreads -> Nat]
        /\ queueOffered' \in 0..QueueMax
    BY PushLocalFacts
  <2> QED BY <1>0, <1>1, <2>1 DEF QueueInv, QueueTypeOK, ProducerPc
<1>4. WindowInv'
  BY <1>1 DEF QueueInv, WindowInv
<1>5. ProducerInv'
  BY <1>0, <1>1, PushLocalOwn DEF QueueInv, ProducerInv
<1>6. ConsumerInv'
  BY <1>0, <1>1 DEF QueueInv, ConsumerInv
<1>7. HolderInv'
  BY <1>0, <1>1 DEF QueueInv, HolderInv
<1>8. TakenInv'
  BY <1>0, <1>1 DEF QueueInv, TakenInv
<1>9. FreshInv'
  <2>1. queueOffered \in Nat /\ queueOffered' \in Nat /\ queueOffered <= queueOffered'
    BY PushLocalFacts DEF QueueInv, QueueTypeOK
  <2>2. \A n \in 0..(enqueuePos' - 1) : Entry(n)' \in 0..queueOffered'
    BY <1>1, <1>2, <2>1 DEF QueueInv, FreshInv
  <2>3. ASSUME NEW q \in QueueProducers, queuePc'[q] \in {"sequence", "reload", "cas"}
        PROVE  arg'[q] \in 1..queueOffered' /\ \A n \in 0..(enqueuePos' - 1) : Entry(n)' # arg'[q]
    <3>1. CASE q # p
      BY <1>0, <1>1, <1>2, <2>1, <2>3, <3>1 DEF QueueInv, FreshInv
    <3>2. CASE q = p /\ queuePc[p] # "idle" /\ arg'[p] = arg[p]
      BY <1>0, <1>1, <1>2, <2>1, <2>3, <3>2 DEF QueueInv, FreshInv
    <3>3. CASE q = p /\ arg'[p] = queueOffered + 1 /\ queueOffered' = queueOffered + 1
      BY <1>1, <1>2, <2>1, <2>3, <3>3 DEF QueueInv, FreshInv
    <3> QED BY <2>3, <3>1, <3>2, <3>3, PushLocalOwn
  <2>4. ASSUME NEW q \in QueueProducers, NEW r \in QueueProducers, q # r,
               queuePc'[q] \in {"sequence", "reload", "cas"}, queuePc'[r] \in {"sequence", "reload", "cas"}
        PROVE  arg'[q] # arg'[r]
    <3>1. CASE q # p /\ r # p
      BY <1>0, <1>1, <2>4, <3>1 DEF QueueInv, FreshInv
    <3>2. ASSUME NEW y \in QueueProducers, y # p, queuePc'[y] \in {"sequence", "reload", "cas"},
                 queuePc'[p] # "idle"
          PROVE  arg'[y] # arg'[p]
      <4>1. arg'[y] = arg[y] /\ queuePc[y] \in {"sequence", "reload", "cas"} /\ arg[y] \in 1..queueOffered
        BY <1>0, <1>1, <3>2 DEF QueueInv, FreshInv
      <4>2. CASE queuePc[p] # "idle" /\ arg'[p] = arg[p]
        BY <1>1, <3>2, <4>1, <4>2 DEF QueueInv, FreshInv
      <4>3. CASE arg'[p] = queueOffered + 1
        BY <2>1, <4>1, <4>3
      <4> QED BY <3>2, <4>2, <4>3, PushLocalOwn
    <3>3. CASE q = p
      BY <2>4, <3>2, <3>3
    <3>4. CASE r = p
      BY <2>4, <3>2, <3>4
    <3> QED BY <3>1, <3>3, <3>4
  <2> QED BY <2>2, <2>3, <2>4 DEF FreshInv
<1> QED BY <1>1, <1>2, <1>3, <1>4, <1>5, <1>6, <1>7, <1>8, <1>9 DEF QueueInv

\* The steps of pop that only read shared words.
LEMMA PopLocalFacts ==
  ASSUME NEW c \in QueueConsumers, QueueInv, QueuePopLocal(c)
  PROVE  /\ UNCHANGED <<enqueuePos, dequeuePos, sequence, data, taken, arg, queueOffered>>
         /\ queuePc[c] \in {"idle", "sequence", "reload", "cas"}
         /\ queuePc'[c] \in {"idle", "sequence", "reload", "cas"}
         /\ queuePc' \in [QueueThreads -> ProducerPc \cup ConsumerPc]
         /\ pos' \in [QueueThreads -> Nat]
         /\ \A y \in QueueThreads \ {c} : queuePc'[y] = queuePc[y] /\ pos'[y] = pos[y]
<1> USE QueueAssumption DEF QueueInv, QueueTypeOK, QueueGoto, QueueThreads, ConsumerPc
<1>1. CASE QueuePopLoadPos(c)
  BY <1>1 DEF QueuePopLoadPos
<1>2. CASE QueuePopLoadSequence(c)
  BY <1>2 DEF QueuePopLoadSequence
<1>3. CASE QueuePopReload(c)
  BY <1>3 DEF QueuePopReload
<1>4. CASE QueuePopCasFails(c)
  BY <1>4 DEF QueuePopCasFails
<1> QED BY <1>1, <1>2, <1>3, <1>4 DEF QueuePopLocal

\* A pop that saw the sequence number of a full cell at dequeue_pos_ saw a
\* published item.
LEMMA PopLocalOwn ==
  ASSUME NEW c \in QueueConsumers, QueueInv, QueuePopLocal(c)
  PROVE  /\ queuePc'[c] # "idle" => pos'[c] <= dequeuePos
         /\ queuePc'[c] = "cas" /\ pos'[c] = dequeuePos =>
              dequeuePos < enqueuePos /\ sequence[CellOf(dequeuePos)] = dequeuePos + 1
<1> USE DEF QueueInv, QueueTypeOK, QueueGoto, QueueThreads
<1>1. CASE QueuePopLoadPos(c)
  BY <1>1 DEF QueuePopLoadPos
<1>2. CASE QueuePopLoadSequence(c)
  <2>1. CellOf(pos[c]) \in Cells /\ pos[c] \in Nat /\ sequence[CellOf(pos[c])] \in Nat
    BY CellType
  <2>2. queuePc'[c] = "cas" => sequence[CellOf(pos[c])] - (pos[c] + 1) = 0
    BY <1>2 DEF QueuePopLoadSequence, QueuePopDif
  <2>3. queuePc'[c] = "cas" => sequence[CellOf(pos[c])] = pos[c] + 1
    BY <2>1, <2>2
  <2>4. pos' = pos /\ queuePc[c] = "sequence" /\ pos[c] <= dequeuePos
    BY <1>2 DEF QueuePopLoadSequence, ConsumerInv
  <2>5. sequence[CellOf(dequeuePos)] = dequeuePos + 1 => dequeuePos < enqueuePos
    <3>1. SUFFICES ASSUME dequeuePos = enqueuePos PROVE sequence[CellOf(dequeuePos)] # dequeuePos + 1
      BY DEF WindowInv
    <3>2. dequeuePos \in enqueuePos..(dequeuePos + CellCount - 1)
      BY <3>1, QueueAssumption
    <3>3. sequence[CellOf(dequeuePos)] \in {dequeuePos, dequeuePos - CellCount + 1}
      BY <3>2 DEF WindowInv
    <3> QED BY <3>3, QueueAssumption
  <2> QED BY <2>3, <2>4, <2>5
<1>3. CASE QueuePopReload(c)
  BY <1>3 DEF QueuePopReload
<1>4. CASE QueuePopCasFails(c)
  BY <1>4 DEF QueuePopCasFails
<1> QED BY <1>1, <1>2, <1>3, <1>4 DEF QueuePopLocal

\* The steps of pop that change only what the consumer itself knows.
LEMMA PopLocalStep ==
  ASSUME NEW c \in QueueConsumers, QueueInv, QueuePopLocal(c)
  PROVE  QueueInv' /\ (\A n : Entry(n)' = Entry(n)) /\ UNCHANGED <<enqueuePos, dequeuePos>>
<1>0. c \in QueueThreads /\ QueueProducers \subseteq QueueThreads /\ QueueConsumers \subseteq QueueThreads
      /\ c \notin QueueProducers
  BY QueueAssumption DEF QueueThreads
<1>1. /\ UNCHANGED <<enqueuePos, dequeuePos, sequence, data, taken, arg, queueOffered>>
      /\ queuePc[c] \in {"idle", "sequence", "reload", "cas"}
      /\ queuePc'[c] \in {"idle", "sequence", "reload", "cas"}
      /\ \A y \in QueueThreads \ {c} : queuePc'[y] = queuePc[y] /\ pos'[y] = pos[y]
  BY PopLocalFacts
<1>2. \A n : Entry(n)' = Entry(n)
  BY <1>0, <1>1, EntriesKept DEF QueueInv
<1>3. QueueTypeOK'
  <2>1. queuePc' \in [QueueThreads -> ProducerPc \cup ConsumerPc] /\ pos' \in [QueueThreads -> Nat]
    BY PopLocalFacts
  <2> QED BY <1>0, <1>1, <2>1 DEF QueueInv, QueueTypeOK, ConsumerPc
<1>4. WindowInv'
  BY <1>1 DEF QueueInv, WindowInv
<1>5. ProducerInv'
  BY <1>0, <1>1 DEF QueueInv, ProducerInv
<1>6. ConsumerInv'
  BY <1>0, <1>1, PopLocalOwn DEF QueueInv, ConsumerInv
<1>7. HolderInv'
  BY <1>0, <1>1 DEF QueueInv, HolderInv
<1>8. TakenInv'
  <2>1. \A n \in 0..(dequeuePos' - 1) :
          n \in DOMAIN taken' \/ \E d \in QueueConsumers : queuePc'[d] = "read" /\ pos'[d] = n
    <3> TAKE n \in 0..(dequeuePos' - 1)
    <3>1. CASE n \notin DOMAIN taken
      <4>1. PICK d \in QueueConsumers : queuePc[d] = "read" /\ pos[d] = n
        BY <1>1, <3>1 DEF QueueInv, TakenInv
      <4>2. d # c
        BY <1>1, <4>1
      <4> QED BY <1>0, <1>1, <4>1, <4>2
    <3> QED BY <1>1, <3>1
  <2> QED BY <1>0, <1>1, <2>1 DEF QueueInv, TakenInv
<1>9. FreshInv'
  BY <1>0, <1>1, <1>2 DEF QueueInv, FreshInv
<1> QED BY <1>1, <1>2, <1>3, <1>4, <1>5, <1>6, <1>7, <1>8, <1>9 DEF QueueInv

\* push wins the next position; its cell is free.
LEMMA PushCasStep ==
  ASSUME NEW p \in QueueProducers, QueueInv, QueuePushCas(p)
  PROVE  /\ QueueInv'
         /\ enqueuePos' = enqueuePos + 1 /\ UNCHANGED dequeuePos
         /\ enqueuePos < dequeuePos + CellCount
         /\ \A n \in 0..(enqueuePos - 1) : Entry(n)' = Entry(n) /\ Entry(n) # arg[p]
         /\ \A n : n = enqueuePos => Entry(n)' = arg[p]
         /\ arg[p] \in QueueItem
<1>0. p \in QueueThreads /\ QueueProducers \subseteq QueueThreads /\ QueueConsumers \subseteq QueueThreads
      /\ p \notin QueueConsumers
  BY QueueAssumption DEF QueueThreads
<1>1. /\ UNCHANGED <<dequeuePos, sequence, data, pos, arg, queueOffered, taken>>
      /\ queuePc[p] = "cas" /\ queuePc'[p] = "write" /\ pos[p] = enqueuePos
      /\ enqueuePos' = enqueuePos + 1
      /\ \A y \in QueueThreads \ {p} : queuePc'[y] = queuePc[y]
      /\ queuePc' \in [QueueThreads -> ProducerPc \cup ConsumerPc]
  BY <1>0 DEF QueueInv, QueueTypeOK, QueuePushCas, QueueGoto, ProducerPc
<1>2. enqueuePos \in Nat /\ dequeuePos \in Nat /\ CellCount \in Nat /\ CellCount > 1
      /\ dequeuePos <= enqueuePos /\ enqueuePos <= dequeuePos + CellCount
      /\ sequence[CellOf(enqueuePos)] = enqueuePos
  BY <1>1, QueueAssumption DEF QueueInv, QueueTypeOK, WindowInv, ProducerInv
<1>3. enqueuePos < dequeuePos + CellCount
  <2>1. SUFFICES ASSUME enqueuePos = dequeuePos + CellCount PROVE FALSE
    BY <1>2
  <2>2. CellOf(enqueuePos) = CellOf(dequeuePos)
    BY <1>2, <2>1, CellRound
  <2>3. sequence[CellOf(dequeuePos)] \in {dequeuePos, dequeuePos + 1}
    BY <1>2, <2>1 DEF QueueInv, WindowInv
  <2> QED BY <1>2, <2>1, <2>2, <2>3
<1>4. \A n : n # enqueuePos => Writers(n)' = Writers(n)
  BY <1>0, <1>1 DEF Writers
<1>5. \A n \in 0..(enqueuePos - 1) : Entry(n)' = Entry(n)
  <2> TAKE n \in 0..(enqueuePos - 1)
  <2>1. n # enqueuePos
    BY <1>2
  <2> QED BY <1>1, <1>4, <2>1, EntryKept
<1>6. arg[p] \in 1..queueOffered /\ \A n \in 0..(enqueuePos - 1) : Entry(n) # arg[p]
  BY <1>1 DEF QueueInv, FreshInv
<1>7. ASSUME NEW e, e = enqueuePos
      PROVE  Entry(e)' = arg[p]
  <2>1. e \notin DOMAIN taken
    BY <1>2, <1>7 DEF QueueInv, TakenInv
  <2>2. Writers(e)' = {p}
    <3>1. ASSUME NEW q \in QueueProducers, queuePc'[q] = "write", pos'[q] = e
          PROVE  q = p
      BY <1>0, <1>1, <1>2, <1>7, <3>1 DEF QueueInv, ProducerInv
    <3>2. queuePc'[p] = "write" /\ pos'[p] = e
      BY <1>1, <1>7
    <3>3. Writers(e)' = {q \in QueueProducers : queuePc'[q] = "write" /\ pos'[q] = e}
      BY DEF Writers
    <3> QED BY <3>1, <3>2, <3>3
  <2>3. (CHOOSE q \in {p} : TRUE) = p
    OBVIOUS
  <2>4. Entry(e)' = arg'[CHOOSE q \in {p} : TRUE]
    BY <1>1, <2>1, <2>2 DEF Entry, ItemAt
  <2> QED BY <1>1, <2>3, <2>4
<1>8. QueueTypeOK'
  BY <1>0, <1>1, <1>2 DEF QueueInv, QueueTypeOK, ProducerPc
<1>9. WindowInv'
  <2>1. \A n \in dequeuePos..enqueuePos : sequence[CellOf(n)] \in {n, n + 1}
    BY <1>2 DEF QueueInv, WindowInv
  <2>2. \A n \in (enqueuePos + 1)..(dequeuePos + CellCount - 1) : sequence[CellOf(n)] \in {n, n - CellCount + 1}
    BY <1>2 DEF QueueInv, WindowInv
  <2> QED BY <1>1, <1>2, <1>3, <2>1, <2>2 DEF WindowInv
<1>10. ProducerInv'
  <2> SUFFICES ASSUME NEW q \in QueueProducers
      PROVE  /\ queuePc'[q] \in {"write", "publish"} =>
                  dequeuePos <= pos[q] /\ pos[q] < enqueuePos + 1 /\ sequence[CellOf(pos[q])] = pos[q]
             /\ queuePc'[q] \in {"sequence", "reload", "cas"} => pos[q] <= enqueuePos
    BY <1>1, <1>2, <1>0 DEF ProducerInv, QueueInv, QueueTypeOK
  <2>1. CASE q = p
    BY <1>1, <1>2, <2>1
  <2>2. CASE q # p
    BY <1>0, <1>1, <1>2, <2>2 DEF QueueInv, ProducerInv, QueueTypeOK
  <2> QED BY <2>1, <2>2
<1>11. ConsumerInv'
  <2> SUFFICES ASSUME NEW c \in QueueConsumers
      PROVE  /\ queuePc[c] \in {"read", "publish"} => enqueuePos + 1 <= pos[c] + CellCount
             /\ queuePc[c] = "cas" /\ pos[c] = dequeuePos => dequeuePos < enqueuePos + 1
    BY <1>0, <1>1 DEF QueueInv, ConsumerInv
  <2>1. ASSUME queuePc[c] \in {"read", "publish"} PROVE enqueuePos + 1 <= pos[c] + CellCount
    <3>1. pos[c] \in Nat /\ enqueuePos <= pos[c] + CellCount /\ sequence[CellOf(pos[c])] = pos[c] + 1
      BY <1>0, <2>1 DEF QueueInv, QueueTypeOK, ConsumerInv
    <3>2. enqueuePos # pos[c] + CellCount
      BY <1>2, <3>1, CellRound
    <3> QED BY <1>2, <3>1, <3>2
  <2> QED BY <1>2, <2>1
<1>12. HolderInv'
  <2>1. ASSUME NEW q \in QueueProducers, q # p, queuePc'[q] \in {"write", "publish"} PROVE pos[q] # pos[p]
    BY <1>0, <1>1, <1>2, <2>1 DEF QueueInv, ProducerInv
  <2> QED BY <1>0, <1>1, <2>1 DEF QueueInv, HolderInv
<1>13. TakenInv'
  BY <1>0, <1>1 DEF QueueInv, TakenInv
<1>14. FreshInv'
  <2>1. \A n \in 0..enqueuePos : n \in 0..(enqueuePos - 1) \/ n = enqueuePos
    BY <1>2
  <2>2. ASSUME NEW n \in 0..enqueuePos PROVE Entry(n)' \in 0..queueOffered
    <3>1. CASE n \in 0..(enqueuePos - 1)
      BY <1>5, <3>1 DEF QueueInv, FreshInv
    <3>2. CASE n = enqueuePos
      BY <1>6, <1>7, <3>2 DEF QueueInv, QueueTypeOK
    <3> QED BY <2>1, <3>1, <3>2
  <2>3. \A q \in QueueProducers : queuePc'[q] \in {"sequence", "reload", "cas"} =>
          q # p /\ queuePc[q] = queuePc'[q] /\ arg[q] # arg[p]
    BY <1>0, <1>1 DEF QueueInv, FreshInv
  <2>4. ASSUME NEW q \in QueueProducers, queuePc'[q] \in {"sequence", "reload", "cas"}
        PROVE  arg[q] \in 1..queueOffered /\ \A n \in 0..enqueuePos : Entry(n)' # arg[q]
    <3>1. queuePc[q] \in {"sequence", "reload", "cas"} /\ arg[q] # arg[p]
      BY <2>3, <2>4
    <3>2. arg[q] \in 1..queueOffered /\ \A n \in 0..(enqueuePos - 1) : Entry(n) # arg[q]
      BY <3>1 DEF QueueInv, FreshInv
    <3> QED BY <1>5, <1>7, <2>1, <3>1, <3>2
  <2>5. enqueuePos' - 1 = enqueuePos
    BY <1>1, <1>2
  <2> QED BY <1>1, <2>2, <2>3, <2>4, <2>5 DEF QueueInv, FreshInv
<1>15. arg[p] \in QueueItem
  BY <1>6, QueueAssumption DEF QueueInv, QueueTypeOK, QueueItem
<1> QED BY <1>1, <1>3, <1>5, <1>6, <1>7, <1>8, <1>9, <1>10, <1>11, <1>12, <1>13, <1>14, <1>15 DEF QueueInv

\* Two positions in use by holders or unread are in different cells.
LEMMA WindowCells ==
  ASSUME NEW m \in Nat, NEW n \in Nat, QueueTypeOK,
         enqueuePos <= m + CellCount, m < enqueuePos,
         enqueuePos <= n + CellCount, n < enqueuePos, m # n
  PROVE  CellOf(m) # CellOf(n)
<1>1. CellCount \in Nat /\ enqueuePos \in Nat
  BY QueueAssumption DEF QueueTypeOK
<1>2. CASE m < n
  BY <1>1, <1>2, CellInjective
<1>3. CASE n < m
  BY <1>1, <1>3, CellInjective
<1> QED BY <1>2, <1>3

\* push stores its item into its own cell.
LEMMA PushWriteStep ==
  ASSUME NEW p \in QueueProducers, QueueInv, QueuePushWrite(p)
  PROVE  /\ QueueInv' /\ UNCHANGED <<enqueuePos, dequeuePos>>
         /\ \A n \in 0..(enqueuePos - 1) : Entry(n)' = Entry(n)
<1>0. p \in QueueThreads /\ QueueProducers \subseteq QueueThreads /\ QueueConsumers \subseteq QueueThreads
      /\ p \notin QueueConsumers
  BY QueueAssumption DEF QueueThreads
<1>1. /\ UNCHANGED <<enqueuePos, dequeuePos, sequence, pos, arg, queueOffered, taken>>
      /\ queuePc[p] = "write" /\ queuePc'[p] = "publish"
      /\ \A y \in QueueThreads \ {p} : queuePc'[y] = queuePc[y]
      /\ queuePc' \in [QueueThreads -> ProducerPc \cup ConsumerPc]
      /\ data' = [data EXCEPT ![CellOf(pos[p])] = arg[p]]
  BY <1>0 DEF QueueInv, QueueTypeOK, QueuePushWrite, QueueGoto, ProducerPc
<1>2. enqueuePos \in Nat /\ dequeuePos \in Nat /\ CellCount \in Nat /\ CellCount > 1
      /\ dequeuePos <= enqueuePos /\ enqueuePos <= dequeuePos + CellCount
      /\ pos[p] \in Nat /\ dequeuePos <= pos[p] /\ pos[p] < enqueuePos /\ arg[p] \in Nat
  BY <1>0, <1>1, QueueAssumption DEF QueueInv, QueueTypeOK, WindowInv, ProducerInv
<1>3. data \in [Cells -> Nat] /\ CellOf(pos[p]) \in Cells /\ data'[CellOf(pos[p])] = arg[p]
      /\ data' \in [Cells -> Nat]
  BY <1>1, <1>2, CellType DEF QueueInv, QueueTypeOK
<1>4. ASSUME NEW n \in 0..(enqueuePos - 1)
      PROVE  Entry(n)' = Entry(n)
  <2>1. CASE n \in DOMAIN taken
    BY <1>1, <2>1 DEF Entry
  <2>2. CASE n \notin DOMAIN taken /\ n = pos[p]
    <3>1. Writers(n) = {p} /\ Writers(n)' = {}
      <4>1. \A q \in QueueProducers : queuePc[q] = "write" /\ pos[q] = n => q = p
        BY <1>1, <2>2 DEF QueueInv, HolderInv
      <4> QED BY <1>0, <1>1, <2>2, <4>1 DEF Writers
    <3>2. (CHOOSE q \in {p} : TRUE) = p
      OBVIOUS
    <3>3. Entry(n) = arg[CHOOSE q \in {p} : TRUE]
      BY <2>2, <3>1 DEF Entry, ItemAt
    <3>4. Entry(n)' = data'[CellOf(n)]
      BY <1>1, <2>2, <3>1 DEF Entry, ItemAt
    <3> QED BY <1>3, <2>2, <3>2, <3>3, <3>4
  <2>3. CASE n \notin DOMAIN taken /\ n # pos[p]
    <3>1. Writers(n)' = Writers(n)
      BY <1>0, <1>1, <2>3 DEF Writers
    <3>2. n \in Nat /\ n < enqueuePos /\ enqueuePos <= n + CellCount
      <4>1. CASE n >= dequeuePos
        BY <1>2, <4>1
      <4>2. CASE n < dequeuePos
        <5>1. n \in 0..(dequeuePos - 1)
          BY <1>2, <4>2
        <5>2. PICK c \in QueueConsumers : queuePc[c] = "read" /\ pos[c] = n
          BY <2>3, <5>1 DEF QueueInv, TakenInv
        <5> QED BY <1>2, <5>2 DEF QueueInv, ConsumerInv
      <4> QED BY <1>2, <4>1, <4>2
    <3>3. CellOf(n) # CellOf(pos[p]) /\ CellOf(n) \in Cells
      <4>1. enqueuePos <= pos[p] + CellCount
        BY <1>2
      <4> QED BY <1>2, <2>3, <3>2, <4>1, WindowCells, CellType DEF QueueInv
    <3>4. data'[CellOf(n)] = data[CellOf(n)]
      BY <1>1, <1>3, <3>3
    <3> QED BY <1>1, <3>1, <3>4, EntryKept
  <2> QED BY <2>1, <2>2, <2>3
<1>5. QueueTypeOK'
  BY <1>0, <1>1, <1>3 DEF QueueInv, QueueTypeOK, ProducerPc
<1>6. WindowInv'
  BY <1>1 DEF QueueInv, WindowInv
<1>7. ProducerInv'
  BY <1>0, <1>1 DEF QueueInv, ProducerInv
<1>8. ConsumerInv'
  BY <1>0, <1>1 DEF QueueInv, ConsumerInv
<1>9. HolderInv'
  BY <1>0, <1>1 DEF QueueInv, HolderInv
<1>10. TakenInv'
  BY <1>0, <1>1 DEF QueueInv, TakenInv
<1>11. FreshInv'
  BY <1>0, <1>1, <1>4 DEF QueueInv, FreshInv
<1> QED BY <1>1, <1>4, <1>5, <1>6, <1>7, <1>8, <1>9, <1>10, <1>11 DEF QueueInv

\* push publishes its cell: the sequence number says full.
LEMMA PushPublishStep ==
  ASSUME NEW p \in QueueProducers, QueueInv, QueuePushPublish(p)
  PROVE  QueueInv' /\ UNCHANGED <<enqueuePos, dequeuePos>> /\ (\A n : Entry(n)' = Entry(n))
<1>0. p \in QueueThreads /\ QueueProducers \subseteq QueueThreads /\ QueueConsumers \subseteq QueueThreads
      /\ p \notin QueueConsumers
  BY QueueAssumption DEF QueueThreads
<1>1. /\ UNCHANGED <<enqueuePos, dequeuePos, data, pos, queueOffered, taken>>
      /\ queuePc[p] = "publish" /\ queuePc'[p] = "idle"
      /\ \A y \in QueueThreads \ {p} : queuePc'[y] = queuePc[y] /\ arg'[y] = arg[y]
      /\ queuePc' \in [QueueThreads -> ProducerPc \cup ConsumerPc]
      /\ arg' \in [QueueThreads -> Nat]
      /\ sequence' = [sequence EXCEPT ![CellOf(pos[p])] = pos[p] + 1]
  BY <1>0 DEF QueueInv, QueueTypeOK, QueuePushPublish, QueueGoto, ProducerPc, NoData
<1>2. enqueuePos \in Nat /\ dequeuePos \in Nat /\ CellCount \in Nat /\ CellCount > 1
      /\ dequeuePos <= enqueuePos /\ enqueuePos <= dequeuePos + CellCount
      /\ pos[p] \in Nat /\ dequeuePos <= pos[p] /\ pos[p] < enqueuePos
      /\ sequence[CellOf(pos[p])] = pos[p]
  BY <1>0, <1>1, QueueAssumption DEF QueueInv, QueueTypeOK, WindowInv, ProducerInv
<1>3. sequence \in [Cells -> Nat] /\ CellOf(pos[p]) \in Cells /\ sequence'[CellOf(pos[p])] = pos[p] + 1
      /\ sequence' \in [Cells -> Nat]
  BY <1>1, <1>2, CellType DEF QueueInv, QueueTypeOK
<1>4. \A n : Entry(n)' = Entry(n)
  BY <1>0, <1>1, EntriesKept DEF QueueInv
<1>5. ASSUME NEW n \in Nat, CellOf(n) # CellOf(pos[p])
      PROVE  sequence'[CellOf(n)] = sequence[CellOf(n)]
  BY <1>1, <1>3, <1>5, CellType
<1>6. ASSUME NEW n \in dequeuePos..(dequeuePos + CellCount - 1), n # pos[p]
      PROVE  sequence'[CellOf(n)] = sequence[CellOf(n)]
  <2>1. n \in Nat
    BY <1>2
  <2>2. CASE n < pos[p]
    BY <1>2, <1>5, <2>1, <2>2, CellInjective
  <2>3. CASE n > pos[p]
    BY <1>2, <1>5, <2>1, <2>3, CellInjective
  <2> QED BY <1>2, <1>6, <2>1, <2>2, <2>3
<1>7. QueueTypeOK'
  BY <1>0, <1>1, <1>3 DEF QueueInv, QueueTypeOK, ProducerPc
<1>8. WindowInv'
  <2>1. ASSUME NEW n \in dequeuePos..(enqueuePos - 1) PROVE sequence'[CellOf(n)] \in {n, n + 1}
    <3>1. CASE n = pos[p]
      BY <1>3, <3>1
    <3>2. CASE n # pos[p]
      <4>1. n \in dequeuePos..(dequeuePos + CellCount - 1)
        BY <1>2
      <4> QED BY <1>6, <3>2, <4>1 DEF QueueInv, WindowInv
    <3> QED BY <3>1, <3>2
  <2>2. ASSUME NEW n \in enqueuePos..(dequeuePos + CellCount - 1)
        PROVE  sequence'[CellOf(n)] \in {n, n - CellCount + 1}
    <3>1. n \in dequeuePos..(dequeuePos + CellCount - 1) /\ n # pos[p]
      BY <1>2
    <3> QED BY <1>6, <3>1 DEF QueueInv, WindowInv
  <2> QED BY <1>1, <1>2, <2>1, <2>2 DEF WindowInv
<1>9. ProducerInv'
  <2> SUFFICES ASSUME NEW q \in QueueProducers, q # p
      PROVE  /\ queuePc[q] \in {"write", "publish"} => sequence'[CellOf(pos[q])] = pos[q]
             /\ queuePc[q] = "cas" /\ pos[q] = enqueuePos => sequence'[CellOf(enqueuePos)] = enqueuePos
    BY <1>0, <1>1 DEF QueueInv, ProducerInv
  <2>1. ASSUME queuePc[q] \in {"write", "publish"} PROVE sequence'[CellOf(pos[q])] = pos[q]
    <3>1. pos[q] # pos[p]
      BY <1>1, <2>1 DEF QueueInv, HolderInv
    <3>2. pos[q] \in dequeuePos..(dequeuePos + CellCount - 1) /\ sequence[CellOf(pos[q])] = pos[q]
      BY <1>0, <1>2, <2>1 DEF QueueInv, ProducerInv, QueueTypeOK
    <3> QED BY <1>6, <3>1, <3>2
  <2>2. ASSUME queuePc[q] = "cas", pos[q] = enqueuePos PROVE sequence'[CellOf(enqueuePos)] = enqueuePos
    <3>1. sequence[CellOf(enqueuePos)] = enqueuePos
      BY <2>2 DEF QueueInv, ProducerInv
    <3>2. CellOf(enqueuePos) # CellOf(pos[p])
      BY <1>2, <3>1
    <3> QED BY <1>2, <1>5, <3>1, <3>2
  <2> QED BY <2>1, <2>2
<1>10. ConsumerInv'
  <2> SUFFICES ASSUME NEW c \in QueueConsumers
      PROVE  /\ queuePc[c] \in {"read", "publish"} => sequence'[CellOf(pos[c])] = pos[c] + 1
             /\ queuePc[c] = "cas" /\ pos[c] = dequeuePos => sequence'[CellOf(dequeuePos)] = dequeuePos + 1
    BY <1>0, <1>1 DEF QueueInv, ConsumerInv
  <2>1. ASSUME queuePc[c] \in {"read", "publish"} PROVE sequence'[CellOf(pos[c])] = pos[c] + 1
    <3>1. pos[c] \in Nat /\ enqueuePos <= pos[c] + CellCount /\ pos[c] < dequeuePos
          /\ sequence[CellOf(pos[c])] = pos[c] + 1
      BY <1>0, <2>1 DEF QueueInv, ConsumerInv, QueueTypeOK
    <3>2. CellOf(pos[c]) # CellOf(pos[p])
      BY <1>2, <3>1, WindowCells DEF QueueInv
    <3> QED BY <1>5, <3>1, <3>2
  <2>2. ASSUME queuePc[c] = "cas", pos[c] = dequeuePos PROVE sequence'[CellOf(dequeuePos)] = dequeuePos + 1
    <3>1. sequence[CellOf(dequeuePos)] = dequeuePos + 1
      BY <2>2 DEF QueueInv, ConsumerInv
    <3>2. dequeuePos # pos[p]
      BY <1>2, <3>1
    <3>3. dequeuePos \in dequeuePos..(dequeuePos + CellCount - 1)
      BY <1>2
    <3> QED BY <1>6, <3>1, <3>2, <3>3
  <2> QED BY <2>1, <2>2
<1>11. HolderInv'
  BY <1>0, <1>1 DEF QueueInv, HolderInv
<1>12. TakenInv'
  BY <1>0, <1>1 DEF QueueInv, TakenInv
<1>13. FreshInv'
  BY <1>0, <1>1, <1>4 DEF QueueInv, FreshInv
<1> QED BY <1>1, <1>4, <1>7, <1>8, <1>9, <1>10, <1>11, <1>12, <1>13 DEF QueueInv

\* pop wins the oldest position, whose item is published.
LEMMA PopCasStep ==
  ASSUME NEW c \in QueueConsumers, QueueInv, QueuePopCas(c)
  PROVE  QueueInv' /\ (\A n : Entry(n)' = Entry(n)) /\ UNCHANGED enqueuePos
         /\ dequeuePos < enqueuePos /\ dequeuePos' = dequeuePos + 1
<1>0. c \in QueueThreads /\ QueueProducers \subseteq QueueThreads /\ QueueConsumers \subseteq QueueThreads
      /\ c \notin QueueProducers
  BY QueueAssumption DEF QueueThreads
<1>1. /\ UNCHANGED <<enqueuePos, sequence, data, pos, arg, queueOffered, taken>>
      /\ queuePc[c] = "cas" /\ queuePc'[c] = "read" /\ pos[c] = dequeuePos
      /\ dequeuePos' = dequeuePos + 1
      /\ \A y \in QueueThreads \ {c} : queuePc'[y] = queuePc[y]
      /\ queuePc' \in [QueueThreads -> ProducerPc \cup ConsumerPc]
  BY <1>0 DEF QueueInv, QueueTypeOK, QueuePopCas, QueueGoto, ConsumerPc
<1>2. enqueuePos \in Nat /\ dequeuePos \in Nat /\ CellCount \in Nat /\ CellCount > 1
      /\ dequeuePos < enqueuePos /\ enqueuePos <= dequeuePos + CellCount
      /\ sequence[CellOf(dequeuePos)] = dequeuePos + 1
  BY <1>1, QueueAssumption DEF QueueInv, QueueTypeOK, WindowInv, ConsumerInv
<1>3. \A n : Entry(n)' = Entry(n)
  BY <1>0, <1>1, EntriesKept DEF QueueInv
<1>4. QueueTypeOK'
  BY <1>0, <1>1, <1>2 DEF QueueInv, QueueTypeOK, ConsumerPc
<1>5. WindowInv'
  <2>1. \A n \in (dequeuePos + 1)..(enqueuePos - 1) : sequence[CellOf(n)] \in {n, n + 1}
    BY <1>2 DEF QueueInv, WindowInv
  <2>2. ASSUME NEW n \in enqueuePos..(dequeuePos + CellCount)
        PROVE  sequence[CellOf(n)] \in {n, n - CellCount + 1}
    <3>1. CASE n = dequeuePos + CellCount
      <4>1. CellOf(n) = CellOf(dequeuePos) /\ n - CellCount + 1 = dequeuePos + 1
        BY <1>2, <3>1, CellRound
      <4> QED BY <1>2, <4>1
    <3>2. CASE n \in enqueuePos..(dequeuePos + CellCount - 1)
      BY <3>2 DEF QueueInv, WindowInv
    <3> QED BY <1>2, <3>1, <3>2
  <2>3. (dequeuePos + 1) + CellCount - 1 = dequeuePos + CellCount
    BY <1>2
  <2> QED BY <1>1, <1>2, <2>1, <2>2, <2>3 DEF WindowInv
<1>6. ProducerInv'
  <2> SUFFICES ASSUME NEW p \in QueueProducers, queuePc[p] \in {"write", "publish"}
      PROVE  dequeuePos + 1 <= pos[p]
    BY <1>0, <1>1 DEF QueueInv, ProducerInv
  <2>1. pos[p] \in Nat /\ dequeuePos <= pos[p] /\ sequence[CellOf(pos[p])] = pos[p]
    BY <1>0 DEF QueueInv, ProducerInv, QueueTypeOK
  <2> QED BY <1>2, <2>1
<1>7. ConsumerInv'
  <2> SUFFICES ASSUME NEW d \in QueueConsumers
      PROVE  /\ queuePc'[d] \in {"read", "publish"} =>
                  enqueuePos <= pos[d] + CellCount /\ pos[d] < dequeuePos + 1
                    /\ sequence[CellOf(pos[d])] = pos[d] + 1
             /\ queuePc'[d] \in {"sequence", "reload", "cas"} => pos[d] <= dequeuePos
    BY <1>0, <1>1, <1>2 DEF QueueInv, ConsumerInv, QueueTypeOK
  <2>1. CASE d = c
    BY <1>1, <1>2, <2>1
  <2>2. CASE d # c
    BY <1>0, <1>1, <1>2, <2>2 DEF QueueInv, ConsumerInv, QueueTypeOK
  <2> QED BY <2>1, <2>2
<1>8. HolderInv'
  <2>1. ASSUME NEW d \in QueueConsumers, d # c, queuePc'[d] \in {"read", "publish"} PROVE pos[d] # pos[c]
    BY <1>0, <1>1, <1>2, <2>1 DEF QueueInv, ConsumerInv
  <2> QED BY <1>0, <1>1, <2>1 DEF QueueInv, HolderInv
<1>9. TakenInv'
  <2>1. DOMAIN taken \subseteq 0..dequeuePos
    BY <1>2 DEF QueueInv, TakenInv
  <2>2. ASSUME NEW n \in 0..dequeuePos
        PROVE  n \in DOMAIN taken \/ \E d \in QueueConsumers : queuePc'[d] = "read" /\ pos[d] = n
    <3>1. CASE n = dequeuePos
      BY <1>1, <3>1
    <3>2. CASE n \in 0..(dequeuePos - 1) /\ n \notin DOMAIN taken
      <4>1. PICK d \in QueueConsumers : queuePc[d] = "read" /\ pos[d] = n
        BY <3>2 DEF QueueInv, TakenInv
      <4> QED BY <1>0, <1>1, <4>1
    <3> QED BY <1>2, <3>1, <3>2
  <2>3. dequeuePos \notin DOMAIN taken
    BY <1>2 DEF QueueInv, TakenInv
  <2>4. \A d \in QueueConsumers : queuePc'[d] = "read" => pos[d] \notin DOMAIN taken
    BY <1>0, <1>1, <2>3 DEF QueueInv, TakenInv
  <2>5. dequeuePos' - 1 = dequeuePos
    BY <1>1, <1>2
  <2> QED BY <1>1, <2>1, <2>2, <2>4, <2>5 DEF TakenInv
<1>10. FreshInv'
  BY <1>0, <1>1, <1>3 DEF QueueInv, FreshInv
<1> QED BY <1>1, <1>2, <1>3, <1>4, <1>5, <1>6, <1>7, <1>8, <1>9, <1>10 DEF QueueInv

\* pop moves the item out of its own cell.
LEMMA PopReadStep ==
  ASSUME NEW c \in QueueConsumers, QueueInv, QueuePopRead(c)
  PROVE  /\ QueueInv' /\ UNCHANGED <<enqueuePos, dequeuePos>>
         /\ \A n \in 0..(enqueuePos - 1) : Entry(n)' = Entry(n)
<1>0. c \in QueueThreads /\ QueueProducers \subseteq QueueThreads /\ QueueConsumers \subseteq QueueThreads
      /\ c \notin QueueProducers
  BY QueueAssumption DEF QueueThreads
<1>1. /\ UNCHANGED <<enqueuePos, dequeuePos, sequence, pos, arg, queueOffered>>
      /\ queuePc[c] = "read" /\ queuePc'[c] = "publish"
      /\ \A y \in QueueThreads \ {c} : queuePc'[y] = queuePc[y]
      /\ queuePc' \in [QueueThreads -> ProducerPc \cup ConsumerPc]
      /\ data' = [data EXCEPT ![CellOf(pos[c])] = NoData]
      /\ taken' = [n \in DOMAIN taken \cup {pos[c]} |->
                     IF n = pos[c] THEN data[CellOf(pos[c])] ELSE taken[n]]
  BY <1>0 DEF QueueInv, QueueTypeOK, QueuePopRead, QueueGoto, ConsumerPc
<1>2. enqueuePos \in Nat /\ dequeuePos \in Nat /\ CellCount \in Nat /\ CellCount > 1
      /\ dequeuePos <= enqueuePos /\ enqueuePos <= dequeuePos + CellCount
      /\ pos[c] \in Nat /\ enqueuePos <= pos[c] + CellCount /\ pos[c] < dequeuePos
      /\ pos[c] \notin DOMAIN taken
  BY <1>0, <1>1, QueueAssumption DEF QueueInv, QueueTypeOK, WindowInv, ConsumerInv, TakenInv
<1>3. data \in [Cells -> Nat] /\ CellOf(pos[c]) \in Cells /\ data' \in [Cells -> Nat]
  BY <1>1, <1>2, CellType DEF QueueInv, QueueTypeOK, NoData
<1>4. DOMAIN taken' = DOMAIN taken \cup {pos[c]} /\ (\A n \in DOMAIN taken : taken'[n] = taken[n])
      /\ taken'[pos[c]] = data[CellOf(pos[c])]
  BY <1>1, <1>2
<1>5. \A n : Writers(n)' = Writers(n)
  BY <1>0, <1>1 DEF Writers
<1>6. ASSUME NEW n \in 0..(enqueuePos - 1)
      PROVE  Entry(n)' = Entry(n)
  <2>1. CASE n \in DOMAIN taken
    BY <1>4, <2>1 DEF Entry
  <2>2. CASE n = pos[c]
    <3>1. Writers(n) = {}
      BY <1>2, <2>2 DEF Writers, QueueInv, ProducerInv
    <3>2. Entry(n) = data[CellOf(n)]
      BY <1>2, <2>2, <3>1 DEF Entry, ItemAt
    <3>3. Entry(n)' = taken'[n]
      BY <1>4, <2>2 DEF Entry
    <3> QED BY <1>4, <2>2, <3>2, <3>3
  <2>3. CASE n \notin DOMAIN taken /\ n # pos[c]
    <3>1. n \in Nat /\ n < enqueuePos /\ enqueuePos <= n + CellCount
      <4>1. CASE n >= dequeuePos
        BY <1>2, <4>1
      <4>2. CASE n < dequeuePos
        <5>1. n \in 0..(dequeuePos - 1)
          BY <1>2, <4>2
        <5>2. PICK d \in QueueConsumers : queuePc[d] = "read" /\ pos[d] = n
          BY <2>3, <5>1 DEF QueueInv, TakenInv
        <5> QED BY <1>2, <5>2 DEF QueueInv, ConsumerInv
      <4> QED BY <1>2, <4>1, <4>2
    <3>2. CellOf(n) # CellOf(pos[c]) /\ CellOf(n) \in Cells
      <4>1. pos[c] < enqueuePos
        BY <1>2
      <4> QED BY <1>2, <2>3, <3>1, <4>1, WindowCells, CellType DEF QueueInv
    <3>3. data'[CellOf(n)] = data[CellOf(n)]
      BY <1>1, <1>3, <3>2
    <3>4. n \notin DOMAIN taken'
      BY <1>4, <2>3
    <3>5. ItemAt(n)' = ItemAt(n)
      <4>1. Writers(n)' = Writers(n)
        BY <1>5
      <4> QED BY <1>1, <4>1, <3>3 DEF ItemAt
    <3> QED BY <2>3, <3>4, <3>5 DEF Entry
  <2> QED BY <2>1, <2>2, <2>3
<1>7. QueueTypeOK'
  BY <1>0, <1>1, <1>3 DEF QueueInv, QueueTypeOK, ConsumerPc
<1>8. WindowInv'
  BY <1>1 DEF QueueInv, WindowInv
<1>9. ProducerInv'
  BY <1>0, <1>1 DEF QueueInv, ProducerInv
<1>10. ConsumerInv'
  BY <1>0, <1>1 DEF QueueInv, ConsumerInv
<1>11. HolderInv'
  BY <1>0, <1>1 DEF QueueInv, HolderInv
<1>12. TakenInv'
  <2>1. DOMAIN taken' \subseteq 0..(dequeuePos - 1)
    BY <1>2, <1>4 DEF QueueInv, TakenInv
  <2>2. ASSUME NEW n \in 0..(dequeuePos - 1), n \notin DOMAIN taken'
        PROVE  \E d \in QueueConsumers : queuePc'[d] = "read" /\ pos[d] = n
    <3>1. n \notin DOMAIN taken /\ n # pos[c]
      BY <1>4, <2>2
    <3>2. PICK d \in QueueConsumers : queuePc[d] = "read" /\ pos[d] = n
      BY <3>1 DEF QueueInv, TakenInv
    <3> QED BY <1>0, <1>1, <3>1, <3>2
  <2>3. ASSUME NEW d \in QueueConsumers, queuePc'[d] = "read" PROVE pos[d] \notin DOMAIN taken'
    <3>1. d # c /\ queuePc[d] = "read"
      BY <1>0, <1>1, <2>3
    <3>2. pos[d] # pos[c] /\ pos[d] \notin DOMAIN taken
      BY <1>1, <3>1 DEF QueueInv, HolderInv, TakenInv
    <3> QED BY <1>4, <3>2
  <2> QED BY <1>1, <2>1, <2>2, <2>3 DEF TakenInv
<1>13. FreshInv'
  BY <1>0, <1>1, <1>6 DEF QueueInv, FreshInv
<1> QED BY <1>1, <1>6, <1>7, <1>8, <1>9, <1>10, <1>11, <1>12, <1>13 DEF QueueInv

\* pop frees its cell for the position one round later.
LEMMA PopPublishStep ==
  ASSUME NEW c \in QueueConsumers, QueueInv, QueuePopPublish(c)
  PROVE  QueueInv' /\ UNCHANGED <<enqueuePos, dequeuePos>> /\ (\A n : Entry(n)' = Entry(n))
<1>0. c \in QueueThreads /\ QueueProducers \subseteq QueueThreads /\ QueueConsumers \subseteq QueueThreads
      /\ c \notin QueueProducers
  BY QueueAssumption DEF QueueThreads
<1>1. /\ UNCHANGED <<enqueuePos, dequeuePos, data, pos, arg, queueOffered, taken>>
      /\ queuePc[c] = "publish" /\ queuePc'[c] = "idle"
      /\ \A y \in QueueThreads \ {c} : queuePc'[y] = queuePc[y]
      /\ queuePc' \in [QueueThreads -> ProducerPc \cup ConsumerPc]
      /\ sequence' = [sequence EXCEPT ![CellOf(pos[c])] = pos[c] + CellCount]
  BY <1>0 DEF QueueInv, QueueTypeOK, QueuePopPublish, QueueGoto, ConsumerPc
<1>2. enqueuePos \in Nat /\ dequeuePos \in Nat /\ CellCount \in Nat /\ CellCount > 1
      /\ dequeuePos <= enqueuePos /\ enqueuePos <= dequeuePos + CellCount
      /\ pos[c] \in Nat /\ enqueuePos <= pos[c] + CellCount /\ pos[c] < dequeuePos
      /\ sequence[CellOf(pos[c])] = pos[c] + 1
  BY <1>0, <1>1, QueueAssumption DEF QueueInv, QueueTypeOK, WindowInv, ConsumerInv
<1>3. sequence \in [Cells -> Nat] /\ CellOf(pos[c]) \in Cells
      /\ sequence'[CellOf(pos[c])] = pos[c] + CellCount /\ sequence' \in [Cells -> Nat]
      /\ CellOf(pos[c] + CellCount) = CellOf(pos[c])
  BY <1>1, <1>2, CellType, CellRound DEF QueueInv, QueueTypeOK
<1>4. \A n : Entry(n)' = Entry(n)
  BY <1>0, <1>1, EntriesKept DEF QueueInv
<1>5. ASSUME NEW n \in Nat, CellOf(n) # CellOf(pos[c])
      PROVE  sequence'[CellOf(n)] = sequence[CellOf(n)]
  BY <1>1, <1>3, <1>5, CellType
<1>6. ASSUME NEW n \in dequeuePos..(dequeuePos + CellCount - 1), n # pos[c] + CellCount
      PROVE  sequence'[CellOf(n)] = sequence[CellOf(n)]
  <2>1. n \in Nat /\ pos[c] + CellCount \in Nat
    BY <1>2
  <2>2. CASE n < pos[c] + CellCount
    <3>1. (pos[c] + CellCount) - n < CellCount
      BY <1>2, <2>1
    <3> QED BY <1>3, <1>5, <2>1, <2>2, <3>1, CellInjective
  <2>3. CASE n > pos[c] + CellCount
    <3>1. n - (pos[c] + CellCount) < CellCount
      BY <1>2, <2>1
    <3> QED BY <1>3, <1>5, <2>1, <2>3, <3>1, CellInjective
  <2> QED BY <1>6, <2>1, <2>2, <2>3
<1>7. QueueTypeOK'
  BY <1>0, <1>1, <1>3 DEF QueueInv, QueueTypeOK, ConsumerPc
<1>8. WindowInv'
  <2>1. ASSUME NEW n \in dequeuePos..(enqueuePos - 1) PROVE sequence'[CellOf(n)] \in {n, n + 1}
    <3>1. n \in dequeuePos..(dequeuePos + CellCount - 1) /\ n # pos[c] + CellCount
      BY <1>2
    <3> QED BY <1>6, <3>1 DEF QueueInv, WindowInv
  <2>2. ASSUME NEW n \in enqueuePos..(dequeuePos + CellCount - 1)
        PROVE  sequence'[CellOf(n)] \in {n, n - CellCount + 1}
    <3>1. CASE n = pos[c] + CellCount
      BY <1>3, <3>1
    <3>2. CASE n # pos[c] + CellCount
      <4>1. n \in dequeuePos..(dequeuePos + CellCount - 1)
        BY <1>2
      <4> QED BY <1>6, <3>2, <4>1 DEF QueueInv, WindowInv
    <3> QED BY <3>1, <3>2
  <2> QED BY <1>1, <1>2, <2>1, <2>2 DEF WindowInv
<1>9. ProducerInv'
  <2> SUFFICES ASSUME NEW q \in QueueProducers
      PROVE  /\ queuePc[q] \in {"write", "publish"} => sequence'[CellOf(pos[q])] = pos[q]
             /\ queuePc[q] = "cas" /\ pos[q] = enqueuePos => sequence'[CellOf(enqueuePos)] = enqueuePos
    BY <1>0, <1>1 DEF QueueInv, ProducerInv
  <2>1. ASSUME queuePc[q] \in {"write", "publish"} PROVE sequence'[CellOf(pos[q])] = pos[q]
    <3>1. pos[q] \in dequeuePos..(dequeuePos + CellCount - 1) /\ sequence[CellOf(pos[q])] = pos[q]
          /\ pos[q] # pos[c] + CellCount
      BY <1>0, <1>2, <2>1 DEF QueueInv, ProducerInv, QueueTypeOK
    <3> QED BY <1>6, <3>1
  <2>2. ASSUME queuePc[q] = "cas", pos[q] = enqueuePos PROVE sequence'[CellOf(enqueuePos)] = enqueuePos
    <3>1. sequence[CellOf(enqueuePos)] = enqueuePos
      BY <2>2 DEF QueueInv, ProducerInv
    <3>2. CASE CellOf(enqueuePos) = CellOf(pos[c])
      <4>1. pos[c] + 1 = enqueuePos
        BY <3>1, <3>2, <1>2
      <4> QED BY <1>2, <3>2, <4>1, CellInjective
    <3>3. CASE CellOf(enqueuePos) # CellOf(pos[c])
      BY <1>2, <1>5, <3>1, <3>3
    <3> QED BY <3>2, <3>3
  <2> QED BY <2>1, <2>2
<1>10. ConsumerInv'
  <2> SUFFICES ASSUME NEW d \in QueueConsumers, d # c
      PROVE  /\ queuePc[d] \in {"read", "publish"} => sequence'[CellOf(pos[d])] = pos[d] + 1
             /\ queuePc[d] = "cas" /\ pos[d] = dequeuePos => sequence'[CellOf(dequeuePos)] = dequeuePos + 1
    BY <1>0, <1>1 DEF QueueInv, ConsumerInv
  <2>1. ASSUME queuePc[d] \in {"read", "publish"} PROVE sequence'[CellOf(pos[d])] = pos[d] + 1
    <3>1. pos[d] \in Nat /\ enqueuePos <= pos[d] + CellCount /\ pos[d] < dequeuePos
          /\ sequence[CellOf(pos[d])] = pos[d] + 1
      BY <1>0, <2>1 DEF QueueInv, ConsumerInv, QueueTypeOK
    <3>2. pos[d] # pos[c]
      BY <1>1, <2>1 DEF QueueInv, HolderInv
    <3>3. CellOf(pos[d]) # CellOf(pos[c])
      BY <1>2, <3>1, <3>2, WindowCells DEF QueueInv
    <3> QED BY <1>5, <3>1, <3>3
  <2>2. ASSUME queuePc[d] = "cas", pos[d] = dequeuePos PROVE sequence'[CellOf(dequeuePos)] = dequeuePos + 1
    <3>1. sequence[CellOf(dequeuePos)] = dequeuePos + 1 /\ dequeuePos < enqueuePos
      BY <2>2 DEF QueueInv, ConsumerInv
    <3>2. dequeuePos \in dequeuePos..(dequeuePos + CellCount - 1) /\ dequeuePos # pos[c] + CellCount
      BY <1>2, <3>1
    <3> QED BY <1>6, <3>1, <3>2
  <2> QED BY <2>1, <2>2
<1>11. HolderInv'
  BY <1>0, <1>1 DEF QueueInv, HolderInv
<1>12. TakenInv'
  <2>1. ASSUME NEW n \in 0..(dequeuePos - 1), n \notin DOMAIN taken
        PROVE  \E d \in QueueConsumers : queuePc'[d] = "read" /\ pos[d] = n
    <3>1. PICK d \in QueueConsumers : queuePc[d] = "read" /\ pos[d] = n
      BY <2>1 DEF QueueInv, TakenInv
    <3> QED BY <1>0, <1>1, <3>1
  <2> QED BY <1>0, <1>1, <2>1 DEF QueueInv, TakenInv
<1>13. FreshInv'
  BY <1>0, <1>1, <1>4 DEF QueueInv, FreshInv
<1> QED BY <1>1, <1>4, <1>7, <1>8, <1>9, <1>10, <1>11, <1>12, <1>13 DEF QueueInv

\* The line and the output of the abstract channel are the entries, split at
\* dequeue_pos_.
QueueLine == [i \in 1..(enqueuePos - dequeuePos) |-> ItemAt(dequeuePos + i - 1)]
QueueOut  == [i \in 1..dequeuePos |->
                IF i - 1 \in DOMAIN taken THEN taken[i - 1] ELSE data[CellOf(i - 1)]]

EntriesSplit ==
  \A d, e \in Nat : d = dequeuePos /\ e = enqueuePos =>
    /\ d <= e /\ e <= d + CellCount
    /\ QueueLine = [i \in 1..(e - d) |-> Entry(d + i - 1)]
    /\ QueueOut = [i \in 1..d |-> Entry(i - 1)]

\* The queue's content, as the positions between the two counters.
LEMMA EntriesAreSplit == QueueInv => EntriesSplit
<1> SUFFICES ASSUME QueueInv, NEW d \in Nat, NEW e \in Nat, d = dequeuePos, e = enqueuePos
             PROVE  /\ d <= e /\ e <= d + CellCount
                    /\ QueueLine = [i \in 1..(e - d) |-> Entry(d + i - 1)]
                    /\ QueueOut = [i \in 1..d |-> Entry(i - 1)]
  BY DEF EntriesSplit
<1>0. d <= e /\ e <= d + CellCount
  BY DEF QueueInv, WindowInv
<1>1. ASSUME NEW i \in 1..(e - d)
      PROVE  ItemAt(d + i - 1) = Entry(d + i - 1)
  <2>1. d + i - 1 \notin DOMAIN taken
    BY <1>0 DEF QueueInv, TakenInv
  <2> QED BY <2>1 DEF Entry
<1>2. ASSUME NEW i \in 1..d
      PROVE  (IF i - 1 \in DOMAIN taken THEN taken[i - 1] ELSE data[CellOf(i - 1)]) = Entry(i - 1)
  <2>1. Writers(i - 1) = {}
    BY <1>0, <1>2 DEF Writers, QueueInv, ProducerInv
  <2> QED BY <2>1 DEF Entry, ItemAt
<1> QED BY <1>0, <1>1, <1>2 DEF QueueLine, QueueOut

\* A step that keeps the positions and the entries keeps the channel.
LEMMA QueueStutters ==
  ASSUME EntriesSplit, EntriesSplit', enqueuePos \in Nat, dequeuePos \in Nat,
         UNCHANGED <<enqueuePos, dequeuePos>>,
         \A n \in 0..(enqueuePos - 1) : Entry(n)' = Entry(n)
  PROVE  QueueLine' = QueueLine /\ QueueOut' = QueueOut
<1>1. PICK d \in Nat, e \in Nat : d = dequeuePos /\ e = enqueuePos /\ d = dequeuePos' /\ e = enqueuePos'
  OBVIOUS
<1>2. d <= e /\ QueueLine = [i \in 1..(e - d) |-> Entry(d + i - 1)] /\ QueueOut = [i \in 1..d |-> Entry(i - 1)]
  BY <1>1 DEF EntriesSplit
<1>3. QueueLine' = [i \in 1..(e - d) |-> Entry(d + i - 1)'] /\ QueueOut' = [i \in 1..d |-> Entry(i - 1)']
  BY <1>1 DEF EntriesSplit
<1>4. \A i \in 1..(e - d) : d + i - 1 \in 0..(e - 1)
  BY <1>2
<1>5. \A i \in 1..d : i - 1 \in 0..(e - 1)
  BY <1>2
<1>6. \A i \in 1..(e - d) : Entry(d + i - 1)' = Entry(d + i - 1)
  BY <1>1, <1>4
<1>7. \A i \in 1..d : Entry(i - 1)' = Entry(i - 1)
  BY <1>1, <1>5
<1> QED BY <1>2, <1>3, <1>6, <1>7

\* The winner of enqueue_pos_ puts its item.
LEMMA QueuePuts ==
  ASSUME NEW x, EntriesSplit, EntriesSplit', enqueuePos \in Nat, dequeuePos \in Nat,
         enqueuePos' = enqueuePos + 1, UNCHANGED dequeuePos, enqueuePos < dequeuePos + CellCount,
         \A n \in 0..(enqueuePos - 1) : Entry(n)' = Entry(n) /\ Entry(n) # x,
         \A n : n = enqueuePos => Entry(n)' = x
  PROVE  QueueFifo!Put(x)
<1>1. PICK d \in Nat, e \in Nat : d = dequeuePos /\ e = enqueuePos /\ d = dequeuePos' /\ e + 1 = enqueuePos'
  OBVIOUS
<1>2. d <= e /\ QueueLine = [i \in 1..(e - d) |-> Entry(d + i - 1)] /\ QueueOut = [i \in 1..d |-> Entry(i - 1)]
  BY <1>1 DEF EntriesSplit
<1>3. QueueLine' = [i \in 1..(e + 1 - d) |-> Entry(d + i - 1)'] /\ QueueOut' = [i \in 1..d |-> Entry(i - 1)']
  BY <1>1 DEF EntriesSplit
<1>4. \A i \in 1..(e - d) : d + i - 1 \in 0..(e - 1)
  BY <1>2
<1>5. \A i \in 1..d : i - 1 \in 0..(e - 1)
  BY <1>2
<1>6. \A i \in 1..(e - d) : Entry(d + i - 1)' = Entry(d + i - 1) /\ Entry(d + i - 1) # x
  BY <1>1, <1>4
<1>7. \A i \in 1..d : Entry(i - 1)' = Entry(i - 1) /\ Entry(i - 1) # x
  BY <1>1, <1>5
<1>8. \A i \in 1..(e + 1 - d) : i = e + 1 - d => Entry(d + i - 1)' = x
  <2> TAKE i \in 1..(e + 1 - d)
  <2>1. i = e + 1 - d => d + i - 1 = e
    BY <1>2
  <2> QED BY <1>1, <2>1
<1>9. QueueOut' = QueueOut
  BY <1>2, <1>3, <1>7
<1>10. QueueLine' = Append(QueueLine, x) /\ Len(QueueLine) = e - d
  <2>1. Len(QueueLine) = e - d /\ e - d \in Nat /\ e + 1 - d = (e - d) + 1
    BY <1>2
  <2>2. \A i \in 1..(e + 1 - d) : Entry(d + i - 1)' = IF i = e + 1 - d THEN x ELSE Entry(d + i - 1)
    BY <1>2, <1>6, <1>8
  <2>3. QueueLine' = [i \in 1..(e + 1 - d) |-> IF i = e + 1 - d THEN x ELSE Entry(d + i - 1)]
    BY <1>3, <2>2
  <2>4. Append(QueueLine, x) = [i \in 1..((e - d) + 1) |-> IF i = (e - d) + 1 THEN x ELSE Entry(d + i - 1)]
    BY <1>2, <2>1
  <2> QED BY <2>1, <2>3, <2>4
<1>11. x \notin {QueueLine[i] : i \in DOMAIN QueueLine} \cup {QueueOut[i] : i \in DOMAIN QueueOut}
  BY <1>2, <1>6, <1>7
<1>12. Len(QueueLine) < CellCount
  BY <1>1, <1>10, QueueAssumption
<1> QED BY <1>9, <1>10, <1>11, <1>12 DEF QueueFifo!Put, QueueFifo!Used, QueueLine, QueueOut

\* The head and the tail of a function on 1..n.
LEMMA HeadTail ==
  ASSUME NEW n \in Nat \ {0}, NEW f, f = [i \in 1..n |-> f[i]]
  PROVE  f # <<>> /\ Head(f) = f[1] /\ Tail(f) = [i \in 1..(n - 1) |-> f[i + 1]]
<1>1. f \in Seq({f[i] : i \in 1..n}) /\ Len(f) = n
  OBVIOUS
<1> QED BY <1>1

\* The winner of dequeue_pos_ takes the oldest item.
LEMMA QueueTakes ==
  ASSUME EntriesSplit, EntriesSplit', enqueuePos \in Nat, dequeuePos \in Nat,
         dequeuePos' = dequeuePos + 1, UNCHANGED enqueuePos, dequeuePos < enqueuePos,
         \A n : Entry(n)' = Entry(n)
  PROVE  QueueFifo!Take
<1>1. PICK d \in Nat, e \in Nat : d = dequeuePos /\ e = enqueuePos /\ d + 1 = dequeuePos' /\ e = enqueuePos'
  OBVIOUS
<1>2. d < e /\ QueueLine = [i \in 1..(e - d) |-> Entry(d + i - 1)] /\ QueueOut = [i \in 1..d |-> Entry(i - 1)]
  BY <1>1 DEF EntriesSplit
<1>3. QueueLine' = [i \in 1..(e - (d + 1)) |-> Entry((d + 1) + i - 1)']
      /\ QueueOut' = [i \in 1..(d + 1) |-> Entry(i - 1)']
  BY <1>1 DEF EntriesSplit
<1>4. QueueLine' = [i \in 1..(e - (d + 1)) |-> Entry((d + 1) + i - 1)]
      /\ QueueOut' = [i \in 1..(d + 1) |-> Entry(i - 1)]
  BY <1>3
<1>5. QueueLine # <<>> /\ Head(QueueLine) = Entry(d)
  <2>1. 1 \in 1..(e - d) /\ d + 1 - 1 = d
    BY <1>2
  <2>2. QueueLine = [i \in 1..(e - d) |-> QueueLine[i]] /\ e - d \in Nat \ {0}
    BY <1>2
  <2>3. QueueLine # <<>> /\ Head(QueueLine) = QueueLine[1]
    BY <2>2, HeadTail
  <2> QED BY <1>2, <2>1, <2>3
<1>6. QueueLine' = Tail(QueueLine)
  <2>1. \A i \in 1..(e - (d + 1)) : (d + 1) + i - 1 = d + (i + 1) - 1
    OBVIOUS
  <2>2. e - d - 1 = e - (d + 1) /\ e - d \in Nat /\ Len(QueueLine) = e - d
    BY <1>2
  <2>3. Tail(QueueLine) = [i \in 1..(e - d - 1) |-> Entry(d + (i + 1) - 1)]
    <3>1. QueueLine = [i \in 1..(e - d) |-> QueueLine[i]] /\ e - d \in Nat \ {0}
      BY <1>2
    <3>2. Tail(QueueLine) = [i \in 1..(e - d - 1) |-> QueueLine[i + 1]]
      BY <3>1, HeadTail
    <3>3. \A i \in 1..(e - d - 1) : i + 1 \in 1..(e - d)
      BY <1>2
    <3> QED BY <1>2, <3>2, <3>3
  <2> QED BY <1>4, <2>1, <2>2, <2>3
<1>7. QueueOut' = Append(QueueOut, Entry(d))
  <2>1. (d + 1) - 1 = d /\ Len(QueueOut) = d
    BY <1>2
  <2>2. Append(QueueOut, Entry(d)) = [i \in 1..(d + 1) |-> IF i = d + 1 THEN Entry(d) ELSE Entry(i - 1)]
    BY <1>2, <2>1
  <2> QED BY <1>4, <2>1, <2>2
<1> QED BY <1>5, <1>6, <1>7 DEF QueueFifo!Take, QueueLine, QueueOut

\* The MPMC queue of the block pool is a bounded FIFO for every number of
\* producers, consumers and cells (two at least): whatever the order in which the
\* threads load positions and sequence numbers, win or lose a compare-exchange,
\* write, read and publish their cells, no item is lost, handed out twice,
\* overtaken or overwritten.
THEOREM QueueIsFifo == QueueSpec => QueueImplementsFifo
<1>1. QueueInit => QueueInv /\ QueueFifo!Init
  <2> SUFFICES ASSUME QueueInit PROVE QueueInv /\ QueueFifo!Init
    OBVIOUS
  <2>1. QueueInv
    BY QueueInitInv
  <2> QED BY <2>1 DEF QueueFifo!Init, QueueInit
<1>2. QueueInv /\ [QueueNext]_queueVars => QueueInv'
  <2> SUFFICES ASSUME QueueInv, [QueueNext]_queueVars PROVE QueueInv'
    OBVIOUS
  <2>1. CASE UNCHANGED queueVars
    <3>1. \A n : Entry(n)' = Entry(n)
      BY <2>1 DEF queueVars, Entry, ItemAt, Writers
    <3> QED BY <2>1, <3>1 DEF queueVars, QueueInv, QueueTypeOK, WindowInv, ProducerInv, ConsumerInv,
                             HolderInv, TakenInv, FreshInv
  <2>2. ASSUME NEW p \in QueueProducers, QueuePush(p) PROVE QueueInv'
    BY <2>2, PushLocalStep, PushCasStep, PushWriteStep, PushPublishStep DEF QueuePush, QueuePushLocal
  <2>3. ASSUME NEW c \in QueueConsumers, QueuePop(c) PROVE QueueInv'
    BY <2>3, PopLocalStep, PopCasStep, PopReadStep, PopPublishStep DEF QueuePop, QueuePopLocal
  <2> QED BY <2>1, <2>2, <2>3 DEF QueueNext
<1>3. QueueInv /\ EntriesSplit /\ EntriesSplit' /\ [QueueNext]_queueVars
        => [QueueFifo!Next]_(QueueFifo!fifoVars)
  <2> SUFFICES ASSUME QueueInv, EntriesSplit, EntriesSplit', [QueueNext]_queueVars
               PROVE  QueueFifo!Next \/ (QueueLine' = QueueLine /\ QueueOut' = QueueOut)
    BY DEF QueueFifo!fifoVars, QueueLine, QueueOut
  <2>0. enqueuePos \in Nat /\ dequeuePos \in Nat
    BY DEF QueueInv, QueueTypeOK
  <2>1. CASE UNCHANGED queueVars
    BY <2>1 DEF queueVars, QueueLine, QueueOut, ItemAt, Writers
  <2>2. ASSUME NEW p \in QueueProducers, QueuePushLocal(p) \/ QueuePushWrite(p) \/ QueuePushPublish(p)
        PROVE  QueueLine' = QueueLine /\ QueueOut' = QueueOut
    <3>1. UNCHANGED <<enqueuePos, dequeuePos>> /\ \A n \in 0..(enqueuePos - 1) : Entry(n)' = Entry(n)
      BY <2>2, PushLocalStep, PushWriteStep, PushPublishStep
    <3> QED BY <2>0, <3>1, QueueStutters
  <2>3. ASSUME NEW p \in QueueProducers, QueuePushCas(p) PROVE QueueFifo!Next
    <3>1. QueueFifo!Put(arg[p]) /\ arg[p] \in QueueItem
      BY <2>0, <2>3, PushCasStep, QueuePuts
    <3> QED BY <3>1 DEF QueueFifo!Next
  <2>4. ASSUME NEW c \in QueueConsumers, QueuePopLocal(c) \/ QueuePopRead(c) \/ QueuePopPublish(c)
        PROVE  QueueLine' = QueueLine /\ QueueOut' = QueueOut
    <3>1. UNCHANGED <<enqueuePos, dequeuePos>> /\ \A n \in 0..(enqueuePos - 1) : Entry(n)' = Entry(n)
      BY <2>4, PopLocalStep, PopReadStep, PopPublishStep
    <3> QED BY <2>0, <3>1, QueueStutters
  <2>5. ASSUME NEW c \in QueueConsumers, QueuePopCas(c) PROVE QueueFifo!Next
    <3>1. QueueFifo!Take
      BY <2>0, <2>5, PopCasStep, QueueTakes
    <3> QED BY <3>1 DEF QueueFifo!Next
  <2> QED BY <2>1, <2>2, <2>3, <2>4, <2>5 DEF QueueNext, QueuePush, QueuePop, QueuePushLocal, QueuePopLocal
<1> QED BY <1>1, <1>2, <1>3, EntriesAreSplit, PTL DEF QueueSpec, QueueImplementsFifo, QueueFifo!Spec

-----------------------------------------------------------------------------
(* The two FIFOs together *)

\* The ring of the scheduler (with its one pushing thread) and the MPMC queue of
\* the block pool are bounded FIFOs in every behaviour of the module that holds
\* the three queues side by side.
THEOREM QueuesImplementFifo ==
  ASSUME NEW p, RingProducers = {p}
  PROVE  MCSpec => ImplementsFifo
<1>1. MCInit => RingInit /\ QueueInit
  BY DEF MCInit
<1>2. [MCNext]_allVars => [RingNext]_ringVars /\ [QueueNext]_queueVars
  BY DEF MCNext, allVars
<1>3. RingSpec => RingImplementsFifo
  BY RingIsFifo
<1> QED BY <1>1, <1>2, <1>3, QueueIsFifo, PTL DEF MCSpec, RingSpec, QueueSpec, ImplementsFifo
=============================================================================
