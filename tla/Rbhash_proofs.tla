---------------------------- MODULE Rbhash_proofs -----------------------------
(* A table from which nothing is removed keeps every element where a find  *)
(* looks for it, for every size, hash function and content of malloc'ed    *)
(* memory, through every swap of rbhash_swapdown and every rbhash_upsize,  *)
(* and a search returns all of them. With removals too its elements are    *)
(* counted right, an add always finds a free slot, and the table           *)
(* implements the collection of RbhashStore, where no key starts with a    *)
(* NUL character and malloc'ed memory reads as free slots.                 *)
EXTENDS RbhashSearch, FiniteSetTheorems, WellFoundedInduction, TLAPS

(* A slot in use holds an element some caller added, with its hash. *)
Owned(s) == s.live => s.key \in Keys /\ s.data \in Datas /\ s.hash = Hash[s.key]

(* What rbhash_swapdown carries belongs in the slot it looks at. *)
Probing ==
  ctl \in {"probe", "exit"} =>
    /\ nw.dist <= i /\ nw.dist <= maxdistance
    /\ bucket = At(nw.hash, nw.dist)
    /\ Owned(nw)

(* rbhash_upsize is the only one to hold an old table. *)
Growing ==
  /\ old # <<>> => ctl \in {"scan", "probe", "exit"}
  /\ ctl = "scan" => old # <<>>
  /\ \A b \in DOMAIN old : Owned(old[b])

TableInv ==
  /\ TypeOK /\ Probing /\ Growing /\ Placed
  /\ \A b \in DOMAIN table : Owned(table[b])

-----------------------------------------------------------------------------
(* The slot after the one at distance d is the one at distance d + 1. *)
LEMMA AtFollowing ==
  ASSUME size \in Nat \ {0}, NEW h \in Nat, NEW d \in 0 .. size
  PROVE  /\ Home(h) \in 0 .. size - 1 /\ At(h, 0) = Home(h)
         /\ At(h, d) \in 0 .. size - 1
         /\ d < size => Following(At(h, d)) = At(h, d + 1)
  <1>1. Home(h) \in 0 .. size - 1
    BY DEF Home
  <1> QED
    BY <1>1 DEF At, Following

(* The types of a slot's fields, and what the updates of the code make of  *)
(* a slot. *)
LEMMA SlotFields ==
  /\ \A s \in Slot : /\ s.live \in BOOLEAN /\ s.hash \in Nat /\ s.dist \in Nat
                     /\ \A d \in Nat : /\ [s EXCEPT !.dist = d] \in Slot
                                       /\ [s EXCEPT !.dist = d].live = s.live
                                       /\ [s EXCEPT !.dist = d].key = s.key
                                       /\ [s EXCEPT !.dist = d].hash = s.hash
                                       /\ [s EXCEPT !.dist = d].data = s.data
                                       /\ [s EXCEPT !.dist = d].dist = d
  /\ \A k \in Keys, d \in Datas :
       /\ Element(k, d) \in Slot /\ Element(k, d).live = TRUE
       /\ Element(k, d).key = k /\ Element(k, d).data = d
       /\ Element(k, d).hash = Hash[k] /\ Element(k, d).dist = 0
  /\ \A s \in Fill : s \in Slot /\ s.live = FALSE
  BY TableAssumption DEF Slot, Element

(* A non-empty set of distances has a nearest one. *)
LEMMA NearestIn ==
  ASSUME NEW ds \in SUBSET Nat, ds # {}
  PROVE  Nearest(ds) \in ds
  <1> DEFINE R == OpToRel(<, Nat)
  <1>1. IsWellFoundedOn(R, Nat)
    BY NatLessThanWellFounded, Zenon
  <1>2. \A x, y \in Nat : ~(<<y, x>> \in R) => x <= y
    BY DEF OpToRel
  <1> HIDE DEF R
  <1>3. \E x \in ds : \A y \in ds : ~(<<y, x>> \in R)
    BY <1>1, WFMin
  <1>4. \E x \in ds : \A y \in ds : x <= y
    BY <1>2, <1>3
  <1> QED
    BY <1>4 DEF Nearest

(* While it is not freed, a table is an array of slots. *)
LEMMA TableShape ==
  ASSUME TypeOK, ctl # "freed"
  PROVE  /\ size \in Nat \ {0} /\ table \in [0 .. size - 1 -> Slot]
         /\ DOMAIN table = 0 .. size - 1
  BY TableAssumption DEF TypeOK

-----------------------------------------------------------------------------
(* A new table is empty. *)
LEMMA InitTable == Init => TableInv
  <1> SUFFICES ASSUME Init PROVE TableInv
    OBVIOUS
  <1>1. size \in Nat \ {0} /\ table \in [0 .. size - 1 -> Slot]
        /\ \A b \in 0 .. size - 1 : table[b].live = FALSE
    BY TableAssumption, SlotFields DEF Init, Fresh
  <1>2. TypeOK
    BY <1>1 DEF Init, TypeOK
  <1>3. Placed /\ \A b \in DOMAIN table : Owned(table[b])
    BY <1>1 DEF Placed, Live, Owned
  <1> QED
    BY <1>2, <1>3 DEF Init, TableInv, Probing, Growing

(* The start of rbhash_swapdown: the element is at home. *)
LEMMA SwapDownInv ==
  ASSUME TableInv, ctl # "freed", NEW e \in Slot, e.dist = 0, Owned(e), SwapDown(e),
         UNCHANGED <<table, size, maxdistance, old, count, ret>>, scan' \in Nat
  PROVE  TableInv'
  <1>1. size \in Nat \ {0} /\ table \in [0 .. size - 1 -> Slot]
    BY TableShape DEF TableInv
  <1>2. bucket' = At(e.hash, 0) /\ bucket' \in 0 .. size - 1
    BY <1>1, AtFollowing, SlotFields DEF SwapDown
  <1>3. TypeOK'
    BY <1>1, <1>2 DEF TableInv, TypeOK, SwapDown
  <1>4. Probing'
    <2>1. nw' = e /\ i' = 0 /\ maxdistance' = maxdistance /\ maxdistance \in Nat
      BY <1>1 DEF SwapDown, TableInv, TypeOK
    <2>2. At(e.hash, 0)' = At(e.hash, 0)
      BY DEF At, Home
    <2> QED
      BY <1>2, <2>1, <2>2 DEF Probing, Owned, At, Home
  <1>5. Growing'
    BY DEF SwapDown, TableInv, Growing, Owned
  <1>6. Placed' /\ (\A b \in DOMAIN table : Owned(table[b]))'
    BY DEF TableInv, Placed, Live, Owned, At, Home
  <1> QED
    BY <1>3, <1>4, <1>5, <1>6 DEF TableInv

(* rbhash_add and the scan of rbhash_upsize start it so. *)
LEMMA AddInv ==
  ASSUME TableInv, ScanMove \/ \E k \in Keys : \E d \in Datas : Add(k, d)
  PROVE  TableInv'
  <1>1. CASE ScanMove
    <2>1. old[scan] \in Slot /\ Owned(old[scan]) /\ scan \in Nat
      BY <1>1 DEF ScanMove, TableInv, Growing, TypeOK
    <2>2. [old[scan] EXCEPT !.dist = 0] \in Slot
          /\ [old[scan] EXCEPT !.dist = 0].dist = 0 /\ Owned([old[scan] EXCEPT !.dist = 0])
      BY <2>1, SlotFields DEF Owned
    <2>3. /\ ctl # "freed" /\ SwapDown([old[scan] EXCEPT !.dist = 0]) /\ scan' \in Nat
          /\ UNCHANGED <<table, size, maxdistance, old, count, ret>>
      BY <1>1, <2>1 DEF ScanMove
    <2> QED
      BY <2>2, <2>3, SwapDownInv
  <1>2. CASE \E k \in Keys : \E d \in Datas : Add(k, d)
    <2>1. PICK k \in Keys, d \in Datas : Add(k, d)
      BY <1>2
    <2>2. Element(k, d) \in Slot /\ Element(k, d).dist = 0 /\ Owned(Element(k, d))
      BY SlotFields DEF Owned
    <2>3. scan' \in Nat /\ ctl # "freed"
      BY <2>1 DEF Add, TableInv, TypeOK
    <2> QED
      BY <2>1, <2>2, <2>3, SwapDownInv DEF Add
  <1> QED
    BY <1>1, <1>2

(* One iteration of its loop: whichever of the two elements goes on, it is *)
(* one place farther from its home, and so is the slot it looks at. *)
LEMMA ProbeInv ==
  ASSUME TableInv, ProbeNext
  PROVE  TableInv'
  <1> DEFINE carried == IF Farther THEN table[bucket] ELSE nw
  <1>1. /\ ctl = "probe" /\ ctl' = ctl /\ size' = size /\ old' = old /\ scan' = scan
        /\ size \in Nat \ {0} /\ table \in [0 .. size - 1 -> Slot]
        /\ bucket \in 0 .. size - 1 /\ i \in 0 .. size /\ i < size
        /\ nw \in Slot /\ maxdistance \in 0 .. size /\ table[bucket].live
        /\ nw.dist <= i /\ nw.dist <= maxdistance
        /\ bucket = At(nw.hash, nw.dist) /\ Owned(nw) /\ Owned(table[bucket])
    BY TableShape DEF ProbeNext, TableInv, Probing, TypeOK
  <1>2. /\ table[bucket].dist <= maxdistance
        /\ bucket = At(table[bucket].hash, table[bucket].dist)
    BY <1>1 DEF TableInv, Placed, Live
  <1>3. /\ carried \in Slot /\ Owned(carried) /\ bucket = At(carried.hash, carried.dist)
        /\ carried.dist <= i /\ carried.dist \in Nat /\ carried.hash \in Nat
    <2>1. CASE Farther
      BY <1>1, <1>2, <2>1, SlotFields DEF Farther
    <2>2. CASE ~Farther
      BY <1>1, <2>2, SlotFields
    <2> QED
      BY <2>1, <2>2
  <1>4. /\ nw' = [carried EXCEPT !.dist = carried.dist + 1]
        /\ maxdistance' = Reach(carried.dist + 1)
    <2>1. nw' = [carried EXCEPT !.dist = carried.dist + 1] /\ maxdistance' = Reach(nw'.dist)
      BY DEF ProbeNext
    <2> HIDE DEF carried
    <2>2. nw'.dist = carried.dist + 1
      BY <1>3, <2>1, SlotFields
    <2> QED
      BY <2>1, <2>2
  <1> HIDE DEF carried
  <1>5. /\ nw' \in Slot /\ nw'.dist = carried.dist + 1 /\ nw'.hash = carried.hash
        /\ nw'.live = carried.live /\ nw'.key = carried.key /\ nw'.data = carried.data
    BY <1>3, <1>4, SlotFields
  <1>6. /\ maxdistance' \in 0 .. size /\ maxdistance <= maxdistance'
        /\ nw'.dist <= maxdistance'
    BY <1>1, <1>3, <1>4, <1>5 DEF Reach
  <1>7. /\ bucket' = Following(bucket) /\ bucket' = At(carried.hash, carried.dist + 1)
        /\ bucket' \in 0 .. size - 1
    <2>1. bucket' = Following(bucket)
      BY DEF ProbeNext
    <2>2. carried.dist \in 0 .. size /\ carried.dist + 1 \in 0 .. size /\ carried.dist < size
      BY <1>1, <1>3
    <2>3. /\ Following(At(carried.hash, carried.dist)) = At(carried.hash, carried.dist + 1)
          /\ At(carried.hash, carried.dist + 1) \in 0 .. size - 1
      BY <1>1, <1>3, <2>2, AtFollowing
    <2> QED
      BY <1>3, <2>1, <2>3
  <1>8. i' = i + 1 /\ i' \in 0 .. size
    BY <1>1 DEF ProbeNext
  <1>9. /\ table' \in [0 .. size - 1 -> Slot]
        /\ \A b \in 0 .. size - 1 : table'[b] = table[b] \/ (b = bucket /\ table'[b] = nw)
    BY <1>1 DEF ProbeNext
  <1>10. TypeOK'
    BY <1>1, <1>5, <1>6, <1>7, <1>8, <1>9 DEF TableInv, TypeOK, ProbeNext
  <1>11. Probing'
    <2>1. nw'.dist <= i'
      BY <1>1, <1>3, <1>5, <1>8
    <2>2. bucket' = At(nw.hash, nw.dist)'
      <3>1. At(nw.hash, nw.dist)' = At(nw'.hash, nw'.dist)
        BY <1>1 DEF At, Home
      <3> QED
        BY <1>5, <1>7, <3>1
    <2>3. Owned(nw)'
      BY <1>3, <1>5 DEF Owned
    <2> QED
      BY <1>6, <2>1, <2>2, <2>3 DEF Probing
  <1>12. Growing'
    BY <1>1 DEF TableInv, Growing, Owned
  <1>13. Placed' /\ (\A b \in DOMAIN table : Owned(table[b]))'
    <2>1. ASSUME NEW b \in 0 .. size - 1
          PROVE  /\ Owned(table'[b])
                 /\ table'[b].live =>
                      /\ table'[b].dist <= maxdistance' /\ table'[b].hash = Hash[table'[b].key]
                      /\ b = At(table'[b].hash, table'[b].dist)
      <3>1. CASE table'[b] = table[b]
        <4>1. Owned(table[b]) /\ table[b] \in Slot
          BY <1>1, <2>1 DEF TableInv
        <4>2. table[b].live => /\ table[b].dist <= maxdistance
                               /\ b = At(table[b].hash, table[b].dist)
          BY <1>1, <2>1 DEF TableInv, Placed, Live
        <4> QED
          BY <1>1, <1>6, <3>1, <4>1, <4>2, SlotFields DEF Owned
      <3>2. CASE b = bucket /\ table'[b] = nw
        BY <1>1, <1>6, <3>2, SlotFields DEF Owned
      <3> QED
        BY <1>9, <2>1, <3>1, <3>2
    <2>2. DOMAIN table' = 0 .. size - 1
      BY <1>9
    <2> QED
      BY <1>1, <2>1, <2>2 DEF Placed, Live, Owned, At, Home
  <1> QED
    BY <1>10, <1>11, <1>12, <1>13 DEF TableInv

(* Its end: the element lies where it says. *)
LEMMA PlaceInv ==
  ASSUME TableInv, ProbePlace
  PROVE  TableInv'
  <1>1. /\ ctl = "probe" /\ UNCHANGED <<size, old, scan, maxdistance, count, ret>>
        /\ size \in Nat \ {0} /\ table \in [0 .. size - 1 -> Slot]
        /\ bucket \in 0 .. size - 1 /\ nw \in Slot /\ nw.dist <= maxdistance
        /\ bucket = At(nw.hash, nw.dist) /\ Owned(nw)
        /\ table' = [table EXCEPT ![bucket] = nw]
        /\ ctl' = IF old = <<>> THEN "added" ELSE "scan"
    BY TableShape DEF ProbePlace, ProbeEnds, TableInv, Probing, TypeOK
  <1>2. TypeOK'
    BY <1>1 DEF TableInv, TypeOK
  <1>3. Probing' /\ Growing'
    BY <1>1 DEF TableInv, Probing, Growing, Owned
  <1>4. ASSUME NEW b \in 0 .. size - 1
        PROVE  /\ Owned(table'[b])
               /\ table'[b].live =>
                    /\ table'[b].dist <= maxdistance /\ table'[b].hash = Hash[table'[b].key]
                    /\ b = At(table'[b].hash, table'[b].dist)
    BY <1>1 DEF TableInv, Placed, Live, Owned
  <1>5. Placed' /\ (\A b \in DOMAIN table : Owned(table[b]))'
    BY <1>1, <1>4 DEF Placed, Live, Owned, At, Home
  <1> QED
    BY <1>2, <1>3, <1>5 DEF TableInv

(* The other steps of a call, and the calls that change no slot in use. *)
LEMMA OtherInv ==
  ASSUME TableInv, ProbeFull \/ AddEnds \/ UpsizeFails \/ Upsize \/ ScanSkip \/ ScanEnds
                     \/ Free \/ (\E k \in Keys : AddRefused(k)) \/ UNCHANGED vars
  PROVE  TableInv'
  <1>1. CASE UNCHANGED <<table, size, old, maxdistance>> /\ ctl # "freed"
             /\ (ProbeFull \/ AddEnds \/ UpsizeFails \/ ScanSkip \/ \E k \in Keys : AddRefused(k))
    <2>1. TypeOK'
      BY <1>1, TableAssumption DEF TableInv, TypeOK, ProbeFull, AddEnds, UpsizeFails, ScanSkip,
                  AddRefused, Keeps, Returns, locals
    <2>2. Probing' /\ Growing'
      BY <1>1 DEF TableInv, Probing, Growing, Owned, At, Home, ProbeFull, AddEnds,
                  UpsizeFails, ScanSkip, AddRefused, Keeps, Returns, locals
    <2>3. Placed' /\ (\A b \in DOMAIN table : Owned(table[b]))'
      BY <1>1 DEF TableInv, Placed, Live, Owned, At, Home
    <2> QED
      BY <2>1, <2>2, <2>3 DEF TableInv
  <1>2. CASE Upsize
    <2>1. /\ size' \in Sizes /\ size' \in Nat /\ table' \in [0 .. size' - 1 -> Slot]
          /\ \A b \in 0 .. size' - 1 : table'[b].live = FALSE
      BY <1>2, TableAssumption, SlotFields DEF Upsize, RoundUp, Fresh
    <2>2. /\ old' = table /\ ctl' = "scan" /\ maxdistance' = 0 /\ scan' = 0 /\ ctl = "added"
          /\ count' = count + 1 /\ ret' = ret
      BY <1>2 DEF Upsize, Keeps
    <2>3. size \in Nat \ {0} /\ size \in Sizes /\ table \in [0 .. size - 1 -> Slot] /\ table # <<>>
      BY <2>2, TableShape DEF TableInv, TypeOK
    <2>4. TypeOK'
      BY <2>1, <2>2, <2>3 DEF TableInv, TypeOK
    <2>5. Probing' /\ Growing'
      BY <2>2, <2>3 DEF TableInv, Probing, Growing, Owned
    <2>6. Placed' /\ (\A b \in DOMAIN table : Owned(table[b]))'
      BY <2>1 DEF Placed, Live, Owned
    <2> QED
      BY <2>4, <2>5, <2>6 DEF TableInv
  <1>3. CASE ScanEnds
    <2>1. TypeOK'
      BY <1>3 DEF ScanEnds, TableInv, TypeOK, Returns, locals
    <2>2. Probing' /\ Growing'
      BY <1>3 DEF ScanEnds, TableInv, Probing, Growing, Returns
    <2>3. Placed' /\ (\A b \in DOMAIN table : Owned(table[b]))'
      BY <1>3 DEF ScanEnds, TableInv, Placed, Live, Owned, At, Home
    <2> QED
      BY <2>1, <2>2, <2>3 DEF TableInv
  <1>4. CASE Free
    <2>1. /\ ctl = "idle" /\ table' = <<>> /\ ctl' = "freed"
          /\ UNCHANGED <<size, old, scan, maxdistance, locals, ret>>
      BY <1>4 DEF Free
    <2>2. count' \in Int
      BY <1>4 DEF Free
    <2>3. TypeOK'
      BY <2>1, <2>2 DEF TableInv, TypeOK
    <2> QED
      BY <2>1, <2>3 DEF TableInv, Probing, Growing, Placed, Live
  <1>5. CASE UNCHANGED vars
    BY <1>5 DEF vars, locals, TableInv, TypeOK, Probing, Growing, Placed, Live, Owned, At, Home
  <1>6. (ProbeFull \/ AddEnds \/ UpsizeFails \/ ScanSkip \/ \E k \in Keys : AddRefused(k)) =>
           UNCHANGED <<table, size, old, maxdistance>> /\ ctl # "freed"
    BY DEF ProbeFull, AddEnds, UpsizeFails, ScanSkip, AddRefused, Keeps
  <1> QED
    BY <1>1, <1>2, <1>3, <1>4, <1>5, <1>6

(* Every step of a table from which nothing is removed.                    *)
LEMMA TableStep ==
  ASSUME "remove" \notin Calls, TableInv, [Next]_vars
  PROVE  TableInv'
  <1>1. CASE ScanMove \/ \E k \in Keys : \E d \in Datas : Add(k, d)
    BY <1>1, AddInv
  <1>2. CASE ProbeNext
    BY <1>2, ProbeInv
  <1>3. CASE ProbePlace
    BY <1>3, PlaceInv
  <1>4. CASE ProbeFull \/ AddEnds \/ UpsizeFails \/ Upsize \/ ScanSkip \/ ScanEnds
             \/ Free \/ (\E k \in Keys : AddRefused(k)) \/ UNCHANGED vars
    BY <1>4, OtherInv
  <1>5. ~\E k \in Keys : Remove(k)
    BY DEF Remove
  <1> QED
    BY <1>1, <1>2, <1>3, <1>4, <1>5 DEF Next, Step

(* The invariant holds of every reachable state.                           *)
LEMMA TableAlways ==
  ASSUME "remove" \notin Calls
  PROVE  Spec => []TableInv
  <1>1. Init => TableInv
    BY InitTable
  <1>2. TableInv /\ [Next]_vars => TableInv'
    BY TableStep
  <1> QED
    BY <1>1, <1>2, PTL DEF Spec

(* Where nothing is removed, every element lies as far from the home of    *)
(* its hash as it says and within what a find looks at: all the swaps of   *)
(* rbhash_swapdown and the moves of rbhash_upsize keep it so.              *)
THEOREM TablePlaced ==
  ASSUME "remove" \notin Calls
  PROVE  Spec => [](TypeOK /\ Placed)
  <1>1. TableInv => TypeOK /\ Placed
    BY DEF TableInv
  <1> QED
    BY <1>1, TableAlways, PTL

-----------------------------------------------------------------------------
(* With removals an element may lie where it does not belong, but every    *)
(* index stays in its array: an element that has been carried over i slots *)
(* is at most i from its home, and one that is taken up is nearer to its   *)
(* own than the one that is put down.                                      *)
Bounded == TypeOK /\ (ctl \in {"probe", "exit"} => nw.dist <= i)

LEMMA ProbeBounded ==
  ASSUME Bounded, ProbeNext
  PROVE  Bounded'
  <1> DEFINE carried == IF Farther THEN table[bucket] ELSE nw
  <1>1. /\ ctl = "probe" /\ ctl' = ctl /\ UNCHANGED <<size, old, scan, count, ret>>
        /\ size \in Nat \ {0} /\ table \in [0 .. size - 1 -> Slot]
        /\ bucket \in 0 .. size - 1 /\ i \in 0 .. size /\ i < size
        /\ nw \in Slot /\ maxdistance \in 0 .. size /\ nw.dist <= i
    BY TableShape DEF ProbeNext, Bounded, TypeOK
  <1>2. carried \in Slot /\ carried.dist \in Nat /\ carried.dist <= i
    BY <1>1, SlotFields DEF Farther
  <1>3. nw' = [carried EXCEPT !.dist = carried.dist + 1] /\ maxdistance' = Reach(nw'.dist)
    BY DEF ProbeNext
  <1> HIDE DEF carried
  <1>4. nw' \in Slot /\ nw'.dist = carried.dist + 1
    BY <1>2, <1>3, SlotFields
  <1>5. maxdistance' \in 0 .. size
    BY <1>1, <1>2, <1>3, <1>4 DEF Reach
  <1>6. i' = i + 1 /\ bucket' \in 0 .. size - 1
    BY <1>1 DEF ProbeNext, Following
  <1>7. table' \in [0 .. size - 1 -> Slot]
    BY <1>1 DEF ProbeNext
  <1> QED
    BY <1>1, <1>2, <1>4, <1>5, <1>6, <1>7 DEF Bounded, TypeOK

LEMMA BucketInTable ==
  ASSUME TypeOK, ctl # "freed", NEW k \in Keys, Matches(k) # {}
  PROVE  BucketOf(k) \in DOMAIN table
  <1>1. size \in Nat \ {0} /\ DOMAIN table = 0 .. size - 1 /\ maxdistance \in 0 .. size
    BY TableShape DEF TypeOK
  <1>2. Matches(k) \subseteq 0 .. size
    BY <1>1 DEF Matches
  <1>3. Nearest(Matches(k)) \in 0 .. size
    BY <1>1, <1>2, NearestIn
  <1>4. Hash[k] \in Nat
    BY TableAssumption
  <1> QED
    BY <1>1, <1>3, <1>4, AtFollowing DEF BucketOf

LEMMA RemoveBounded ==
  ASSUME Bounded, NEW k \in Keys, Remove(k)
  PROVE  Bounded'
  <1>1. /\ ctl = "idle" /\ ctl' = "idle" /\ UNCHANGED <<size, old, scan, maxdistance>>
        /\ ret' \in {-1, 0} /\ count' \in Int
    BY DEF Remove, Returns, Bounded, TypeOK
  <1>2. size \in Nat \ {0} /\ table \in [0 .. size - 1 -> Slot] /\ DOMAIN table = 0 .. size - 1
    BY <1>1, TableShape DEF Bounded
  <1>3. \A s \in Slot : Freed(s) \in Slot
    BY DEF Freed, Slot
  <1>4. table' \in [0 .. size - 1 -> Slot]
    <2>1. CASE table' = table
      BY <1>2, <2>1
    <2>2. CASE Matches(k) # {} /\ table' = SwapUp(BucketOf(k))
      <3>1. BucketOf(k) \in 0 .. size - 1
        BY <1>1, <1>2, <2>2, BucketInTable DEF Bounded
      <3>2. PICK b \in 0 .. size - 1 : b = BucketOf(k)
        BY <3>1
      <3>3. Following(b) \in 0 .. size - 1
        BY <1>2 DEF Following
      <3>4. SwapUp(b) \in [0 .. size - 1 -> Slot]
        BY <1>2, <1>3, <3>3 DEF SwapUp
      <3> QED
        BY <2>2, <3>2, <3>4
    <2> QED
      BY <2>1, <2>2 DEF Remove
  <1> QED
    BY <1>1, <1>4 DEF Bounded, TypeOK

LEMMA BoundedStep ==
  ASSUME Bounded, [Next]_vars
  PROVE  Bounded'
  <1>1. CASE ProbeNext
    BY <1>1, ProbeBounded
  <1>2. CASE \E k \in Keys : Remove(k)
    BY <1>2, RemoveBounded
  <1>3. ASSUME NEW e \in Slot, e.dist = 0, SwapDown(e), ctl # "freed", scan' \in Nat,
               UNCHANGED <<table, size, maxdistance, old, count, ret>>
        PROVE  Bounded'
    <2>1. size \in Nat \ {0} /\ table \in [0 .. size - 1 -> Slot]
      BY <1>3, TableShape DEF Bounded
    <2>2. e.hash \in Nat /\ bucket' \in 0 .. size - 1
      BY <1>3, <2>1, AtFollowing, SlotFields DEF SwapDown
    <2> QED
      BY <1>3, <2>1, <2>2 DEF Bounded, TypeOK, SwapDown
  <1>4. CASE ScanMove
    <2>1. old[scan] \in Slot /\ scan \in Nat
      <3>1. scan \in Nat /\ scan \in DOMAIN old /\ (old = <<>> \/ \E n \in Sizes : old \in [0 .. n - 1 -> Slot])
        BY <1>4 DEF ScanMove, Bounded, TypeOK
      <3>2. old # <<>>
        BY <3>1
      <3> QED
        BY <3>1, <3>2
    <2>2. [old[scan] EXCEPT !.dist = 0] \in Slot /\ [old[scan] EXCEPT !.dist = 0].dist = 0
      BY <2>1, SlotFields
    <2>3. /\ ctl # "freed" /\ scan' \in Nat /\ SwapDown([old[scan] EXCEPT !.dist = 0])
          /\ UNCHANGED <<table, size, maxdistance, old, count, ret>>
      BY <1>4, <2>1 DEF ScanMove
    <2> QED
      BY <1>3, <2>2, <2>3
  <1>5. CASE \E k \in Keys : \E d \in Datas : Add(k, d)
    <2>1. PICK k \in Keys, d \in Datas : Add(k, d)
      BY <1>5
    <2>2. Element(k, d) \in Slot /\ Element(k, d).dist = 0
      BY SlotFields
    <2> QED
      BY <1>3, <2>1, <2>2 DEF Add, Bounded, TypeOK
  <1>6. CASE ProbePlace
    <2>1. /\ ctl = "probe" /\ UNCHANGED <<size, old, scan, maxdistance, count, ret>>
          /\ ctl' = IF old = <<>> THEN "added" ELSE "scan"
          /\ size \in Nat \ {0} /\ table \in [0 .. size - 1 -> Slot] /\ nw \in Slot
          /\ table' = [table EXCEPT ![bucket] = nw]
      BY <1>6, TableShape DEF ProbePlace, ProbeEnds, Bounded, TypeOK
    <2> QED
      BY <2>1 DEF Bounded, TypeOK
  <1>7. CASE Upsize
    <2>1. /\ size' \in Sizes /\ size' \in Nat /\ table' \in [0 .. size' - 1 -> Slot]
      BY <1>7, TableAssumption, SlotFields DEF Upsize, RoundUp, Fresh
    <2>2. /\ old' = table /\ ctl' = "scan" /\ maxdistance' = 0 /\ scan' = 0 /\ ctl = "added"
          /\ count' = count + 1 /\ ret' = ret
      BY <1>7 DEF Upsize, Keeps
    <2>3. size \in Sizes /\ table \in [0 .. size - 1 -> Slot] /\ count \in Int /\ ret \in {-1, 0}
      BY <2>2, TableShape DEF Bounded, TypeOK
    <2>4. \E n \in Sizes : old' \in [0 .. n - 1 -> Slot]
      BY <2>2, <2>3
    <2>5. TypeOK'
      <3>1. maxdistance' \in 0 .. size' /\ scan' \in Nat /\ count' \in Int
        BY <2>1, <2>2, <2>3
      <3>2. ctl' \notin {"probe", "exit"}
        BY <2>2
      <3>3. (old = <<>> \/ \E n \in Sizes : old \in [0 .. n - 1 -> Slot])'
        BY <2>4
      <3>4. ret' \in {-1, 0} /\ ctl' \in {"idle", "probe", "added", "scan", "exit", "freed"}
        BY <2>2, <2>3
      <3>5. (table \in [0 .. size - 1 -> Slot])' /\ (size \in Sizes)'
        BY <2>1
      <3> QED
        BY <3>1, <3>2, <3>3, <3>4, <3>5 DEF TypeOK
    <2> QED
      BY <2>2, <2>5 DEF Bounded
  <1>8. CASE ProbeFull \/ AddEnds \/ UpsizeFails \/ ScanSkip \/ ScanEnds
    BY <1>8 DEF ProbeFull, AddEnds, UpsizeFails, ScanSkip, ScanEnds, Keeps, Returns, locals,
                Bounded, TypeOK
  <1>9. CASE Free \/ (\E k \in Keys : AddRefused(k)) \/ UNCHANGED vars
    <2>1. CASE Free
      <3>1. /\ ctl = "idle" /\ table' = <<>> /\ ctl' = "freed" /\ count' \in Int
            /\ UNCHANGED <<size, old, scan, maxdistance, locals, ret>>
        BY <2>1 DEF Free
      <3> QED
        BY <3>1 DEF Bounded, TypeOK
    <2>2. CASE \E k \in Keys : AddRefused(k)
      BY <2>2 DEF AddRefused, Returns, locals, Bounded, TypeOK
    <2>3. CASE UNCHANGED vars
      BY <2>3 DEF vars, locals, Bounded, TypeOK
    <2> QED
      BY <1>9, <2>1, <2>2, <2>3
  <1> QED
    BY <1>1, <1>2, <1>4, <1>5, <1>6, <1>7, <1>8, <1>9 DEF Next, Step

LEMMA BoundedAlways == Spec => []Bounded
  <1>1. Init => Bounded
    <2>1. Init => TypeOK
      BY InitTable DEF TableInv
    <2> QED
      BY <2>1 DEF Bounded, Init
  <1> QED
    BY <1>1, BoundedStep, PTL DEF Spec

(* Every index that rbhash_swapdown, rbhash_find and rbhash_swapup compute *)
(* lies in the table, and no probe goes round it more than once: for every *)
(* size, hash function and content of new memory, removals included.       *)
THEOREM TypeCorrect == Spec => []TypeOK
  <1>1. Bounded => TypeOK
    BY DEF Bounded
  <1> QED
    BY <1>1, BoundedAlways, PTL

-----------------------------------------------------------------------------
(* With removals too, every slot in use holds an element that some caller  *)
(* added, wherever it lies.                                                *)
Contents ==
  /\ Bounded /\ Growing
  /\ ctl \in {"probe", "exit"} => Owned(nw)
  /\ \A b \in DOMAIN table : Owned(table[b])

LEMMA ProbeContents ==
  ASSUME Contents, ProbeNext
  PROVE  Contents'
<1> DEFINE carried == IF Farther THEN table[bucket] ELSE nw
<1>1. /\ ctl = "probe" /\ ctl' = ctl /\ UNCHANGED <<size, old, scan>>
      /\ table \in [0 .. size - 1 -> Slot] /\ bucket \in 0 .. size - 1 /\ nw \in Slot
      /\ Owned(nw) /\ Owned(table[bucket])
  BY TableShape DEF ProbeNext, Contents, Bounded, TypeOK
<1>2. carried \in Slot /\ carried.dist + 1 \in Nat /\ Owned(carried)
  BY <1>1, SlotFields
<1>3. nw' = [carried EXCEPT !.dist = carried.dist + 1]
  BY DEF ProbeNext
<1> HIDE DEF carried
<1>4. Owned(nw')
  BY <1>2, <1>3, SlotFields DEF Owned
<1>5. table' = table \/ table' = [table EXCEPT ![bucket] = nw]
  BY DEF ProbeNext
<1>6. \A b \in DOMAIN table' : Owned(table'[b])
  BY <1>1, <1>5 DEF Contents
<1>7. Growing'
  BY <1>1 DEF Contents, Growing, Owned
<1> QED
  BY <1>4, <1>6, <1>7, BoundedStep DEF Contents, Owned, Next, Step

(* rbhash_swapup copies an element that is in use, or none.                *)
LEMMA RemoveContents ==
  ASSUME Contents, NEW k \in Keys, Remove(k)
  PROVE  Contents'
<1>1. ctl = "idle" /\ ctl' = "idle" /\ UNCHANGED old
  BY DEF Remove, Returns
<1>2. size \in Nat \ {0} /\ table \in [0 .. size - 1 -> Slot] /\ DOMAIN table = 0 .. size - 1
  BY <1>1, TableShape DEF Contents, Bounded
<1>3. \A s \in Slot : Owned(Freed(s))
  BY DEF Freed, Slot, Owned
<1>4. \A b \in DOMAIN table' : Owned(table'[b])
  <2>1. CASE table' = table
    BY <2>1 DEF Contents
  <2>2. CASE Matches(k) # {} /\ table' = SwapUp(BucketOf(k))
    <3>1. PICK b \in 0 .. size - 1 : b = BucketOf(k)
      BY <1>1, <1>2, <2>2, BucketInTable DEF Contents, Bounded
    <3>2. Following(b) \in 0 .. size - 1
      BY <1>2 DEF Following
    <3>3. \A c \in DOMAIN SwapUp(b) : Owned(SwapUp(b)[c])
      BY <1>2, <1>3, <3>2 DEF SwapUp, Contents
    <3> QED
      BY <2>2, <3>1, <3>3
  <2> QED
    BY <2>1, <2>2 DEF Remove
<1>5. Growing'
  BY <1>1 DEF Contents, Growing, Owned
<1> QED
  BY <1>1, <1>4, <1>5, RemoveBounded DEF Contents, Owned

LEMMA ContentsStep ==
  ASSUME Contents, [Next]_vars
  PROVE  Contents'
<1>1. Bounded'
  BY BoundedStep DEF Contents
<1>2. CASE ProbeNext
  BY <1>2, ProbeContents
<1>3. CASE \E k \in Keys : Remove(k)
  BY <1>3, RemoveContents
<1>4. CASE ScanMove
  <2>1. /\ scan \in DOMAIN old /\ nw' = [old[scan] EXCEPT !.dist = 0] /\ ctl = "scan"
        /\ UNCHANGED <<table, old>> /\ ctl' = "probe"
    BY <1>4 DEF ScanMove, SwapDown
  <2>2. old[scan] \in Slot /\ Owned(old[scan])
    BY <2>1 DEF Contents, Bounded, TypeOK, Growing
  <2>3. Owned(nw')
    BY <2>1, <2>2, SlotFields DEF Owned
  <2> QED
    BY <1>1, <2>1, <2>3 DEF Contents, Growing, Owned
<1>5. CASE \E k \in Keys : \E d \in Datas : Add(k, d)
  <2>1. PICK k \in Keys, d \in Datas : Add(k, d)
    BY <1>5
  <2>2. nw' = Element(k, d) /\ ctl = "idle" /\ ctl' = "probe" /\ UNCHANGED <<table, old>>
    BY <2>1 DEF Add, SwapDown
  <2>3. Owned(nw')
    BY <2>2, SlotFields DEF Owned
  <2> QED
    BY <1>1, <2>2, <2>3 DEF Contents, Growing, Owned
<1>6. CASE ProbePlace
  <2>1. /\ ctl = "probe" /\ ctl' = (IF old = <<>> THEN "added" ELSE "scan") /\ UNCHANGED old
        /\ table' = [table EXCEPT ![bucket] = nw] /\ Owned(nw)
    BY <1>6 DEF ProbePlace, ProbeEnds, Contents
  <2>2. \A b \in DOMAIN table' : Owned(table'[b])
    BY <2>1 DEF Contents
  <2> QED
    BY <1>1, <2>1, <2>2 DEF Contents, Growing, Owned
<1>7. CASE Upsize
  <2>1. \A b \in DOMAIN table' : table'[b].live = FALSE
    BY <1>7, SlotFields DEF Upsize, Fresh
  <2>2. old' = table /\ ctl' = "scan" /\ ctl = "added"
    BY <1>7 DEF Upsize, Keeps
  <2>3. size \in Nat \ {0} /\ DOMAIN table = 0 .. size - 1
    BY <2>2, TableShape DEF Contents, Bounded
  <2>4. table # <<>>
    BY <2>3
  <2> QED
    BY <1>1, <2>1, <2>2, <2>4 DEF Contents, Growing, Owned
<1>8. CASE ProbeFull \/ AddEnds \/ UpsizeFails \/ ScanSkip \/ ScanEnds
  BY <1>1, <1>8 DEF ProbeFull, AddEnds, UpsizeFails, ScanSkip, ScanEnds, Keeps, Returns, locals,
                    Contents, Growing, Owned
<1>9. CASE Free \/ (\E k \in Keys : AddRefused(k)) \/ UNCHANGED vars
  BY <1>1, <1>9 DEF Free, AddRefused, Returns, vars, locals, Contents, Growing, Owned
<1> QED
  BY <1>2, <1>3, <1>4, <1>5, <1>6, <1>7, <1>8, <1>9 DEF Next, Step

LEMMA InitContents == Init => Contents
<1>1. TableInv => Contents
  BY DEF TableInv, Probing, Contents, Bounded
<1> QED
  BY <1>1, InitTable

LEMMA ContentsAlways == Spec => []Contents
  BY InitContents, ContentsStep, PTL DEF Spec

(* rbhash_find_bucket returns a slot in use.                               *)
LEMMA BucketIsLive ==
  ASSUME TypeOK, ctl # "freed", NEW k \in Keys, Matches(k) # {}
  PROVE  BucketOf(k) \in Live(table) /\ table[BucketOf(k)].key = k
<1>1. BucketOf(k) \in DOMAIN table
  BY BucketInTable
<1>2. maxdistance \in Nat
  BY TableShape DEF TypeOK
<1>3. Matches(k) \in SUBSET Nat
  BY <1>2 DEF Matches
<1>4. Nearest(Matches(k)) \in Matches(k)
  BY <1>3, NearestIn
<1> QED
  BY <1>1, <1>4 DEF BucketOf, Matches, Live

-----------------------------------------------------------------------------
(* The share of a table that is kept free. A table that grows has at least *)
(* twice the size, so that the share grows by no more than half of what is *)
(* new.                                                                    *)
Share(n) == (n * Min) \div 100

Kept == ctl # "freed" /\ count > 0 => size - count > Share(size)

LEMMA ShareGrows ==
  ASSUME NEW s \in Nat, NEW r \in Nat, 2 * s <= r, s - Share(s) >= 2
  PROVE  r - Share(r) > s - Share(s)
  <1>1. Min \in 0 .. 100
    BY TableAssumption
  <1>2. PICK t \in Nat : r = 2 * s + t
    <2>1. r - 2 * s \in Nat /\ r = 2 * s + (r - 2 * s)
      OBVIOUS
    <2> QED
      BY <2>1
  <1>3. PICK a \in Nat : a = s * Min
    BY <1>1
  <1>4. PICK b \in Nat : b = t * Min /\ b <= 100 * t
    <2>1. t * Min \in Nat
      BY <1>1
    <2>2. t * (100 - Min) >= 0 /\ t * (100 - Min) = 100 * t - t * Min
      BY <1>1
    <2> QED
      BY <2>1, <2>2, <1>1
  <1>5. r * Min = 2 * a + b
    BY <1>1, <1>2, <1>3, <1>4
  <1>6. Share(s) = a \div 100 /\ Share(r) = (2 * a + b) \div 100
    BY <1>3, <1>5 DEF Share
  <1>7. (2 * a + b) \div 100 <= 2 * (a \div 100) + 1 + t
    BY <1>4
  <1> QED
    BY <1>2, <1>6, <1>7

LEMMA KeptStep ==
  ASSUME MallocFails = FALSE, Min # 0, \A r, s \in Sizes : r < s => 2 * r <= s,
         \A s \in Sizes : s - Share(s) >= 2, Bounded, Kept, [Next]_vars
  PROVE  Kept'
  <1>1. count \in Int /\ size \in Sizes /\ size \in Nat /\ Share(size) \in Int
    <2>1. \A n \in Int : n \div 100 \in Int
      OBVIOUS
    <2> QED
      BY <2>1, TableAssumption DEF Bounded, TypeOK, Share
  <1>2. ASSUME UNCHANGED <<count, size>>, ctl # "freed" \/ ctl' = ctl
        PROVE  Kept'
    BY <1>2 DEF Kept, Share
  <1>3. CASE AddEnds
    <2>1. size' = size /\ size > count' + Spare(size) /\ count' \in Int
      BY <1>1, <1>3 DEF AddEnds, Enough, Keeps
    <2>2. Spare(size) = Share(size) + 1 /\ Share(size)' = Share(size)
      BY <2>1 DEF Spare, Share
    <2> QED
      BY <1>1, <2>1, <2>2 DEF Kept, Share
  <1>4. CASE Upsize
    <2>1. size' \in Sizes /\ size' \in Nat /\ size' >= size + Spare(size) /\ count' = count + 1
          /\ ctl = "added"
      BY <1>4, TableAssumption DEF Upsize, RoundUp, Keeps
    <2>2. Spare(size) \in Nat \ {0}
      <3>1. \A n \in Nat : n \div 100 + 1 \in Nat \ {0}
        OBVIOUS
      <3>2. size * Min \in Nat
        BY <1>1, TableAssumption
      <3> QED
        BY <3>1, <3>2 DEF Spare
    <2>3. 2 * size <= size' /\ size' - Share(size') >= 2
      BY <1>1, <2>1, <2>2
    <2>4. size' - Share(size') > size - Share(size)
      BY <1>1, <2>1, <2>3, ShareGrows
    <2>5. Share(size') \in Int /\ Share(size)' = Share(size')
      BY <2>1, TableAssumption DEF Share
    <2>6. CASE count > 0
      BY <1>1, <2>1, <2>4, <2>5, <2>6 DEF Kept
    <2>7. CASE ~(count > 0)
      BY <1>1, <2>1, <2>3, <2>5, <2>7 DEF Kept
    <2> QED
      BY <2>6, <2>7
  <1>5. CASE \E k \in Keys : Remove(k)
    BY <1>1, <1>5 DEF Remove, Kept, Share
  <1>6. CASE Free
    BY <1>6 DEF Free, Kept
  <1>7. CASE ProbeNext \/ ProbePlace \/ ProbeFull \/ ScanSkip \/ ScanMove \/ ScanEnds
             \/ (\E k \in Keys : AddRefused(k)) \/ (\E k \in Keys : \E d \in Datas : Add(k, d))
             \/ UNCHANGED vars
    <2>1. UNCHANGED <<count, size>> /\ (ctl # "freed" \/ ctl' = ctl)
      BY <1>7 DEF ProbeNext, ProbePlace, ProbeFull, ScanSkip, ScanMove, ScanEnds, AddRefused, Add,
                  vars
    <2> QED
      BY <1>2, <2>1
  <1> QED
    BY <1>3, <1>4, <1>5, <1>6, <1>7 DEF Next, Step, UpsizeFails

-----------------------------------------------------------------------------
(* A key is found exactly when a slot in use holds it, and what is found   *)
(* is the data of such a slot.                                             *)
LEMMA FindLooksFar ==
  ASSUME TableInv, ctl # "freed", NEW k \in Keys
  PROVE  /\ Matches(k) # {} <=> \E b \in Live(table) : table[b].key = k
         /\ Matches(k) # {} => \E b \in Live(table) : table[b].key = k /\ Find(k) = table[b].data
  <1>1. /\ size \in Nat \ {0} /\ table \in [0 .. size - 1 -> Slot] /\ DOMAIN table = 0 .. size - 1
        /\ maxdistance \in 0 .. size
    BY TableShape DEF TableInv, TypeOK
  <1>2. Hash[k] \in Nat
    BY TableAssumption
  <1>3. ASSUME NEW b \in Live(table), table[b].key = k
        PROVE  Matches(k) # {}
    <2>1. /\ b \in 0 .. size - 1 /\ table[b].live /\ table[b] \in Slot
          /\ table[b].dist <= maxdistance /\ table[b].hash = Hash[k]
          /\ b = At(Hash[k], table[b].dist)
      BY <1>1, <1>3 DEF Live, TableInv, Placed
    <2>2. table[b].dist \in 0 .. maxdistance
      BY <1>1, <2>1, SlotFields
    <2>3. table[b].dist \in Matches(k)
      BY <1>3, <2>1, <2>2 DEF Matches
    <2> QED
      BY <2>3
  <1>4. ASSUME NEW d \in Matches(k)
        PROVE  At(Hash[k], d) \in Live(table) /\ table[At(Hash[k], d)].key = k
    <2>1. d \in 0 .. size /\ table[At(Hash[k], d)].live /\ table[At(Hash[k], d)].key = k
      BY <1>1, <1>4 DEF Matches
    <2>2. At(Hash[k], d) \in 0 .. size - 1
      BY <1>1, <1>2, <2>1, AtFollowing
    <2> QED
      BY <1>1, <2>1, <2>2 DEF Live
  <1>5. ASSUME Matches(k) # {}
        PROVE  \E b \in Live(table) : table[b].key = k /\ Find(k) = table[b].data
    <2>1. Matches(k) \in SUBSET Nat
      BY <1>1 DEF Matches
    <2>2. Nearest(Matches(k)) \in Matches(k)
      BY <1>5, <2>1, NearestIn
    <2>3. Find(k) = table[BucketOf(k)].data
      BY <1>5 DEF Find
    <2> QED
      BY <1>4, <2>2, <2>3 DEF BucketOf
  <1> QED
    BY <1>3, <1>5

(* Between calls rbhash_find finds every key that was added, with data     *)
(* that was added for it, and no other key.                                *)
LEMMA TableFinds ==
  ASSUME TableInv
  PROVE  FindsStored
  <1> SUFFICES ASSUME ctl = "idle", NEW k \in Keys
               PROVE  IF \E d \in Datas : <<k, d>> \in Pairs(table)
                      THEN Matches(k) # {} /\ <<k, Find(k)>> \in Pairs(table)
                      ELSE Matches(k) = {}
    BY DEF FindsStored
  <1>1. ASSUME NEW b \in Live(table), table[b].key = k
        PROVE  table[b].data \in Datas /\ <<k, table[b].data>> \in Pairs(table)
    <2>1. table[b].live /\ Owned(table[b])
      BY DEF Live, TableInv
    <2>2. <<k, table[b].data>> = PairOf(table[b])
      BY <1>1 DEF PairOf
    <2> QED
      BY <2>1, <2>2 DEF Pairs, Owned
  <1>2. ASSUME NEW d \in Datas, <<k, d>> \in Pairs(table)
        PROVE  \E b \in Live(table) : table[b].key = k
    <2>1. PICK b \in Live(table) : <<k, d>> = PairOf(table[b])
      BY <1>2 DEF Pairs
    <2> QED
      BY <2>1 DEF PairOf
  <1>3. CASE \E d \in Datas : <<k, d>> \in Pairs(table)
    <2>1. Matches(k) # {}
      BY <1>2, <1>3, FindLooksFar
    <2>2. PICK b \in Live(table) : table[b].key = k /\ Find(k) = table[b].data
      BY <2>1, FindLooksFar
    <2> QED
      BY <1>1, <1>3, <2>1, <2>2
  <1>4. CASE ~\E d \in Datas : <<k, d>> \in Pairs(table)
    <2>1. ~\E b \in Live(table) : table[b].key = k
      BY <1>1, <1>4
    <2> QED
      BY <1>4, <2>1, FindLooksFar
  <1> QED
    BY <1>3, <1>4

(* rbhash_find's promise, for every size, hash function, share to keep     *)
(* free and content of malloc'ed memory, where nothing is removed.         *)
THEOREM KeysFound ==
  ASSUME "remove" \notin Calls
  PROVE  Spec => []FindsStored
  <1>1. TableInv => FindsStored
    BY TableFinds
  <1> QED
    BY <1>1, TableAlways, PTL

-----------------------------------------------------------------------------
(* KeysUnique is about one table between two calls; what a step keeps is   *)
(* that no two elements have the same key wherever they are: in the table, *)
(* in the old one still to be moved, or with rbhash_swapdown.              *)

OneSlotEach == \A b, c \in Live(table) : b # c => table[b].key # table[c].key

Waiting == {b \in DOMAIN old : b >= scan /\ old[b].live}

Carrying == ctl \in {"probe", "exit"} /\ nw.live

Distinct ==
  /\ OneSlotEach
  /\ \A b, c \in Waiting : b # c => old[b].key # old[c].key
  /\ \A b \in Live(table), c \in Waiting : table[b].key # old[c].key
  /\ Carrying => /\ \A b \in Live(table) : table[b].key # nw.key
                 /\ \A c \in Waiting : old[c].key # nw.key

(* rbhash_add_unique asks for the key first.                               *)
LEMMA AddDistinct ==
  ASSUME "add" \notin Calls, NULL \notin Datas, TableInv, Distinct,
         NEW k \in Keys, NEW d \in Datas, Add(k, d)
  PROVE  Distinct'
  <1>1. ctl = "idle" /\ Find(k) = NULL /\ nw' = Element(k, d) /\ UNCHANGED <<table, old, scan>>
    BY DEF Add, Adds, SwapDown
  <1>2. old = <<>>
    BY <1>1 DEF TableInv, Growing
  <1>3. Waiting = {} /\ Waiting' = {}
    BY <1>1, <1>2 DEF Waiting
  <1>4. ~\E b \in Live(table) : table[b].key = k
    <2> SUFFICES ASSUME \E b \in Live(table) : table[b].key = k PROVE FALSE
      OBVIOUS
    <2>1. PICK b \in Live(table) : Find(k) = table[b].data
      BY <1>1, FindLooksFar
    <2> QED
      BY <1>1, <2>1 DEF Live, TableInv, Owned
  <1>5. nw'.key = k
    BY <1>1, SlotFields
  <1> QED
    BY <1>1, <1>3, <1>4, <1>5 DEF Distinct, OneSlotEach, Live

LEMMA ScanMoveDistinct ==
  ASSUME TableInv, Distinct, ScanMove
  PROVE  Distinct'
  <1>1. /\ ctl = "scan" /\ scan \in DOMAIN old /\ scan' = scan + 1
        /\ nw' = [old[scan] EXCEPT !.dist = 0] /\ UNCHANGED <<table, old>>
    BY DEF ScanMove, SwapDown
  <1>2. old[scan] \in Slot /\ scan \in Nat /\ DOMAIN old \subseteq Nat
    BY <1>1, TableAssumption DEF TableInv, TypeOK
  <1>3. nw'.key = old[scan].key /\ nw'.live = old[scan].live
    BY <1>1, <1>2, SlotFields
  <1>4. Waiting' \subseteq Waiting /\ scan \notin Waiting' /\ (nw'.live => scan \in Waiting)
    BY <1>1, <1>2, <1>3 DEF Waiting
  <1>5. Live(table') = Live(table)
    BY <1>1
  <1> QED
    BY <1>1, <1>3, <1>4, <1>5 DEF Distinct, OneSlotEach, Carrying

LEMMA ProbeDistinct ==
  ASSUME TableInv, Distinct, ProbeNext
  PROVE  Distinct'
  <1>1. /\ ctl = "probe" /\ ctl' = "probe" /\ UNCHANGED <<old, scan, size>>
        /\ bucket \in DOMAIN table /\ bucket \in Live(table)
        /\ DOMAIN table = 0 .. size - 1 /\ nw \in Slot /\ table[bucket] \in Slot
    BY TableShape DEF ProbeNext, TableInv, TypeOK, Live
  <1>2. Waiting' = Waiting
    BY <1>1 DEF Waiting
  <1>3. CASE ~Farther
    <2>1. table' = table /\ nw' = [nw EXCEPT !.dist = @ + 1]
      BY <1>3 DEF ProbeNext
    <2>2. nw'.live = nw.live /\ nw'.key = nw.key
      BY <1>1, <2>1, SlotFields
    <2> QED
      BY <1>1, <1>2, <2>1, <2>2 DEF Distinct, OneSlotEach, Carrying, Live
  <1>4. CASE Farther
    <2>1. /\ table' = [table EXCEPT ![bucket] = nw]
          /\ nw' = [table[bucket] EXCEPT !.dist = @ + 1]
      BY <1>4 DEF ProbeNext
    <2>2. nw'.live = TRUE /\ nw'.key = table[bucket].key
      BY <1>1, <2>1, SlotFields DEF Live
    <2>3. /\ \A b \in Live(table') \ {bucket} : b \in Live(table) /\ table'[b] = table[b]
          /\ table'[bucket] = nw /\ (bucket \in Live(table') => nw.live)
      BY <1>1, <2>1 DEF Live
    <2>4. Carrying <=> nw.live
      BY <1>1 DEF Carrying
    <2>5. OneSlotEach'
      BY <2>3, <2>4 DEF Distinct, OneSlotEach
    <2>6. \A b \in Live(table'), c \in Waiting : table'[b].key # old[c].key
      BY <2>3, <2>4 DEF Distinct
    <2>7. \A b \in Live(table') : table'[b].key # nw'.key
      BY <1>1, <2>2, <2>3, <2>4 DEF Distinct, OneSlotEach
    <2>8. \A c \in Waiting : old[c].key # nw'.key
      BY <1>1, <2>2 DEF Distinct
    <2> QED
      BY <1>1, <1>2, <2>5, <2>6, <2>7, <2>8 DEF Distinct
  <1> QED
    BY <1>3, <1>4

LEMMA PlaceDistinct ==
  ASSUME TableInv, Distinct, ProbePlace
  PROVE  Distinct'
  <1>1. /\ ctl = "probe" /\ ~(ctl' \in {"probe", "exit"}) /\ UNCHANGED <<old, scan>>
        /\ bucket \in DOMAIN table /\ bucket \notin Live(table)
        /\ table' = [table EXCEPT ![bucket] = nw]
    BY TableShape DEF ProbePlace, ProbeEnds, TableInv, TypeOK, Live
  <1>2. Waiting' = Waiting /\ ~Carrying'
    BY <1>1 DEF Waiting, Carrying
  <1>3. /\ \A b \in Live(table') \ {bucket} : b \in Live(table) /\ table'[b] = table[b]
        /\ table'[bucket] = nw /\ (bucket \in Live(table') => Carrying)
    BY <1>1 DEF Live, Carrying
  <1>4. OneSlotEach'
    BY <1>3 DEF Distinct, OneSlotEach
  <1>5. \A b \in Live(table'), c \in Waiting : table'[b].key # old[c].key
    BY <1>3 DEF Distinct
  <1>6. \A b, c \in Waiting : b # c => old'[b].key # old'[c].key
    BY <1>1 DEF Distinct
  <1>7. \A b \in Live(table'), c \in Waiting' : table'[b].key # old'[c].key
    BY <1>1, <1>2, <1>5
  <1> QED
    BY <1>2, <1>4, <1>6, <1>7 DEF Distinct

LEMMA UpsizeDistinct ==
  ASSUME TableInv, Distinct, Upsize
  PROVE  Distinct'
  <1>1. Live(table') = {}
    BY SlotFields DEF Upsize, Fresh, Live
  <1>2. old' = table /\ scan' = 0 /\ ctl' = "scan"
    BY DEF Upsize
  <1>3. Waiting' \subseteq Live(table)
    BY <1>2 DEF Waiting, Live
  <1> QED
    BY <1>1, <1>2, <1>3 DEF Distinct, OneSlotEach, Carrying

LEMMA OtherDistinct ==
  ASSUME TableInv, Distinct,
         \/ ProbeFull \/ AddEnds \/ UpsizeFails \/ ScanSkip \/ ScanEnds \/ Free
         \/ (\E k \in Keys : AddRefused(k)) \/ UNCHANGED vars
  PROVE  Distinct'
  <1>1. CASE ProbeFull \/ UNCHANGED vars
    BY <1>1 DEF ProbeFull, vars, locals, Distinct, OneSlotEach, Live, Waiting, Carrying
  <1>2. CASE AddEnds \/ UpsizeFails \/ \E k \in Keys : AddRefused(k)
    BY <1>2 DEF AddEnds, UpsizeFails, AddRefused, Returns, Distinct, OneSlotEach, Live, Waiting,
       Carrying
  <1>3. CASE ScanSkip
    <2>1. scan \in Nat /\ DOMAIN old \subseteq Nat
      BY TableAssumption DEF TableInv, TypeOK
    <2>2. Waiting' \subseteq Waiting
      BY <1>3, <2>1 DEF ScanSkip, Waiting
    <2> QED
      BY <1>3, <2>2 DEF ScanSkip, locals, Distinct, OneSlotEach, Carrying, Live
  <1>4. CASE ScanEnds
    <2>1. Waiting' = {}
      BY <1>4 DEF ScanEnds, Waiting
    <2> QED
      BY <1>4, <2>1 DEF ScanEnds, Returns, Distinct, OneSlotEach, Carrying, Live
  <1>5. CASE Free
    <2>1. Live(table') = {}
      BY <1>5 DEF Free, Live
    <2> QED
      BY <1>5, <2>1 DEF Free, Distinct, OneSlotEach, Carrying, Waiting
  <1> QED
    BY <1>1, <1>2, <1>3, <1>4, <1>5

LEMMA DistinctStep ==
  ASSUME "add" \notin Calls, NULL \notin Datas, TableInv, Distinct, [Next]_vars,
         ~\E k \in Keys : Remove(k) /\ Matches(k) # {}
  PROVE  TableInv' /\ Distinct'
  <1>1. CASE \E k \in Keys : \E d \in Datas : Add(k, d)
    BY <1>1, AddInv, AddDistinct
  <1>2. CASE ScanMove \/ ProbeNext \/ ProbePlace \/ Upsize
    BY <1>2, AddInv, ProbeInv, PlaceInv, OtherInv, ScanMoveDistinct, ProbeDistinct, PlaceDistinct,
       UpsizeDistinct
  <1>3. CASE ProbeFull \/ AddEnds \/ UpsizeFails \/ ScanSkip \/ ScanEnds \/ Free
             \/ (\E k \in Keys : AddRefused(k)) \/ UNCHANGED vars
    BY <1>3, OtherInv, OtherDistinct
  <1>4. CASE \E k \in Keys : Remove(k) /\ Matches(k) = {}
    <2>1. /\ ctl = "idle" /\ ctl' = "idle" /\ ret' = -1
          /\ UNCHANGED <<table, size, old, scan, count, maxdistance, nw, bucket, i>>
      BY <1>4 DEF Remove, Returns, locals
    <2>2. TypeOK' /\ Probing' /\ Growing'
      BY <2>1 DEF TableInv, TypeOK, Probing, Growing, Owned
    <2>3. Placed' /\ (\A b \in DOMAIN table : Owned(table[b]))'
      BY <2>1 DEF TableInv, Placed, Live, Owned, At, Home
    <2> QED
      BY <2>1, <2>2, <2>3 DEF TableInv, Distinct, OneSlotEach, Live, Waiting, Carrying
  <1> QED
    BY <1>1, <1>2, <1>3, <1>4 DEF Next, Step

(* Until something is taken out, elements lie where they belong.           *)
Unremoved ==
  /\ deleted = {} /\ ctl # "freed" => TableInv /\ Distinct
  /\ ctl = "freed" => Live(table) = {}

LEMMA UnremovedStep ==
  ASSUME "add" \notin Calls, NULL \notin Datas, Contents, Unremoved, [Next]_vars
  PROVE  Unremoved'
  <1>1. CASE \E k \in Keys : Remove(k) /\ Matches(k) # {}
    <2>1. PICK k \in Keys : Remove(k) /\ Matches(k) # {}
      BY <1>1
    <2>2. ctl = "idle" /\ ctl' = "idle" /\ deleted' = {table[BucketOf(k)].data} \ {NULL}
      BY <2>1 DEF Remove, Returns
    <2>3. table[BucketOf(k)].data \in Datas
      BY <2>1, <2>2, BucketIsLive DEF Contents, Bounded, Owned, Live
    <2>4. deleted' # {}
      BY <2>2, <2>3
    <2> QED
      BY <2>2, <2>4 DEF Unremoved
  <1>2. CASE Free
    <2>1. ctl' = "freed" /\ Live(table') = {}
      BY <1>2 DEF Free, Live
    <2> QED
      BY <2>1 DEF Unremoved, Live
  <1>3. CASE ~Free /\ ~\E k \in Keys : Remove(k) /\ Matches(k) # {}
    <2>1. CASE ctl = "freed"
      <3>1. UNCHANGED vars
        BY <1>3, <2>1 DEF Next, Step, ProbeNext, ProbePlace, ProbeFull, AddEnds, UpsizeFails, Upsize,
                          Keeps, ScanSkip, ScanMove, ScanEnds, AddRefused, Remove, Add
      <3> QED
        BY <2>1, <3>1 DEF Unremoved, vars, Live
    <2>2. CASE ctl # "freed"
      <3>1. ctl' # "freed" /\ deleted' = deleted
        BY <1>3, <2>2 DEF Next, Step, ProbeNext, ProbePlace, ProbeEnds, ProbeFull, AddEnds,
                          UpsizeFails, Upsize, ScanSkip, ScanMove, SwapDown, ScanEnds, AddRefused,
                          Remove, Add, Returns, vars
      <3> QED
        BY <1>3, <2>2, <3>1, DistinctStep DEF Unremoved
    <2> QED
      BY <2>1, <2>2
  <1> QED
    BY <1>1, <1>2, <1>3

(* rbhash_add_unique never adds a key twice before an element was removed, *)
(* provided that nobody adds a null pointer, which it takes for a key that *)
(* is not there.                                                           *)
THEOREM UniqueKeys ==
  ASSUME "add" \notin Calls, NULL \notin Datas
  PROVE  Spec => []KeysUnique
  <1>1. Init => Unremoved
    <2>1. Init => Distinct
      BY SlotFields DEF Init, Fresh, Distinct, OneSlotEach, Live, Waiting, Carrying
    <2> QED
      BY <2>1, InitTable DEF Init, Unremoved
  <1>2. Contents /\ Unremoved /\ [Next]_vars => Unremoved'
    BY UnremovedStep
  <1>3. Unremoved => KeysUnique
    BY DEF Unremoved, Distinct, OneSlotEach, KeysUnique
  <1> QED
    BY <1>1, <1>2, <1>3, ContentsAlways, PTL DEF Spec

-----------------------------------------------------------------------------
(* How many elements of a set A there are, in the tables and in the hands  *)
(* of rbhash_swapdown: adding one, removing one and freeing the table      *)
(* change that as they should, and no other step changes it, wherever it   *)
(* moves them.                                                             *)
Weight(s, A) == IF s.live /\ PairOf(s) \in A THEN 1 ELSE 0

LEMMA HeldParts ==
  ASSUME TypeOK, NEW A
  PROVE  /\ IsFiniteSet(Holding(table, A)) /\ Cardinality(Holding(table, A)) \in Nat
         /\ IsFiniteSet(Holding(Unmoved, A)) /\ Cardinality(Holding(Unmoved, A)) \in Nat
         /\ Holding(Unmoved, A) = {b \in Waiting : PairOf(old[b]) \in A}
         /\ Carried(A) = (IF ctl \in {"probe", "exit"} THEN Weight(nw, A) ELSE 0)
<1>1. PICK n \in Nat : DOMAIN table \subseteq 0 .. n - 1
  BY TableAssumption DEF TypeOK
<1>2. PICK m \in Nat : DOMAIN old \subseteq 0 .. m - 1
  BY TableAssumption DEF TypeOK
<1>3. IsFiniteSet(0 .. n - 1) /\ IsFiniteSet(0 .. m - 1)
  BY FS_Interval
<1>4. Holding(Unmoved, A) = {b \in Waiting : PairOf(old[b]) \in A}
  BY DEF Holding, Unmoved, Live, Waiting
<1>5. Holding(table, A) \subseteq 0 .. n - 1 /\ Holding(Unmoved, A) \subseteq 0 .. m - 1
  BY <1>1, <1>2, <1>4 DEF Holding, Live, Waiting
<1>6. IsFiniteSet(Holding(table, A)) /\ IsFiniteSet(Holding(Unmoved, A))
  BY <1>3, <1>5, FS_Subset
<1>7. Carried(A) = (IF ctl \in {"probe", "exit"} THEN Weight(nw, A) ELSE 0)
  BY DEF Carried, Weight
<1> QED
  BY <1>4, <1>6, <1>7, FS_CardinalityType

(* The element of slot b gives way to s.                                   *)
LEMMA Replaced ==
  ASSUME NEW t, NEW A, IsFiniteSet(Holding(t, A)), NEW b \in DOMAIN t, NEW s
  PROVE  /\ IsFiniteSet(Holding([t EXCEPT ![b] = s], A))
         /\ Cardinality(Holding([t EXCEPT ![b] = s], A)) =
              Cardinality(Holding(t, A)) + Weight(s, A) - Weight(t[b], A)
<1> DEFINE new == [t EXCEPT ![b] = s]
           here == Holding(t, A)
           n == Cardinality(Holding(t, A))
<1>1. Holding(new, A) = IF s.live /\ PairOf(s) \in A THEN here \cup {b} ELSE here \ {b}
  BY DEF Holding, Live
<1>2. b \in here <=> t[b].live /\ PairOf(t[b]) \in A
  BY DEF Holding, Live
<1> HIDE DEF new
<1>3. n \in Nat
  BY FS_CardinalityType
<1>4. Cardinality(here \cup {b}) = (IF b \in here THEN n ELSE n + 1) /\ IsFiniteSet(here \cup {b})
  BY FS_AddElement
<1>5. Cardinality(here \ {b}) = (IF b \in here THEN n - 1 ELSE n) /\ IsFiniteSet(here \ {b})
  BY FS_RemoveElement
<1> HIDE DEF here, n
<1>6. IsFiniteSet(Holding(new, A))
  BY <1>1, <1>4, <1>5
<1>7. Cardinality(Holding(new, A)) = n + Weight(s, A) - Weight(t[b], A)
  <2>1. CASE s.live /\ PairOf(s) \in A
    BY <1>1, <1>2, <1>3, <1>4, <2>1 DEF Weight
  <2>2. CASE ~(s.live /\ PairOf(s) \in A)
    BY <1>1, <1>2, <1>3, <1>5, <2>2 DEF Weight
  <2> QED
    BY <2>1, <2>2
<1> QED
  BY <1>6, <1>7 DEF new, n

LEMMA HeldTogether ==
  ASSUME NEW A, UNCHANGED <<table, old, scan>>, Carried(A)' = Carried(A)
  PROVE  Held(A)' = Held(A)
BY DEF Held, Holding, Live, Unmoved

LEMMA ProbeHeld ==
  ASSUME Contents, ProbeNext, NEW A
  PROVE  Held(A)' = Held(A)
<1>1. /\ ctl = "probe" /\ ctl' = "probe" /\ UNCHANGED <<old, scan>>
      /\ bucket \in DOMAIN table /\ nw \in Slot /\ table[bucket] \in Slot
  BY TableShape DEF ProbeNext, Contents, Bounded, TypeOK
<1>2. \A s \in Slot : Weight([s EXCEPT !.dist = s.dist + 1], A) = Weight(s, A)
  BY SlotFields DEF Weight, PairOf
<1>3. /\ IsFiniteSet(Holding(table, A)) /\ Cardinality(Holding(table, A)) \in Nat
      /\ Carried(A) = Weight(nw, A)
  BY <1>1, HeldParts DEF Contents, Bounded
<1>4. Carried(A)' = Weight(nw', A)
  BY <1>1 DEF Carried, Weight
<1>5. CASE ~Farther
  <2>1. table' = table /\ nw' = [nw EXCEPT !.dist = nw.dist + 1]
    BY <1>5 DEF ProbeNext
  <2> QED
    BY <1>1, <1>2, <1>3, <1>4, <2>1, HeldTogether
<1>6. CASE Farther
  <2>1. table' = [table EXCEPT ![bucket] = nw]
        /\ nw' = [table[bucket] EXCEPT !.dist = table[bucket].dist + 1]
    BY <1>6 DEF ProbeNext
  <2>2. Weight(nw', A) = Weight(table[bucket], A)
    BY <1>1, <1>2, <2>1
  <2>3. Cardinality(Holding(table', A)) =
          Cardinality(Holding(table, A)) + Weight(nw, A) - Weight(table[bucket], A)
    BY <1>1, <1>3, <2>1, Replaced
  <2>4. Weight(nw, A) \in {0, 1} /\ Weight(table[bucket], A) \in {0, 1}
    BY DEF Weight
  <2>5. Cardinality(Holding(table', A)) + Carried(A)' = Cardinality(Holding(table, A)) + Carried(A)
    BY <1>3, <1>4, <2>2, <2>3, <2>4
  <2>6. Cardinality(Holding(Unmoved, A)) \in Nat /\ Cardinality(Holding(Unmoved, A))' = Cardinality(Holding(Unmoved, A))
    BY <1>1, HeldParts DEF Contents, Bounded, Holding, Live, Unmoved
  <2>7. Held(A)' = Cardinality(Holding(table', A)) + Cardinality(Holding(Unmoved, A))' + Carried(A)'
    BY DEF Held, Holding, Live
  <2>8. Cardinality(Holding(table', A)) \in Int /\ Carried(A)' \in Int /\ Carried(A) \in Int
    BY <1>3, <1>4, <2>2, <2>3, <2>4
  <2> QED
    BY <1>3, <2>5, <2>6, <2>7, <2>8 DEF Held
<1> QED
  BY <1>5, <1>6

LEMMA PlaceHeld ==
  ASSUME Contents, ProbePlace, NEW A
  PROVE  Held(A)' = Held(A)
<1>1. /\ ctl = "probe" /\ ~(ctl' \in {"probe", "exit"}) /\ UNCHANGED <<old, scan>>
      /\ bucket \in DOMAIN table /\ ~table[bucket].live
      /\ table' = [table EXCEPT ![bucket] = nw]
  BY TableShape DEF ProbePlace, ProbeEnds, Contents, Bounded, TypeOK
<1>2. /\ IsFiniteSet(Holding(table, A)) /\ Cardinality(Holding(table, A)) \in Nat
      /\ Carried(A) = Weight(nw, A) /\ Cardinality(Holding(Unmoved, A)) \in Nat
  BY <1>1, HeldParts DEF Contents, Bounded
<1>3. Carried(A)' = 0 /\ Weight(table[bucket], A) = 0 /\ Weight(nw, A) \in {0, 1}
  BY <1>1 DEF Carried, Weight
<1>4. Cardinality(Holding(table', A)) = Cardinality(Holding(table, A)) + Weight(nw, A)
  <2>1. Cardinality(Holding(table', A)) =
          Cardinality(Holding(table, A)) + Weight(nw, A) - Weight(table[bucket], A)
    BY <1>1, <1>2, Replaced
  <2> QED
    BY <1>2, <1>3, <2>1
<1>5. Cardinality(Holding(Unmoved, A))' = Cardinality(Holding(Unmoved, A))
  BY <1>1 DEF Holding, Live, Unmoved
<1>6. Held(A)' = Cardinality(Holding(table', A)) + Cardinality(Holding(Unmoved, A))' + Carried(A)'
  BY DEF Held, Holding, Live
<1> QED
  BY <1>2, <1>3, <1>4, <1>5, <1>6 DEF Held

LEMMA ScanMoveHeld ==
  ASSUME Contents, ScanMove, NEW A
  PROVE  Held(A)' = Held(A)
<1>1. /\ ctl = "scan" /\ scan \in DOMAIN old /\ scan' = scan + 1 /\ ctl' = "probe"
      /\ nw' = [old[scan] EXCEPT !.dist = 0] /\ UNCHANGED <<table, old>>
  BY DEF ScanMove, SwapDown
<1>2. old[scan] \in Slot /\ scan \in Nat /\ DOMAIN old \subseteq Nat
  BY <1>1, TableAssumption DEF Contents, Bounded, TypeOK
<1>3. nw'.live = old[scan].live /\ PairOf(nw') = PairOf(old[scan])
  BY <1>1, <1>2, SlotFields DEF PairOf
<1>4. /\ IsFiniteSet(Holding(Unmoved, A)) /\ Cardinality(Holding(Unmoved, A)) \in Nat
      /\ Cardinality(Holding(table, A)) \in Nat
      /\ Holding(Unmoved, A) = {b \in Waiting : PairOf(old[b]) \in A} /\ Carried(A) = 0
  BY <1>1, HeldParts DEF Contents, Bounded
<1>5. Holding(Unmoved, A)' = Holding(Unmoved, A) \ {scan}
  <2>1. Holding(Unmoved, A)' = {b \in Waiting' : PairOf(old[b]) \in A}
    BY <1>1 DEF Holding, Live, Unmoved, Waiting, PairOf
  <2>2. Waiting' = Waiting \ {scan}
    BY <1>1, <1>2 DEF Waiting
  <2> QED
    BY <1>4, <2>1, <2>2
<1>6. scan \in Holding(Unmoved, A) <=> old[scan].live /\ PairOf(old[scan]) \in A
  BY <1>1, <1>2, <1>4 DEF Waiting
<1>7. Cardinality(Holding(Unmoved, A)') =
        IF old[scan].live /\ PairOf(old[scan]) \in A THEN Cardinality(Holding(Unmoved, A)) - 1
        ELSE Cardinality(Holding(Unmoved, A))
  BY <1>4, <1>5, <1>6, FS_RemoveElement
<1>8. Carried(A)' = IF old[scan].live /\ PairOf(old[scan]) \in A THEN 1 ELSE 0
  BY <1>1, <1>3 DEF Carried, PairOf
<1>9. Holding(table, A)' = Holding(table, A)
  BY <1>1 DEF Holding, Live, PairOf
<1> QED
  BY <1>4, <1>7, <1>8, <1>9 DEF Held

LEMMA UpsizeHeld ==
  ASSUME Contents, Upsize, NEW A
  PROVE  Held(A)' = Held(A)
<1>1. /\ ctl = "added" /\ ctl' = "scan" /\ old' = table /\ scan' = 0 /\ old = <<>>
  BY DEF Upsize, Keeps, Contents, Growing
<1>2. DOMAIN table \subseteq Nat
  BY <1>1, TableShape DEF Contents, Bounded
<1>3. Holding(table, A)' = {} /\ Holding(Unmoved, A) = {} /\ Carried(A) = 0 /\ Carried(A)' = 0
  BY <1>1, SlotFields DEF Upsize, Fresh, Live, Holding, Unmoved, Carried
<1>4. Holding(Unmoved, A)' = Holding(table, A)
  BY <1>1, <1>2 DEF Holding, Live, Unmoved, PairOf
<1>5. Cardinality(Holding(table, A)) \in Nat /\ Cardinality({}) = 0
  BY HeldParts, FS_EmptySet DEF Contents, Bounded
<1> QED
  BY <1>3, <1>4, <1>5 DEF Held

(* Every step but an add, a remove that finds its key and the free.        *)
LEMMA OthersHeld ==
  ASSUME StartsWithNul \cap Keys = {}, Contents, [Next]_vars, NEW A, ~Free,
         ~\E k \in Keys : \E d \in Datas : Add(k, d),
         ~\E k \in Keys : Remove(k) /\ Matches(k) # {}
  PROVE  Held(A)' = Held(A)
<1>1. CASE ScanMove \/ ProbeNext \/ ProbePlace \/ Upsize
  BY <1>1, ScanMoveHeld, ProbeHeld, PlaceHeld, UpsizeHeld
<1>2. CASE UNCHANGED vars \/ ProbeFull \/ AddEnds \/ UpsizeFails
           \/ \E k \in Keys : AddRefused(k) \/ (Remove(k) /\ Matches(k) = {})
  <2>1. UNCHANGED <<table, old, scan>>
    BY <1>2 DEF vars, ProbeFull, AddEnds, UpsizeFails, AddRefused, Remove
  <2>2. Carried(A)' = Carried(A)
    BY <1>2 DEF vars, locals, ProbeFull, AddEnds, UpsizeFails, AddRefused, Remove, Keeps, Returns,
                Carried, PairOf
  <2> QED
    BY <2>1, <2>2, HeldTogether
<1>3. CASE ScanSkip \/ ScanEnds
  <2>1. ctl = "scan" /\ ctl' \in {"scan", "idle"} /\ table' = table
    BY <1>3 DEF ScanSkip, ScanEnds, Returns
  <2>2. Carried(A) = 0 /\ Carried(A)' = 0 /\ Holding(table, A)' = Holding(table, A)
    BY <2>1 DEF Carried, Holding, Live, PairOf
  <2>3. Holding(Unmoved, A)' = Holding(Unmoved, A)
    <3>1. CASE ScanSkip
      <4>1. scan \in DOMAIN old /\ old[scan].key \notin Keys /\ scan' = scan + 1 /\ old' = old
        BY <3>1 DEF ScanSkip
      <4>2. ~old[scan].live
        BY <4>1 DEF Contents, Growing, Owned
      <4>3. scan \in Nat /\ DOMAIN old \subseteq Nat
        BY TableAssumption DEF Contents, Bounded, TypeOK
      <4>4. \A b \in DOMAIN old : b >= scan <=> b = scan \/ b >= scan'
        BY <4>1, <4>3
      <4> QED
        BY <4>1, <4>2, <4>4 DEF Holding, Live, Unmoved, PairOf
    <3>2. CASE ScanEnds
      <4>1. PICK n \in Nat : DOMAIN old = 0 .. n - 1
        BY <2>1, TableAssumption DEF Contents, Bounded, Growing, TypeOK
      <4>2. scan \in Nat /\ scan \notin 0 .. n - 1 /\ old' = <<>>
        BY <3>2, <4>1 DEF ScanEnds, Contents, Bounded, TypeOK
      <4>3. \A b \in DOMAIN old : ~(b >= scan)
        BY <4>1, <4>2
      <4> QED
        BY <4>2, <4>3 DEF Holding, Live, Unmoved
    <3> QED
      BY <1>3, <3>1, <3>2
  <2> QED
    BY <2>2, <2>3 DEF Held
<1> QED
  BY <1>1, <1>2, <1>3 DEF Next, Step

LEMMA AddHeld ==
  ASSUME Contents, NEW k \in Keys, NEW d \in Datas, Add(k, d), NEW A
  PROVE  Held(A)' = Held(A) + (IF <<k, d>> \in A THEN 1 ELSE 0)
<1>1. /\ ctl = "idle" /\ ctl' = "probe" /\ UNCHANGED <<table, old, scan>> /\ nw' = Element(k, d)
  BY DEF Add, SwapDown
<1>2. nw'.live = TRUE /\ PairOf(nw') = <<k, d>>
  BY <1>1, SlotFields DEF PairOf
<1>3. Carried(A) = 0 /\ Carried(A)' = IF <<k, d>> \in A THEN 1 ELSE 0
  BY <1>1, <1>2 DEF Carried, PairOf
<1>4. Holding(table, A)' = Holding(table, A) /\ Holding(Unmoved, A)' = Holding(Unmoved, A)
  BY <1>1 DEF Holding, Live, Unmoved, PairOf
<1>5. Cardinality(Holding(table, A)) \in Nat /\ Cardinality(Holding(Unmoved, A)) \in Nat
  BY HeldParts DEF Contents, Bounded
<1> QED
  BY <1>3, <1>4, <1>5 DEF Held

(* rbhash_remove takes out the element of that slot, and rbhash_swapup     *)
(* neither loses nor doubles the one it moves.                             *)
LEMMA RemoveHeld ==
  ASSUME Contents, NEW k \in Keys, Remove(k), Matches(k) # {}, NEW A
  PROVE  Held(A)' = Held(A) - Weight(table[BucketOf(k)], A)
<1>1. /\ ctl = "idle" /\ ctl' = "idle" /\ UNCHANGED <<old, scan>> /\ table' = SwapUp(BucketOf(k))
  BY DEF Remove, Returns
<1>2. size \in Nat \ {0} /\ table \in [0 .. size - 1 -> Slot] /\ DOMAIN table = 0 .. size - 1
  BY <1>1, TableShape DEF Contents, Bounded
<1>3. PICK b \in 0 .. size - 1 : b = BucketOf(k)
  BY <1>1, <1>2, BucketInTable DEF Contents, Bounded
<1>4. PICK n \in 0 .. size - 1 : n = Following(b)
  BY <1>2 DEF Following
<1>5. \A s \in Slot : Weight(Freed(s), A) = 0
  BY DEF Freed, Slot, Weight
<1>6. /\ IsFiniteSet(Holding(table, A)) /\ Cardinality(Holding(table, A)) \in Nat
      /\ Cardinality(Holding(Unmoved, A)) \in Nat
  BY HeldParts DEF Contents, Bounded
<1>7. \A s : Weight(s, A) \in {0, 1}
  BY DEF Weight
<1>8. Cardinality(Holding(table', A)) = Cardinality(Holding(table, A)) - Weight(table[b], A)
  <2>1. CASE n # b /\ table[n].live /\ table[n].dist # 0
    <3> DEFINE one == [table EXCEPT ![b] = table[n]]
    <3>1. /\ IsFiniteSet(Holding(one, A))
          /\ Cardinality(Holding(one, A)) =
               Cardinality(Holding(table, A)) + Weight(table[n], A) - Weight(table[b], A)
      BY <1>2, <1>6, Replaced
    <3>2. n \in DOMAIN one /\ one[n] = table[n]
      BY <1>2, <2>1
    <3>3. table' = [one EXCEPT ![n] = Freed(table[n])]
      BY <1>1, <1>2, <1>3, <1>4, <2>1 DEF SwapUp
    <3> HIDE DEF one
    <3>4. Cardinality(Holding(table', A)) =
            Cardinality(Holding(one, A)) + Weight(Freed(table[n]), A) - Weight(table[n], A)
      <4>1. Cardinality(Holding([one EXCEPT ![n] = Freed(table[n])], A)) =
              Cardinality(Holding(one, A)) + Weight(Freed(table[n]), A) - Weight(one[n], A)
        BY <3>1, <3>2, Replaced
      <4> QED
        BY <3>2, <3>3, <4>1
    <3>5. Weight(Freed(table[n]), A) = 0
      BY <1>2, <1>5
    <3> QED
      BY <1>6, <1>7, <3>1, <3>4, <3>5
  <2>2. CASE ~(n # b /\ table[n].live /\ table[n].dist # 0)
    <3>1. table' = [table EXCEPT ![b] = Freed(table[b])]
      BY <1>1, <1>3, <1>4, <2>2 DEF SwapUp
    <3>2. Cardinality(Holding(table', A)) =
            Cardinality(Holding(table, A)) + Weight(Freed(table[b]), A) - Weight(table[b], A)
      BY <1>2, <1>6, <3>1, Replaced
    <3>3. Weight(Freed(table[b]), A) = 0
      BY <1>2, <1>5
    <3> QED
      BY <1>6, <1>7, <3>2, <3>3
  <2> QED
    BY <2>1, <2>2
<1>9. Held(A)' = Cardinality(Holding(table', A)) + Cardinality(Holding(Unmoved, A))' + Carried(A)'
  BY DEF Held, Holding, Live
<1>10. /\ Cardinality(Holding(Unmoved, A))' = Cardinality(Holding(Unmoved, A))
       /\ Carried(A) = 0 /\ Carried(A)' = 0
  BY <1>1 DEF Holding, Live, Unmoved, Carried
<1>11. Held(A) = Cardinality(Holding(table, A)) + Cardinality(Holding(Unmoved, A)) + 0
  BY <1>10 DEF Held
<1>12. Weight(table[b], A) \in {0, 1}
  BY <1>7
<1> QED
  BY <1>3, <1>6, <1>8, <1>9, <1>10, <1>11, <1>12

-----------------------------------------------------------------------------
CarriedOne == IF Carrying THEN 1 ELSE 0

(* rbhash_add_hash counts an element when rbhash_swapdown has placed it.   *)
Uncounted == IF old = <<>> /\ ctl \in {"probe", "added", "exit"} THEN 1 ELSE 0

Counted ==
  ctl # "freed" => count \in Nat /\ Held(Keys \X Datas) = count + Uncounted

LEMMA HeldAll ==
  ASSUME Contents
  PROVE  /\ Held(Keys \X Datas) = Cardinality(Live(table)) + Cardinality(Waiting) + CarriedOne
         /\ Cardinality(Live(table)) \in Nat /\ Cardinality(Waiting) \in Nat
<1> DEFINE A == Keys \X Datas
<1>1. Holding(table, A) = Live(table)
  BY DEF Contents, Owned, Holding, Live, PairOf
<1>2. /\ Holding(Unmoved, A) = {b \in Waiting : PairOf(old[b]) \in A}
      /\ Cardinality(Holding(table, A)) \in Nat /\ Cardinality(Holding(Unmoved, A)) \in Nat
  BY HeldParts DEF Contents, Bounded
<1>3. Holding(Unmoved, A) = Waiting
  BY <1>2 DEF Contents, Growing, Owned, Waiting, PairOf
<1>4. Carried(A) = CarriedOne
  BY DEF Contents, Owned, Carried, CarriedOne, Carrying, PairOf
<1> HIDE DEF A
<1>5. Held(A) = Cardinality(Live(table)) + Cardinality(Waiting) + CarriedOne
  BY <1>1, <1>3, <1>4 DEF Held
<1> QED
  BY <1>1, <1>2, <1>3, <1>5 DEF A

LEMMA CountedStep ==
  ASSUME StartsWithNul \cap Keys = {}, Contents, Counted, [Next]_vars
  PROVE  Counted'
<1> DEFINE A == Keys \X Datas
<1> USE DEF Counted
<1>1. Contents'
  BY ContentsStep
<1>2. CASE Free
  BY <1>2 DEF Free
<1>3. CASE \E k \in Keys : \E d \in Datas : Add(k, d)
  <2>1. PICK k \in Keys, d \in Datas : Add(k, d)
    BY <1>3
  <2>2. Held(A)' = Held(A) + 1
    BY <2>1, AddHeld
  <2>3. ctl = "idle" /\ ctl' = "probe" /\ UNCHANGED <<old, count>> /\ old = <<>>
    BY <2>1 DEF Add, SwapDown, Contents, Growing
  <2>4. Uncounted = 0 /\ Uncounted' = 1
    BY <2>3 DEF Uncounted
  <2> HIDE DEF A
  <2>5. Held(A) = count + 0 /\ count \in Nat
    BY <2>3, <2>4 DEF A
  <2>6. Held(A)' = count' + Uncounted' /\ count' \in Nat
    BY <2>2, <2>3, <2>4, <2>5
  <2> QED
    BY <2>6 DEF A
<1>4. CASE \E k \in Keys : Remove(k) /\ Matches(k) # {}
  <2>1. PICK k \in Keys : Remove(k) /\ Matches(k) # {}
    BY <1>4
  <2>2. ctl = "idle" /\ ctl' = "idle" /\ count' = count - 1 /\ old' = old
    BY <2>1 DEF Remove, Returns
  <2>3. BucketOf(k) \in Live(table)
    BY <2>1, <2>2, BucketIsLive DEF Contents, Bounded
  <2>4. Weight(table[BucketOf(k)], A) = 1
    BY <2>3 DEF Weight, Live, Contents, Owned, PairOf
  <2>5. Held(A)' = Held(A) - 1
    BY <2>1, <2>4, RemoveHeld
  <2>6. Uncounted = 0 /\ Uncounted' = 0
    BY <2>2 DEF Uncounted
  <2>7. Held(A)' \in Nat
    <3>1. Cardinality(Live(table))' \in Nat /\ Cardinality(Waiting)' \in Nat
          /\ Held(A)' = Cardinality(Live(table))' + Cardinality(Waiting)' + CarriedOne'
      <4>1. (Contents => /\ Held(A) = Cardinality(Live(table)) + Cardinality(Waiting) + CarriedOne
                         /\ Cardinality(Live(table)) \in Nat /\ Cardinality(Waiting) \in Nat)'
        BY HeldAll, PTL
      <4> QED
        BY <1>1, <4>1
    <3>2. CarriedOne' \in Nat
      BY DEF CarriedOne
    <3> QED
      BY <3>1, <3>2
  <2> HIDE DEF A
  <2>8. Held(A) = count + 0 /\ count \in Nat
    BY <2>2, <2>6 DEF A
  <2>9. Held(A)' = count' + Uncounted' /\ count' \in Nat
    BY <2>2, <2>5, <2>6, <2>7, <2>8
  <2> QED
    BY <2>9 DEF A
<1>5. CASE ~Free /\ ~(\E k \in Keys : \E d \in Datas : Add(k, d))
           /\ ~\E k \in Keys : Remove(k) /\ Matches(k) # {}
  <2>1. Held(A)' = Held(A)
    BY <1>5, OthersHeld
  <2>2. ctl # "freed" => count' + Uncounted' = count + Uncounted /\ count' \in Nat
    <3>1. CASE AddEnds \/ UpsizeFails \/ Upsize
      <4>1. /\ ctl = "added" /\ ctl' \in {"idle", "scan"} /\ count' = count + 1 /\ old = <<>>
        BY <3>1 DEF AddEnds, UpsizeFails, Upsize, Keeps, Returns, Contents, Growing
      <4>2. Uncounted = 1 /\ Uncounted' = 0 /\ count \in Nat
        BY <4>1 DEF Uncounted
      <4> QED
        BY <4>1, <4>2
    <3>2. CASE ProbePlace \/ ProbeNext \/ ProbeFull \/ UNCHANGED vars
      <4>1. /\ UNCHANGED <<count, old>>
            /\ ctl' = ctl \/ (ctl = "probe" /\ ctl' = "exit")
               \/ (ctl = "probe" /\ ctl' = IF old = <<>> THEN "added" ELSE "scan")
        BY <3>2 DEF ProbePlace, ProbeEnds, ProbeNext, ProbeFull, vars
      <4> QED
        BY <4>1 DEF Uncounted
    <3>3. CASE ScanMove \/ ScanSkip \/ ScanEnds \/ \E k \in Keys : AddRefused(k) \/ Remove(k)
      <4>1. /\ ctl \in {"scan", "idle"} /\ count' = count
            /\ (ctl' = "probe" => old' # <<>>) /\ ctl' \in {"scan", "idle", "probe"}
        BY <1>5, <3>3 DEF ScanMove, SwapDown, ScanSkip, ScanEnds, AddRefused, Remove, Returns
      <4> QED
        BY <4>1 DEF Uncounted
    <3> QED
      BY <1>5, <3>1, <3>2, <3>3 DEF Next, Step
  <2>3. ctl' # "freed" => ctl # "freed"
    BY <1>5 DEF Next, Step, ProbePlace, ProbeNext, ProbeFull, AddEnds, UpsizeFails, Upsize, Keeps,
                ScanMove, ScanSkip, ScanEnds, AddRefused, Remove, vars
  <2> HIDE DEF A
  <2>4. Held(A)' = Held(A) /\ (ctl # "freed" => Held(A) = count + Uncounted)
    BY <2>1 DEF A
  <2>5. ctl' # "freed" => count' \in Nat /\ Held(A)' = count' + Uncounted'
    BY <2>2, <2>3, <2>4
  <2> QED
    BY <2>5 DEF A
<1> QED
  BY <1>2, <1>3, <1>4, <1>5

LEMMA InitCounted == Init => Counted
<1> SUFFICES ASSUME Init PROVE Counted
  OBVIOUS
<1>1. Live(table) = {} /\ Waiting = {}
  BY SlotFields DEF Init, Fresh, Live, Waiting
<1>2. Cardinality({}) = 0
  BY FS_EmptySet
<1>3. CarriedOne = 0 /\ Uncounted = 0 /\ count = 0
  BY DEF Init, CarriedOne, Carrying, Uncounted
<1> QED
  BY <1>1, <1>2, <1>3, InitContents, HeldAll DEF Counted

LEMMA CountedAlways ==
  ASSUME StartsWithNul \cap Keys = {}
  PROVE  Spec => []Counted
<1>1. Init => Counted
  BY InitCounted
<1>2. Contents /\ Counted /\ [Next]_vars => Counted'
  BY CountedStep
<1> QED
  BY <1>1, <1>2, ContentsAlways, PTL DEF Spec

(* Between calls count is the number of elements in the table, whatever    *)
(* was removed and whatever allocations failed, provided that no key       *)
(* starts with a NUL character, which rbhash_upsize takes for a free slot. *)
THEOREM CountIsRight ==
  ASSUME StartsWithNul \cap Keys = {}
  PROVE  Spec => []CountsLive
<1>1. Contents /\ Counted => CountsLive
  <2> SUFFICES ASSUME Contents, Counted, ctl = "idle" PROVE count = Cardinality(Live(table))
    BY DEF CountsLive
  <2>1. old = <<>>
    BY DEF Contents, Growing
  <2>2. Waiting = {} /\ CarriedOne = 0 /\ Uncounted = 0
    BY <2>1 DEF Waiting, CarriedOne, Carrying, Uncounted
  <2>3. Cardinality({}) = 0
    BY FS_EmptySet
  <2> QED
    BY <2>2, <2>3, HeldAll DEF Counted
<1> QED
  BY <1>1, ContentsAlways, CountedAlways, PTL

-----------------------------------------------------------------------------
(* Every element has a slot of its own.                                    *)
LEMMA CountFits ==
  ASSUME Contents, Counted, ctl \in {"idle", "added"}
  PROVE  /\ count \in Nat /\ size \in Nat \ {0} /\ old = <<>>
         /\ count + (IF ctl = "added" THEN 1 ELSE 0) <= size
<1>1. size \in Nat \ {0} /\ DOMAIN table = 0 .. size - 1 /\ old = <<>> /\ count \in Nat
  BY TableShape DEF Contents, Growing, Bounded, TypeOK, Counted
<1>2. Waiting = {} /\ CarriedOne = 0 /\ Uncounted = IF ctl = "added" THEN 1 ELSE 0
  BY <1>1 DEF Waiting, CarriedOne, Carrying, Uncounted
<1>3. Cardinality({}) = 0
  BY FS_EmptySet
<1>4. Cardinality(Live(table)) = count + (IF ctl = "added" THEN 1 ELSE 0)
  BY <1>1, <1>2, <1>3, HeldAll DEF Counted
<1>5. Live(table) \subseteq 0 .. size - 1
  BY <1>1 DEF Live
<1>6. IsFiniteSet(0 .. size - 1) /\ Cardinality(0 .. size - 1) = size
  BY <1>1, FS_Interval
<1>7. Cardinality(Live(table)) <= size
  BY <1>5, <1>6, FS_Subset
<1> QED
  BY <1>1, <1>4, <1>7

(* An add that finds every slot in use ends the process (ProbeFull). The   *)
(* slots that rbhash_swapdown has seen in this call are in use, except for *)
(* one that took garbage of an old table, for an element carried since;    *)
(* so at most count of the size slots can ever be seen. And where some     *)
(* share is to be kept free, the slots are all in use only when the growth *)
(* that had to follow the last add has failed.                             *)

Back(b, d) == IF b - d >= 0 THEN b - d ELSE b - d + size

Warned == MallocFails /\ ret = -1 /\ old = <<>>

Room ==
  /\ ctl \in {"idle", "probe", "scan"} => count < size \/ Warned
  /\ ctl = "exit" => Warned

Seen ==
  ctl = "probe" =>
    /\ old = <<>> => Carrying
    /\ \E x \in Int : \A d \in 1 .. i :
         table[Back(bucket, d)].live \/ (Back(bucket, d) = x /\ Carrying /\ old # <<>>)

LEMMA BackFollowing ==
  ASSUME size \in Nat \ {0}, NEW b \in 0 .. size - 1
  PROVE  /\ \A d \in 1 .. size : Back(b, d) \in 0 .. size - 1
         /\ Back(Following(b), 1) = b
         /\ \A d \in 1 .. size - 1 : Back(Following(b), d + 1) = Back(b, d)
         /\ \A c \in 0 .. size - 1 : \E d \in 1 .. size : Back(b, d) = c
<1>1. ASSUME NEW c \in 0 .. size - 1 PROVE \E d \in 1 .. size : Back(b, d) = c
  <2>1. CASE c < b
    <3>1. b - c \in 1 .. size /\ Back(b, b - c) = c
      BY <2>1 DEF Back
    <3> QED
      BY <3>1
  <2>2. CASE c >= b
    <3>1. b - c + size \in 1 .. size /\ Back(b, b - c + size) = c
      BY <2>2 DEF Back
    <3> QED
      BY <3>1
  <2> QED
    BY <2>1, <2>2
<1>2. Back(Following(b), 1) = b
  BY DEF Back, Following
<1>3. \A d \in 1 .. size - 1 : Back(Following(b), d + 1) = Back(b, d)
  BY DEF Back, Following
<1>4. \A d \in 1 .. size : Back(b, d) \in 0 .. size - 1
  BY DEF Back
<1> QED
  BY <1>1, <1>2, <1>3, <1>4

LEMMA SpareType ==
  ASSUME NEW n \in Nat
  PROVE  Spare(n) \in Nat \ {0}
<1>1. \A p \in Nat : p \div 100 + 1 \in Nat \ {0}
  OBVIOUS
<1>2. n * Min \in Nat
  BY TableAssumption
<1> HIDE DEF Spare
<1> QED
  BY <1>1, <1>2 DEF Spare

(* Where an element has no slot yet and there is one, it is met.           *)
LEMMA NeverFull ==
  ASSUME Contents, Counted, Seen, count < size
  PROVE  ~ProbeFull
<1> SUFFICES ASSUME ProbeFull PROVE FALSE
  OBVIOUS
<1>1. /\ ctl = "probe" /\ i = size /\ size \in Nat \ {0} /\ DOMAIN table = 0 .. size - 1
      /\ bucket \in 0 .. size - 1 /\ count < size /\ count \in Nat
  BY TableShape DEF ProbeFull, Contents, Bounded, TypeOK, Counted
<1>2. PICK x \in Int : \A d \in 1 .. size :
        table[Back(bucket, d)].live \/ (Back(bucket, d) = x /\ Carrying /\ old # <<>>)
  BY <1>1 DEF Seen
<1>3. \A b \in 0 .. size - 1 : b \in Live(table) \/ (b = x /\ Carrying /\ old # <<>>)
  <2>1. \A b \in 0 .. size - 1 : \E d \in 1 .. size : Back(bucket, d) = b
    BY <1>1, BackFollowing
  <2> SUFFICES ASSUME NEW b \in 0 .. size - 1
               PROVE  b \in Live(table) \/ (b = x /\ Carrying /\ old # <<>>)
    OBVIOUS
  <2>2. PICK d \in 1 .. size : Back(bucket, d) = b
    BY <2>1
  <2>3. table[b].live \/ (b = x /\ Carrying /\ old # <<>>)
    BY <1>2, <2>2
  <2> QED
    BY <1>1, <2>3 DEF Live
<1>4. /\ Cardinality(Live(table)) \in Nat /\ Cardinality(Waiting) \in Nat
      /\ Cardinality(Live(table)) + Cardinality(Waiting) + CarriedOne = count + Uncounted
  BY <1>1, HeldAll DEF Counted
<1>5. IsFiniteSet(0 .. size - 1) /\ Cardinality(0 .. size - 1) = size
  BY <1>1, FS_Interval
<1>6. Live(table) \subseteq 0 .. size - 1
  BY <1>1 DEF Live
<1>7. CASE 0 .. size - 1 \subseteq Live(table)
  <2>1. Cardinality(Live(table)) = size
    BY <1>5, <1>6, <1>7
  <2>2. CarriedOne \in Nat /\ (old = <<>> => CarriedOne = 1)
    BY <1>1 DEF Seen, CarriedOne
  <2>3. Uncounted = IF old = <<>> THEN 1 ELSE 0
    BY <1>1 DEF Uncounted
  <2> QED
    BY <1>1, <1>4, <2>1, <2>2, <2>3
<1>8. CASE ~(0 .. size - 1 \subseteq Live(table))
  <2>1. x \in 0 .. size - 1 /\ Carrying /\ old # <<>> /\ Live(table) = (0 .. size - 1) \ {x}
    BY <1>3, <1>6, <1>8
  <2>2. Cardinality(Live(table)) = size - 1
    BY <1>5, <2>1, FS_RemoveElement
  <2>3. CarriedOne = 1 /\ Uncounted = 0
    BY <2>1 DEF CarriedOne, Uncounted
  <2> QED
    BY <1>1, <1>4, <2>2, <2>3
<1> QED
  BY <1>7, <1>8

LEMMA SeenProbe ==
  ASSUME Contents, Seen, ProbeNext
  PROVE  Seen'
<1>1. /\ ctl = "probe" /\ ctl' = "probe" /\ UNCHANGED <<old, size>> /\ i' = i + 1
      /\ i \in 0 .. size - 1 /\ bucket' = Following(bucket)
      /\ size \in Nat \ {0} /\ DOMAIN table = 0 .. size - 1 /\ bucket \in 0 .. size - 1
      /\ nw \in Slot /\ table[bucket] \in Slot /\ table[bucket].live
  BY TableShape DEF ProbeNext, Contents, Bounded, TypeOK
<1>2. PICK x \in Int : \A d \in 1 .. i :
        table[Back(bucket, d)].live \/ (Back(bucket, d) = x /\ Carrying /\ old # <<>>)
  BY <1>1 DEF Seen
<1>3. /\ \A d \in 1 .. i : Back(bucket, d) \in 0 .. size - 1
      /\ \A d \in 2 .. i + 1 : d - 1 \in 1 .. i /\ Back(bucket', d) = Back(bucket, d - 1)
      /\ Back(bucket', 1) = bucket
  <2>1. \A d \in 2 .. i + 1 : d - 1 \in 1 .. size - 1 /\ d - 1 \in 1 .. i /\ (d - 1) + 1 = d
    BY <1>1
  <2>2. /\ \A d \in 1 .. size : Back(bucket, d) \in 0 .. size - 1
        /\ Back(Following(bucket), 1) = bucket
        /\ \A d \in 1 .. size - 1 : Back(Following(bucket), d + 1) = Back(bucket, d)
    BY <1>1, BackFollowing
  <2>3. \A d \in 2 .. i + 1 : Back(Following(bucket), d) = Back(bucket, d - 1)
    BY <2>1, <2>2
  <2>4. \A d \in 1 .. i : d \in 1 .. size
    BY <1>1
  <2> QED
    BY <1>1, <2>1, <2>2, <2>3, <2>4
<1>4. ASSUME NEW y \in Int, old = <<>> => Carrying',
             table'[bucket].live \/ (bucket = y /\ Carrying' /\ old # <<>>),
             \A d \in 1 .. i : table'[Back(bucket, d)].live
                                \/ (Back(bucket, d) = y /\ Carrying' /\ old # <<>>)
      PROVE  Seen'
  <2>1. \A d \in 1 .. i + 1 : d = 1 \/ d \in 2 .. i + 1
    BY <1>1
  <2>2. \A d \in 1 .. i + 1 : table'[Back(bucket', d)].live
                              \/ (Back(bucket', d) = y /\ Carrying' /\ old # <<>>)
    BY <1>3, <1>4, <2>1
  <2>3. \A d \in 1 .. i' : (table[Back(bucket, d)].live)'
                          \/ ((Back(bucket, d))' = y /\ Carrying' /\ old' # <<>>)
    BY <1>1, <2>2 DEF Back
  <2> QED
    BY <1>1, <1>4, <2>3 DEF Seen
<1>5. CASE ~Farther
  <2>1. table' = table /\ nw' = [nw EXCEPT !.dist = @ + 1]
    BY <1>5 DEF ProbeNext
  <2>2. Carrying' = Carrying
    BY <1>1, <2>1, SlotFields DEF Carrying
  <2> QED
    BY <1>1, <1>2, <1>4, <2>1, <2>2 DEF Seen
<1>6. CASE Farther
  <2>1. table' = [table EXCEPT ![bucket] = nw] /\ nw' = [table[bucket] EXCEPT !.dist = @ + 1]
    BY <1>6 DEF ProbeNext
  <2>2. Carrying'
    BY <1>1, <2>1, SlotFields DEF Carrying
  <2>3. table'[bucket] = nw /\ \A b \in 0 .. size - 1 : b = bucket \/ table'[b] = table[b]
    BY <1>1, <2>1
  <2>4. CASE nw.live
    <3>1. \A d \in 1 .. i : table'[Back(bucket, d)].live
                            \/ (Back(bucket, d) = x /\ Carrying' /\ old # <<>>)
      BY <1>2, <1>3, <2>2, <2>3, <2>4
    <3> QED
      BY <1>4, <2>2, <2>3, <2>4, <3>1
  <2>5. CASE ~nw.live
    <3>1. ~Carrying /\ old # <<>> /\ bucket \in Int
      BY <1>1, <2>5 DEF Carrying, Seen
    <3>2. \A d \in 1 .. i : table'[Back(bucket, d)].live
                            \/ (Back(bucket, d) = bucket /\ Carrying' /\ old # <<>>)
      BY <1>2, <1>3, <2>2, <2>3, <3>1
    <3> QED
      BY <1>4, <2>2, <3>1, <3>2
  <2> QED
    BY <2>4, <2>5
<1> QED
  BY <1>5, <1>6

LEMMA RoomStep ==
  ASSUME Min # 0, Contents, Counted, Room, Seen, [Next]_vars
  PROVE  Room' /\ Seen'
<1>1. CASE \E k \in Keys : \E d \in Datas : Add(k, d)
  <2>1. PICK k \in Keys, d \in Datas : Add(k, d)
    BY <1>1
  <2>2. /\ ctl = "idle" /\ ctl' = "probe" /\ nw' = Element(k, d) /\ i' = 0
        /\ UNCHANGED <<count, size, ret, old>>
    BY <2>1 DEF Add, SwapDown
  <2>3. Carrying' /\ 1 .. i' = {} /\ 0 \in Int
    BY <2>2, SlotFields DEF Carrying
  <2> QED
    BY <2>2, <2>3 DEF Room, Warned, Seen
<1>2. CASE ScanMove
  <2>1. /\ ctl = "scan" /\ ctl' = "probe" /\ i' = 0 /\ old # <<>> /\ UNCHANGED <<count, size, old, ret>>
    BY <1>2 DEF ScanMove, SwapDown, Contents, Growing
  <2>2. 1 .. i' = {} /\ 0 \in Int
    BY <2>1
  <2> QED
    BY <2>1, <2>2 DEF Room, Warned, Seen
<1>3. CASE ProbeNext
  <2>1. UNCHANGED <<ctl, count, size, old, ret>>
    BY <1>3 DEF ProbeNext
  <2> QED
    BY <1>3, <2>1, SeenProbe DEF Room, Warned
<1>4. CASE AddEnds
  <2>1. ctl' = "idle" /\ size > count' + Spare(size) /\ size' = size
    BY <1>4 DEF AddEnds, Enough, Returns
  <2>2. count' = count + 1 /\ count \in Nat /\ size \in Nat /\ ctl = "added"
    BY <1>4, TableShape DEF AddEnds, Keeps, Counted, Contents, Bounded
  <2>3. Spare(size) \in Nat \ {0}
    BY <2>2, SpareType
  <2> QED
    BY <2>1, <2>2, <2>3 DEF Room, Seen
<1>5. CASE Upsize
  <2>1. ctl = "added" /\ ctl' = "scan" /\ count' = count + 1 /\ size' >= size + Spare(size) /\ size' \in Nat
    BY <1>5, TableAssumption DEF Upsize, Keeps, RoundUp
  <2>2. count \in Nat /\ size \in Nat /\ count + 1 <= size
    BY <2>1, CountFits
  <2>3. Spare(size) \in Nat \ {0}
    BY <2>2, SpareType
  <2> QED
    BY <2>1, <2>2, <2>3 DEF Room, Seen
<1>6. CASE ProbePlace \/ ScanSkip \/ ScanEnds
  BY <1>6 DEF ProbePlace, ProbeEnds, ScanSkip, ScanEnds, Returns, Contents, Growing, Room, Warned, Seen
<1>7. CASE Free \/ \E k \in Keys : AddRefused(k)
  BY <1>7 DEF Free, AddRefused, Returns, Room, Warned, Seen
<1>8. CASE UNCHANGED vars
  BY <1>8 DEF vars, locals, Carrying, Back, Room, Warned, Seen
<1>9. CASE \E k \in Keys : Remove(k)
  <2>1. /\ ctl = "idle" /\ ctl' = "idle" /\ UNCHANGED <<size, old>>
        /\ (count' = count /\ ret' = -1) \/ count' = count - 1
    BY <1>9 DEF Remove, Returns
  <2>2. count \in Nat /\ size \in Nat /\ count <= size
    BY <2>1, CountFits
  <2> QED
    BY <2>1, <2>2 DEF Room, Warned, Seen
<1>10. CASE UpsizeFails
  <2>1. ctl = "added" /\ ctl' = "idle" /\ ret' = -1 /\ MallocFails /\ old' = old
    BY <1>10 DEF UpsizeFails, Keeps, Returns
  <2> QED
    BY <2>1, CountFits DEF Room, Warned, Seen
<1>11. CASE ProbeFull
  <2>1. ctl = "probe" /\ ctl' = "exit" /\ UNCHANGED <<old, ret>> /\ ~(count < size)
    BY <1>11, NeverFull DEF ProbeFull
  <2> QED
    BY <2>1 DEF Room, Warned, Seen
<1> QED
  BY <1>1, <1>2, <1>3, <1>4, <1>5, <1>6, <1>7, <1>8, <1>9, <1>10, <1>11 DEF Next, Step

(* Where a share is to be kept free, rbhash_add ends the process only right *)
(* after a call that returned -1, and rbhash_upsize never does: it finds a  *)
(* slot for every element, and for the garbage, that it moves.              *)
THEOREM AddFindsRoom ==
  ASSUME StartsWithNul \cap Keys = {}
  PROVE  Spec => []ExitsForewarned
<1>1. CASE Min = 0
  <2>1. ExitsForewarned
    BY <1>1 DEF ExitsForewarned
  <2> QED
    BY <2>1, PTL
<1>2. CASE Min # 0
  <2>1. Init => Room /\ Seen
    BY TableAssumption DEF Init, Room, Seen
  <2>2. Contents /\ Counted /\ Room /\ Seen /\ [Next]_vars => Room' /\ Seen'
    BY <1>2, RoomStep
  <2>3. Room => ExitsForewarned
    BY DEF Room, Warned, ExitsForewarned
  <2> QED
    BY <2>1, <2>2, <2>3, ContentsAlways, CountedAlways, PTL DEF Spec
<1> QED
  BY <1>1, <1>2

(* With less than half of the table to be kept free, a growth makes room   *)
(* enough even when the ones before it failed.                             *)
Settled ==
  \/ ctl = "scan" \/ (ctl = "probe" /\ old # <<>>)
  \/ ctl = "idle" /\ call # <<>> /\ ret = 0
  => size - count > Share(size)

LEMMA HalfShare ==
  ASSUME 2 * Min < 100, NEW s \in Nat \ {0}, NEW r \in Nat, 2 * s <= r
  PROVE  r - Share(r) > s
  <1>1. Min \in 0 .. 100
    BY TableAssumption
  <1>2. PICK a \in Nat : a = r * Min
    BY <1>1
  <1>3. 2 * a <= 99 * r
    <2>1. r * (99 - 2 * Min) >= 0 /\ r * (99 - 2 * Min) = 99 * r - 2 * (r * Min)
      BY <1>1
    <2> QED
      BY <1>2, <2>1
  <1>4. Share(r) = a \div 100
    BY <1>2 DEF Share
  <1> QED
    BY <1>2, <1>3, <1>4

LEMMA SettledStep ==
  ASSUME Min # 0, 2 * Min < 100, \A r, s \in Sizes : r < s => 2 * r <= s,
         Contents, Counted, Settled, [Next]_vars
  PROVE  Settled'
  <1>1. size \in Sizes /\ size \in Nat \ {0}
    BY TableAssumption DEF Contents, Bounded, TypeOK
  <1>2. CASE AddEnds
    <2>1. ctl' = "idle" /\ size' = size /\ size > count' + Spare(size) /\ count' \in Int
      BY <1>2, CountFits DEF AddEnds, Enough, Keeps, Returns
    <2>2. Spare(size) = Share(size) + 1 /\ Share(size)' = Share(size)
      BY <2>1 DEF Spare, Share
    <2>3. Share(size) \in Int
      <3>1. \A n \in Int : n \div 100 \in Int
        OBVIOUS
      <3> QED
        BY <1>1, <3>1, TableAssumption DEF Share
    <2> QED
      BY <1>1, <2>1, <2>2, <2>3 DEF Settled
  <1>3. CASE Upsize
    <2>1. size' \in Sizes /\ size' \in Nat /\ size' >= size + Spare(size) /\ count' = count + 1
          /\ ctl = "added"
      BY <1>3, TableAssumption DEF Upsize, RoundUp, Keeps
    <2>2. Spare(size) \in Nat \ {0}
      BY <1>1, SpareType
    <2>3. 2 * size <= size' /\ count' <= size /\ count' \in Int
      BY <1>1, <2>1, <2>2, CountFits
    <2>4. size' - Share(size') > size
      BY <1>1, <2>1, <2>3, HalfShare
    <2>5. Share(size') \in Int /\ Share(size)' = Share(size')
      BY <2>1, TableAssumption DEF Share
    <2> QED
      BY <1>1, <2>1, <2>3, <2>4, <2>5 DEF Settled
  <1>4. CASE UpsizeFails \/ Free \/ (\E k \in Keys : AddRefused(k) \/ Remove(k))
    BY <1>4 DEF UpsizeFails, Free, AddRefused, Remove, Returns, Settled
  <1>5. ASSUME UNCHANGED <<count, size>>,
               \/ ctl' \in {"added", "exit"}
               \/ ctl' = ctl /\ UNCHANGED <<old, call, ret>>
               \/ ctl' = "probe" /\ ctl = "idle" /\ old' = <<>>
               \/ ctl' \in {"probe", "idle"} /\ ctl = "scan"
               \/ ctl' = "scan" /\ ctl = "probe" /\ old # <<>>
        PROVE  Settled'
    <2>1. Share(size)' = Share(size)
      BY <1>5 DEF Share
    <2> QED
      BY <1>5, <2>1 DEF Settled
  <1>6. CASE ProbeNext \/ ProbePlace \/ ProbeFull \/ ScanSkip \/ ScanMove \/ ScanEnds
             \/ (\E k \in Keys : \E d \in Datas : Add(k, d)) \/ UNCHANGED vars
    BY <1>5, <1>6 DEF ProbeNext, ProbePlace, ProbeEnds, ProbeFull, ScanSkip, ScanMove, ScanEnds, Returns,
                      SwapDown, Add, vars, Contents, Growing
  <1> QED
    BY <1>2, <1>3, <1>4, <1>6 DEF Next, Step

(* When rbhash_add returns 0 the share is free: for tables of two slots or *)
(* more besides the share, the sizes of which are powers of two or at      *)
(* least as far apart.                                                     *)
THEOREM ShareStaysFree ==
  ASSUME StartsWithNul \cap Keys = {},
         \A r, s \in Sizes : r < s => 2 * r <= s,
         \A s \in Sizes : s - (s * Min) \div 100 >= 2
  PROVE  Spec => []KeepsMin
  <1>1. CASE Min = 0 \/ ~(MallocFails => 2 * Min < 100)
    <2>1. KeepsMin
      BY <1>1 DEF KeepsMin
    <2> QED
      BY <2>1, PTL
  <1>2. CASE MallocFails = FALSE /\ Min # 0
    <2>1. Init => Kept
      BY DEF Init, Kept
    <2>2. Bounded /\ Kept /\ [Next]_vars => Kept'
      BY <1>2, KeptStep DEF Share
    <2>3. ASSUME Bounded, Kept PROVE KeepsMin
      <3>1. size \in Nat /\ count \in Int /\ size - (size * Min) \div 100 >= 2
        BY <2>3, TableAssumption DEF Bounded, TypeOK
      <3>2. (size * Min) \div 100 \in Int
        <4>1. \A n \in Int : n \div 100 \in Int
          OBVIOUS
        <4> QED
          BY <3>1, <4>1, TableAssumption
      <3>3. ~(count > 0) => size - count > (size * Min) \div 100
        BY <3>1, <3>2
      <3> QED
        BY <2>3, <3>3 DEF Kept, KeepsMin, Share
    <2> QED
      BY <2>1, <2>2, <2>3, BoundedAlways, PTL DEF Spec
  <1>3. CASE Min # 0 /\ 2 * Min < 100
    <2>1. Init => Settled
      BY DEF Init, Settled
    <2>2. Contents /\ Counted /\ Settled /\ [Next]_vars => Settled'
      BY <1>3, SettledStep
    <2>3. Settled => KeepsMin
      BY DEF Settled, KeepsMin, Share
    <2> QED
      BY <2>1, <2>2, <2>3, ContentsAlways, CountedAlways, PTL DEF Spec
  <1> QED
    BY <1>1, <1>2, <1>3, TableAssumption

-----------------------------------------------------------------------------
(* The collection.                                                         *)
(* A slot that is not in use is known as free by the first character of    *)
(* its key, or was freed by rbhash_remove: free deletes no data of it.     *)
Clean(s) == ~s.live => s.key \in StartsWithNul \/ s.data = NULL

Cleared ==
  /\ \A b \in DOMAIN table : Clean(table[b])
  /\ \A b \in DOMAIN old : Clean(old[b])
  /\ ctl \in {"probe", "exit"} => Clean(nw)

LEMMA ClearedStep ==
  ASSUME \A s \in Fill : s.key \in StartsWithNul, Contents, Cleared, [Next]_vars
  PROVE  Cleared'
<1>1. CASE \E k \in Keys : \E d \in Datas : Add(k, d)
  BY <1>1, SlotFields DEF Add, SwapDown, Cleared, Clean
<1>2. CASE ScanMove
  <2>1. /\ scan \in DOMAIN old /\ old[scan] \in Slot
        /\ nw' = [old[scan] EXCEPT !.dist = 0] /\ UNCHANGED <<table, old>>
    BY <1>2, TableAssumption DEF ScanMove, SwapDown, Contents, Bounded, TypeOK
  <2> QED
    BY <2>1, SlotFields DEF Cleared, Clean
<1>3. CASE ProbeNext
  <2>1. /\ ctl = "probe" /\ bucket \in DOMAIN table /\ UNCHANGED old
        /\ nw \in Slot /\ table[bucket] \in Slot
    BY <1>3, TableShape DEF ProbeNext, Contents, Bounded, TypeOK
  <2>2. table' = table \/ table' = [table EXCEPT ![bucket] = nw]
    BY <1>3 DEF ProbeNext
  <2>3. nw' = [nw EXCEPT !.dist = nw.dist + 1]
        \/ nw' = [table[bucket] EXCEPT !.dist = table[bucket].dist + 1]
    BY <1>3 DEF ProbeNext
  <2>4. /\ nw.dist + 1 \in Nat /\ table[bucket].dist + 1 \in Nat
        /\ Clean(nw) /\ Clean(table[bucket])
    BY <2>1, SlotFields DEF Cleared
  <2>5. Clean(nw')
    <3>1. CASE nw' = [nw EXCEPT !.dist = nw.dist + 1]
      BY <2>1, <2>4, <3>1, SlotFields DEF Clean
    <3>2. CASE nw' = [table[bucket] EXCEPT !.dist = table[bucket].dist + 1]
      BY <2>1, <2>4, <3>2, SlotFields DEF Clean
    <3> QED
      BY <2>3, <3>1, <3>2
  <2> QED
    BY <2>1, <2>2, <2>4, <2>5 DEF Cleared, Clean
<1>4. CASE ProbePlace
  BY <1>4 DEF ProbePlace, ProbeEnds, Cleared, Clean
<1>5. CASE Upsize
  BY <1>5, SlotFields DEF Upsize, Fresh, Keeps, Cleared, Clean
<1>6. CASE ProbeFull \/ AddEnds \/ UpsizeFails \/ ScanSkip \/ \E k \in Keys : AddRefused(k)
  BY <1>6 DEF ProbeFull, AddEnds, UpsizeFails, ScanSkip, AddRefused, Returns, locals, Cleared, Clean
<1>7. CASE ScanEnds \/ Free \/ UNCHANGED vars
  BY <1>7 DEF ScanEnds, Free, Returns, vars, locals, Cleared, Clean
<1>8. CASE \E k \in Keys : Remove(k)
  <2>1. PICK k \in Keys : Remove(k)
    BY <1>8
  <2>2. ctl = "idle" /\ ctl' = "idle" /\ UNCHANGED old
    BY <2>1 DEF Remove, Returns
  <2>3. size \in Nat \ {0} /\ table \in [0 .. size - 1 -> Slot] /\ DOMAIN table = 0 .. size - 1
    BY <2>2, TableShape DEF Contents, Bounded
  <2>4. \A s \in Slot : Clean(Freed(s))
    BY DEF Freed, Slot, Clean
  <2>5. CASE table' = table
    BY <2>2, <2>5 DEF Cleared, Clean
  <2>6. CASE Matches(k) # {} /\ table' = SwapUp(BucketOf(k))
    <3>1. PICK b \in 0 .. size - 1 : b = BucketOf(k)
      BY <2>2, <2>3, <2>6, BucketInTable DEF Contents, Bounded
    <3>2. Following(b) \in 0 .. size - 1
      BY <2>3 DEF Following
    <3>3. \A c \in DOMAIN SwapUp(b) : Clean(SwapUp(b)[c])
      BY <2>3, <2>4, <3>2 DEF SwapUp, Cleared
    <3> QED
      BY <2>2, <2>6, <3>1, <3>3 DEF Cleared, Clean
  <2> QED
    BY <2>1, <2>5, <2>6 DEF Remove
<1> QED
  BY <1>1, <1>2, <1>3, <1>4, <1>5, <1>6, <1>7, <1>8 DEF Next, Step

-----------------------------------------------------------------------------
Inventory == [e \in Keys \X Datas |-> Held({e})]

(* Between calls an element is held when a slot in use holds it.           *)
LEMMA HeldInSlot ==
  ASSUME Contents, ctl = "idle", NEW e
  PROVE  Held({e}) > 0 <=> \E b \in Live(table) : PairOf(table[b]) = e
<1>1. old = <<>>
  BY DEF Contents, Growing
<1>2. Holding(Unmoved, {e}) = {} /\ Carried({e}) = 0
  BY <1>1 DEF Holding, Live, Unmoved, Carried
<1>3. IsFiniteSet(Holding(table, {e})) /\ Cardinality(Holding(table, {e})) \in Nat
  BY HeldParts DEF Contents, Bounded
<1>4. Cardinality({}) = 0 /\ (Cardinality(Holding(table, {e})) = 0 <=> Holding(table, {e}) = {})
  BY <1>3, FS_EmptySet
<1>5. Held({e}) = Cardinality(Holding(table, {e}))
  <2>1. Cardinality(Holding(Unmoved, {e})) = 0
    BY <1>2, FS_EmptySet
  <2> QED
    BY <1>2, <1>3, <2>1 DEF Held
<1>6. Holding(table, {e}) # {} <=> \E b \in Live(table) : PairOf(table[b]) = e
  BY DEF Holding
<1> QED
  BY <1>3, <1>4, <1>5, <1>6

LEMMA Stutters ==
  ASSUME StartsWithNul \cap Keys = {}, Contents, [Next]_vars, ~Free,
         ~\E k \in Keys : \E d \in Datas : Add(k, d),
         ~\E k \in Keys : Remove(k) /\ Matches(k) # {}
  PROVE  Inventory' = Inventory /\ deleted' = deleted
<1>1. \A e \in Keys \X Datas : Held({e})' = Held({e})
  BY OthersHeld
<1>2. deleted' = deleted
  BY DEF Next, Step, ProbePlace, ProbeNext, ProbeFull, AddEnds, UpsizeFails, Upsize, ScanMove,
         ScanSkip, ScanEnds, AddRefused, Remove, vars
<1> QED
  BY <1>1, <1>2 DEF Inventory

LEMMA Puts ==
  ASSUME Contents, NEW k \in Keys, NEW d \in Datas, Add(k, d)
  PROVE  Inventory' = [Inventory EXCEPT ![<<k, d>>] = Inventory[<<k, d>>] + 1] /\ deleted' = deleted
<1>1. \A e \in Keys \X Datas : Held({e})' = Held({e}) + (IF <<k, d>> \in {e} THEN 1 ELSE 0)
  BY AddHeld
<1>2. \A e \in Keys \X Datas : Held({e}) \in Int
  <2> SUFFICES ASSUME NEW e \in Keys \X Datas PROVE Held({e}) \in Int
    OBVIOUS
  <2>1. Cardinality(Holding(table, {e})) \in Nat /\ Cardinality(Holding(Unmoved, {e})) \in Nat
    BY HeldParts DEF Contents, Bounded
  <2>2. Carried({e}) \in Nat
    BY DEF Carried
  <2> QED
    BY <2>1, <2>2 DEF Held
<1>3. \A e \in Keys \X Datas : Held({e})' = IF e = <<k, d>> THEN Held({e}) + 1 ELSE Held({e})
  <2> SUFFICES ASSUME NEW e \in Keys \X Datas
               PROVE  Held({e})' = IF e = <<k, d>> THEN Held({e}) + 1 ELSE Held({e})
    OBVIOUS
  <2>1. <<k, d>> \in {e} <=> e = <<k, d>>
    OBVIOUS
  <2> QED
    BY <1>1, <1>2, <2>1
<1>4. Inventory' = [e \in Keys \X Datas |-> IF e = <<k, d>> THEN Held({e}) + 1 ELSE Held({e})]
  BY <1>3 DEF Inventory
<1>5. [Inventory EXCEPT ![<<k, d>>] = Inventory[<<k, d>>] + 1] =
        [e \in Keys \X Datas |-> IF e = <<k, d>> THEN Held({e}) + 1 ELSE Held({e})]
  BY DEF Inventory
<1>6. deleted' = deleted
  BY DEF Add
<1> QED
  BY <1>4, <1>5, <1>6

LEMMA Drops ==
  ASSUME Contents, NEW k \in Keys, Remove(k), Matches(k) # {}
  PROVE  \E e \in Keys \X Datas :
           /\ Inventory[e] > 0
           /\ Inventory' = [Inventory EXCEPT ![e] = Inventory[e] - 1]
           /\ deleted' = {e[2]} \ {NULL}
<1>1. ctl = "idle" /\ deleted' = {table[BucketOf(k)].data} \ {NULL}
  BY DEF Remove
<1>2. PICK b \in Live(table) : b = BucketOf(k)
  BY <1>1, BucketIsLive DEF Contents, Bounded
<1>3. PICK e \in Keys \X Datas : e = PairOf(table[b]) /\ e[2] = table[b].data
  <2>1. PairOf(table[b]) \in Keys \X Datas /\ PairOf(table[b])[2] = table[b].data
    BY DEF Live, Contents, Owned, PairOf
  <2> QED
    BY <2>1
<1>4. Held({e}) > 0
  BY <1>1, <1>3, HeldInSlot
<1>5. \A x \in Keys \X Datas : Held({x})' = Held({x}) - Weight(table[b], {x})
  BY <1>2, RemoveHeld
<1>6. \A x \in Keys \X Datas : Weight(table[b], {x}) = IF x = e THEN 1 ELSE 0
  BY <1>3 DEF Weight, Live
<1>7. \A x \in Keys \X Datas : Held({x}) \in Int
  <2> SUFFICES ASSUME NEW x \in Keys \X Datas PROVE Held({x}) \in Int
    OBVIOUS
  <2>1. Cardinality(Holding(table, {x})) \in Nat /\ Cardinality(Holding(Unmoved, {x})) \in Nat
    BY HeldParts DEF Contents, Bounded
  <2>2. Carried({x}) \in Nat
    BY DEF Carried
  <2> QED
    BY <2>1, <2>2 DEF Held
<1>8. \A x \in Keys \X Datas : Held({x})' = IF x = e THEN Held({x}) - 1 ELSE Held({x})
  <2> SUFFICES ASSUME NEW x \in Keys \X Datas
               PROVE  Held({x})' = IF x = e THEN Held({x}) - 1 ELSE Held({x})
    OBVIOUS
  <2>1. Held({x})' = Held({x}) - (IF x = e THEN 1 ELSE 0)
    BY <1>5, <1>6
  <2> QED
    BY <1>7, <2>1
<1>9. Inventory' = [x \in Keys \X Datas |-> IF x = e THEN Held({x}) - 1 ELSE Held({x})]
  BY <1>8 DEF Inventory
<1>10. [Inventory EXCEPT ![e] = Inventory[e] - 1] =
         [x \in Keys \X Datas |-> IF x = e THEN Held({x}) - 1 ELSE Held({x})]
  BY DEF Inventory
<1>11. Inventory[e] > 0
  BY <1>4 DEF Inventory
<1> QED
  BY <1>1, <1>2, <1>3, <1>9, <1>10, <1>11

LEMMA Clears ==
  ASSUME StartsWithNul \cap Keys = {}, Contents, Cleared, Free
  PROVE  /\ Inventory' = [e \in Keys \X Datas |-> 0]
         /\ deleted' = {e[2] : e \in {x \in Keys \X Datas : Inventory[x] > 0}} \ {NULL}
<1>1. /\ ctl = "idle" /\ ctl' = "freed" /\ table' = <<>> /\ UNCHANGED <<old, scan>> /\ old = <<>>
      /\ deleted' = {table[b].data : b \in Occupied(table)} \ {NULL}
  BY DEF Free, Contents, Growing
<1>2. \A e \in Keys \X Datas : Held({e})' = 0
  <2> SUFFICES ASSUME NEW e \in Keys \X Datas PROVE Held({e})' = 0
    OBVIOUS
  <2>1. Holding(table, {e})' = {} /\ Holding(Unmoved, {e})' = {} /\ Carried({e})' = 0
    BY <1>1 DEF Holding, Live, Unmoved, Carried
  <2>2. Cardinality({}) = 0
    BY FS_EmptySet
  <2> QED
    BY <2>1, <2>2 DEF Held
<1>3. Live(table) \subseteq Occupied(table)
      /\ \A b \in Occupied(table) : b \in Live(table) \/ table[b].data = NULL
  BY DEF Occupied, Live, Cleared, Clean, Contents, Owned
<1>4. deleted' = {table[b].data : b \in Live(table)} \ {NULL}
  BY <1>1, <1>3
<1> DEFINE L == {x \in Keys \X Datas : Inventory[x] > 0}
<1>5. \A x \in Keys \X Datas : x \in L <=> \E b \in Live(table) : PairOf(table[b]) = x
  BY <1>1, HeldInSlot DEF Inventory
<1>6. \A b \in Live(table) : PairOf(table[b]) \in Keys \X Datas /\ PairOf(table[b])[2] = table[b].data
  BY DEF Live, Contents, Owned, PairOf
<1>7. \A x : x \in L => x \in Keys \X Datas
  OBVIOUS
<1> HIDE DEF L
<1>8. {e[2] : e \in L} = {table[b].data : b \in Live(table)}
  <2>1. ASSUME NEW e \in L PROVE \E b \in Live(table) : e[2] = table[b].data
    BY <1>5, <1>6, <1>7
  <2>2. ASSUME NEW b \in Live(table) PROVE \E e \in L : table[b].data = e[2]
    BY <1>5, <1>6
  <2> QED
    BY <2>1, <2>2
<1>9. Inventory' = [e \in Keys \X Datas |-> 0]
  BY <1>2 DEF Inventory
<1> QED
  BY <1>4, <1>8, <1>9 DEF L

(* The promise of rbhash.h as an abstract specification, for every size,   *)
(* hash function and share to keep free: an add adds its element, a remove *)
(* takes out one that is there, growth, swaps and refused calls lose and   *)
(* invent nothing, and the delete function is called on the data of the    *)
(* elements that leave and on nothing else. Provided that no key starts    *)
(* with a NUL character and that malloc'ed memory reads as free slots.     *)
THEOREM TableIsStore ==
  ASSUME StartsWithNul \cap Keys = {}, \A s \in Fill : s.key \in StartsWithNul
  PROVE  Spec => ImplementsStore
<1>1. Init => Cleared
  BY SlotFields DEF Init, Fresh, Cleared, Clean
<1>2. Contents /\ Cleared /\ [Next]_vars => Cleared'
  BY ClearedStep
<1>3. Init => Inventory = Store!Empty /\ deleted = {}
  <2> SUFFICES ASSUME Init PROVE \A e \in Keys \X Datas : Held({e}) = 0
    BY DEF Init, Inventory, Store!Empty, Store!Elements
  <2> SUFFICES ASSUME NEW e \in Keys \X Datas PROVE Held({e}) = 0
    OBVIOUS
  <2>1. Holding(table, {e}) = {} /\ Holding(Unmoved, {e}) = {} /\ Carried({e}) = 0
    BY SlotFields DEF Init, Fresh, Holding, Live, Unmoved, Carried
  <2>2. Cardinality(Holding(table, {e})) = 0 /\ Cardinality(Holding(Unmoved, {e})) = 0
    BY <2>1, FS_EmptySet
  <2> QED
    BY <2>1, <2>2 DEF Held
<1>4. Contents /\ Cleared /\ [Next]_vars => [Store!Next]_<<Inventory, deleted>>
  <2> SUFFICES ASSUME Contents, Cleared, [Next]_vars
               PROVE  Store!Next \/ (Inventory' = Inventory /\ deleted' = deleted)
    OBVIOUS
  <2>1. CASE Free
    <3>1. Store!Clear
      BY <2>1, Clears DEF Store!Clear, Store!DataOf, Store!Empty, Store!Elements, Inventory
    <3> QED
      BY <3>1 DEF Store!Next
  <2>2. CASE \E k \in Keys : \E d \in Datas : Add(k, d)
    <3>1. PICK k \in Keys, d \in Datas : Add(k, d)
      BY <2>2
    <3>2. <<k, d>> \in Store!Elements /\ Store!Put(<<k, d>>)
      BY <3>1, Puts DEF Store!Elements, Store!Put, Inventory
    <3> QED
      BY <3>2 DEF Store!Next
  <2>3. CASE \E k \in Keys : Remove(k) /\ Matches(k) # {}
    <3>1. PICK k \in Keys : Remove(k) /\ Matches(k) # {}
      BY <2>3
    <3>2. PICK e \in Keys \X Datas : /\ Inventory[e] > 0
                                     /\ Inventory' = [Inventory EXCEPT ![e] = Inventory[e] - 1]
                                     /\ deleted' = {e[2]} \ {NULL}
      BY <3>1, Drops
    <3>3. {x[2] : x \in {e}} = {e[2]}
      OBVIOUS
    <3>4. e \in Store!Elements /\ Store!Drop(e)
      BY <3>2, <3>3 DEF Store!Elements, Store!Drop, Store!DataOf, Inventory
    <3> QED
      BY <3>4 DEF Store!Next
  <2>4. CASE ~Free /\ ~(\E k \in Keys : \E d \in Datas : Add(k, d))
             /\ ~\E k \in Keys : Remove(k) /\ Matches(k) # {}
    BY <2>4, Stutters
  <2> QED
    BY <2>1, <2>2, <2>3, <2>4
<1>5. Init => Store!Init
  BY <1>3 DEF Store!Init, Inventory
<1> QED
  BY <1>1, <1>2, <1>4, <1>5, ContentsAlways, PTL DEF Spec, ImplementsStore, Store!Spec, Inventory

-----------------------------------------------------------------------------
(* A search goes round a table from the home of its key.                   *)
LEMMA Around ==
  ASSUME NEW s \in Nat \ {0}, NEW x \in 0 .. 2 * s - 1
  PROVE  x % s = IF x < s THEN x ELSE x - s
<1>1. CASE x < s
  BY <1>1
<1>2. CASE x >= s
  <2>1. PICK y \in 0 .. s - 1 : x = y + s
    <3>1. x - s \in 0 .. s - 1 /\ x = (x - s) + s
      BY <1>2
    <3> QED
      BY <3>1
  <2>2. (y + s) % s = y
    OBVIOUS
  <2> QED
    BY <1>2, <2>1, <2>2
<1> QED
  BY <1>1, <1>2

(* The search walks the slots at distance 0, 1, ... from the home.         *)
LEMMA AfterAt ==
  ASSUME size \in Nat \ {0}, NEW h \in Nat, NEW n \in Nat, NEW d \in Nat, n + d <= size
  PROVE  After(At(h, n), d) = At(h, n + d)
<1>1. Home(h) \in 0 .. size - 1
  BY AtFollowing
<1>2. At(h, n) \in 0 .. size - 1
  BY <1>1 DEF At
<1>3. PICK b \in 0 .. size - 1 : b = At(h, n)
  BY <1>2
<1>4. b + d \in 0 .. 2 * size - 1
  OBVIOUS
<1>5. (b + d) % size = IF b + d < size THEN b + d ELSE b + d - size
  <2>1. \A x \in 0 .. 2 * size - 1 : x % size = IF x < size THEN x ELSE x - size
    BY Around
  <2> QED
    BY <1>4, <2>1
<1>6. After(b, d) = IF b + d < size THEN b + d ELSE b + d - size
  BY <1>5 DEF After
<1> QED
  BY <1>1, <1>3, <1>6 DEF At

LEMMA AtApart ==
  ASSUME size \in Nat \ {0}, NEW h \in Nat, NEW n \in 0 .. size - 1, NEW d \in 0 .. size - 1, n # d
  PROVE  At(h, n) # At(h, d)
<1>1. Home(h) \in 0 .. size - 1
  BY AtFollowing
<1> QED
  BY <1>1 DEF At

-----------------------------------------------------------------------------
(* No probe comes back to where it began and goes on: the slot it has seen *)
(* first is in use, and ends it. So a find, and a search, look at no slot  *)
(* twice.                                                                  *)
NotRound ==
  /\ ctl = "probe" /\ i > 0 => table[Back(bucket, i)].live
  /\ ctl \notin {"exit", "freed"} /\ (ctl = "probe" => i < size) => maxdistance < size

LEMMA ProbeNotRound ==
  ASSUME TableInv, NotRound, ProbeNext
  PROVE  NotRound'
<1>1. /\ ctl = "probe" /\ ctl' = "probe" /\ size' = size /\ i' = i + 1
      /\ i \in 0 .. size - 1 /\ bucket' = Following(bucket) /\ maxdistance < size
      /\ size \in Nat \ {0} /\ table \in [0 .. size - 1 -> Slot] /\ bucket \in 0 .. size - 1
      /\ nw \in Slot /\ table[bucket] \in Slot /\ table[bucket].live /\ nw.dist <= i
      /\ maxdistance \in Nat
  BY TableShape DEF ProbeNext, TableInv, TypeOK, Probing, NotRound
<1>2. /\ Back(Following(bucket), 1) = bucket
      /\ \A d \in 1 .. size - 1 : /\ Back(Following(bucket), d + 1) = Back(bucket, d)
                                  /\ Back(bucket, d) \in 0 .. size - 1
                                  /\ Back(bucket, d) # bucket
  <2>1. \A d \in 1 .. size - 1 : Back(bucket, d) # bucket
    BY <1>1 DEF Back
  <2>2. /\ \A d \in 1 .. size : Back(bucket, d) \in 0 .. size - 1
        /\ Back(Following(bucket), 1) = bucket
        /\ \A d \in 1 .. size - 1 : Back(Following(bucket), d + 1) = Back(bucket, d)
    BY <1>1, BackFollowing
  <2>3. \A d \in 1 .. size - 1 : d \in 1 .. size
    BY <1>1
  <2> QED
    BY <2>1, <2>2, <2>3
<1>3. Back(bucket, i)' = Back(Following(bucket), i + 1)
  BY <1>1 DEF Back
<1>4. table'[Back(Following(bucket), i + 1)].live
  <2>1. CASE i = 0
    <3>1. nw.dist = 0 /\ table[bucket].dist >= 0
      BY <1>1, <2>1, SlotFields
    <3>2. table' = table
      BY <1>1, <3>1, SlotFields DEF ProbeNext, Farther
    <3> QED
      BY <1>1, <1>2, <2>1, <3>2
  <2>2. CASE i > 0
    <3>1. i \in 1 .. size - 1
      BY <1>1, <2>2
    <3>2. table[Back(bucket, i)].live
      BY <1>1, <2>2 DEF NotRound
    <3>3. \A b \in 0 .. size - 1 : b # bucket => table'[b] = table[b]
      BY <1>1 DEF ProbeNext
    <3> QED
      BY <1>2, <3>1, <3>2, <3>3
  <2> QED
    BY <1>1, <2>1, <2>2
<1>5. i' < size => maxdistance' < size
  <2>1. nw'.dist <= i + 1 /\ maxdistance' = Reach(nw'.dist)
    <3>1. TableInv'
      BY ProbeInv
    <3>2. nw'.dist <= i'
      BY <1>1, <3>1 DEF TableInv, Probing
    <3> QED
      BY <1>1, <3>2 DEF ProbeNext
  <2>2. maxdistance' \in {nw'.dist, maxdistance}
    BY <2>1 DEF Reach
  <2>3. nw' \in Slot /\ nw'.dist \in Nat
    <3>1. TableInv'
      BY ProbeInv
    <3> QED
      BY <1>1, <3>1, SlotFields DEF TableInv, TypeOK
  <2> QED
    BY <1>1, <2>1, <2>2, <2>3
<1> QED
  BY <1>1, <1>3, <1>4, <1>5 DEF NotRound

LEMMA NotRoundStep ==
  ASSUME "remove" \notin Calls, TableInv, NotRound, [Next]_vars
  PROVE  NotRound'
<1>1. CASE ProbeNext
  BY <1>1, ProbeNotRound
<1>2. CASE ProbePlace
  <2>1. /\ ctl = "probe" /\ ~table[bucket].live /\ i \in 0 .. size /\ ctl' \in {"added", "scan"}
        /\ UNCHANGED <<size, maxdistance>> /\ bucket \in 0 .. size - 1 /\ size \in Nat \ {0}
    BY <1>2, TableShape DEF ProbePlace, ProbeEnds, TableInv, TypeOK
  <2>2. i # size
    <3>1. Back(bucket, size) = bucket
      BY <2>1 DEF Back
    <3> QED
      BY <2>1, <3>1 DEF NotRound
  <2> QED
    BY <2>1, <2>2 DEF NotRound
<1>3. CASE ScanMove \/ \E k \in Keys : \E d \in Datas : Add(k, d)
  <2>1. /\ ctl \in {"scan", "idle"} /\ ctl' = "probe" /\ i' = 0 /\ UNCHANGED <<size, maxdistance>>
    BY <1>3 DEF ScanMove, Add, SwapDown
  <2> QED
    BY <2>1 DEF NotRound
<1>4. CASE Upsize
  <2>1. ctl' = "scan" /\ maxdistance' = 0 /\ size' \in Sizes
    BY <1>4 DEF Upsize, RoundUp
  <2>2. size' > 0
    BY <2>1, TableAssumption
  <2> QED
    BY <2>1, <2>2 DEF NotRound
<1>5. CASE AddEnds \/ UpsizeFails \/ ScanSkip \/ ScanEnds
  <2>1. ctl \in {"added", "scan"} /\ ctl' \in {"idle", "scan"} /\ UNCHANGED <<size, maxdistance>>
    BY <1>5 DEF AddEnds, UpsizeFails, ScanSkip, ScanEnds, Keeps, Returns
  <2> QED
    BY <2>1 DEF NotRound
<1>6. CASE ProbeFull \/ Free
  BY <1>6 DEF ProbeFull, Free, NotRound
<1>7. CASE (\E k \in Keys : AddRefused(k)) \/ UNCHANGED vars
  BY <1>7 DEF AddRefused, Returns, vars, locals, NotRound, Back
<1>8. ~\E k \in Keys : Remove(k)
  BY DEF Remove
<1> QED
  BY <1>1, <1>2, <1>3, <1>4, <1>5, <1>6, <1>7, <1>8 DEF Next, Step
-----------------------------------------------------------------------------
(* The cursor.                                                             *)

Hows == {"open", "over", "again", "spins", "dangling", "undef"}

Cursor ==
  [key : SearchKeys, slot : Nat, maxscan : Nat, how : Hows, found : Seq(Nat), steady : BOOLEAN]

Steady == search # <<>> /\ search.steady

(* Of the calls that change a table none has come to the point where it    *)
(* writes a slot.                                                          *)
Undisturbed ==
  Steady => old = <<>> /\ ctl \in {"idle", "probe", "exit"} /\ (ctl = "probe" => nw.live)

Keyed(k) == {b \in Live(table) : table[b].key = k}

Walked(k, n) == {b \in Keyed(k) : \E d \in 0 .. n - 1 : b = At(Hash[k], d)}

(* found lists each slot of S once.                                        *)
Lists(found, S) ==
  /\ {found[m] : m \in DOMAIN found} = S
  /\ \A m, n \in DOMAIN found : m # n => found[m] # found[n]

(* An open search has looked at n slots from the home of its key, and the  *)
(* ones it may still look at hold all that it has not found.               *)
WalkedSoFar(n) ==
  /\ n + search.maxscan <= size /\ search.slot = At(Hash[search.key], n)
  /\ Keyed(search.key) \subseteq Walked(search.key, n + search.maxscan)
  /\ Lists(search.found, Walked(search.key, n))

Walking == Steady /\ search.how = "open" => \E n \in Nat : WalkedSoFar(n)

SearchInv ==
  /\ TableInv /\ NotRound
  /\ search # <<>> => search \in Cursor
  /\ Undisturbed /\ Walking /\ SearchFindsAll

(* What a step of another call leaves of a search that goes on.            *)
LEMMA SteadyStep ==
  ASSUME "remove" \notin Calls, SearchInv, Next, Under, search # <<>>, search'.steady
  PROVE  /\ search' = search /\ UNCHANGED <<table, size, old>>
         /\ ctl' \in {"idle", "probe", "exit"} /\ (ctl' = "probe" => nw'.live)
<1>1. search' = search /\ table' = table
  BY DEF Under, SearchInv, Cursor
<1>2. old = <<>> /\ ctl \in {"idle", "probe", "exit"} /\ (ctl = "probe" => nw.live)
  BY <1>1 DEF SearchInv, Undisturbed, Steady
<1>3. size \in Nat \ {0} /\ table \in [0 .. size - 1 -> Slot] /\ DOMAIN table = 0 .. size - 1
  BY <1>2, TableShape DEF SearchInv, TableInv
<1>4. CASE \E k \in Keys : \E d \in Datas : Add(k, d)
  BY <1>1, <1>2, <1>4, SlotFields DEF Add, SwapDown
<1>5. CASE ProbeNext
  <2>1. /\ ctl = "probe" /\ ctl' = ctl /\ UNCHANGED <<size, old>> /\ bucket \in 0 .. size - 1
        /\ nw \in Slot /\ table[bucket] \in Slot
    BY <1>3, <1>5 DEF ProbeNext, SearchInv, TableInv, TypeOK
  <2>2. ~Farther
    <3> SUFFICES ASSUME Farther PROVE FALSE
      OBVIOUS
    <3>1. table'[bucket] = nw
      BY <1>3, <1>5, <2>1 DEF ProbeNext
    <3> QED
      BY <1>1, <2>1, <3>1, SlotFields DEF Farther
  <2>3. nw' = [nw EXCEPT !.dist = nw.dist + 1]
    BY <1>5, <2>2 DEF ProbeNext
  <2>4. nw'.live
    BY <1>2, <2>1, <2>3, SlotFields
  <2> QED
    BY <1>1, <2>1, <2>4
<1>6. ~ProbePlace
  <2> SUFFICES ASSUME ProbePlace PROVE FALSE
    OBVIOUS
  <2>1. /\ ctl = "probe" /\ ~table[bucket].live /\ bucket \in 0 .. size - 1
        /\ table' = [table EXCEPT ![bucket] = nw]
    BY DEF ProbePlace, SearchInv, TableInv, TypeOK
  <2>2. table'[bucket] = nw
    BY <1>3, <2>1
  <2> QED
    BY <1>1, <1>2, <2>1, <2>2
<1>7. ~Free
  <2>1. 0 \in DOMAIN table /\ DOMAIN <<>> = {}
    BY <1>3
  <2> QED
    BY <1>1, <2>1 DEF Free
<1>8. CASE ProbeFull \/ \E k \in Keys : AddRefused(k)
  BY <1>1, <1>2, <1>8 DEF ProbeFull, AddRefused, Returns
<1>9. ~(AddEnds \/ UpsizeFails \/ Upsize \/ ScanSkip \/ ScanMove \/ ScanEnds)
  BY <1>2 DEF AddEnds, UpsizeFails, Upsize, ScanSkip, ScanMove, ScanEnds, Keeps
<1>10. ~\E k \in Keys : Remove(k)
  BY DEF Remove
<1> QED
  BY <1>4, <1>5, <1>6, <1>7, <1>8, <1>9, <1>10 DEF Next, Step

LEMMA UnderCursor ==
  ASSUME search # <<>> => search \in Cursor, Under
  PROVE  search' # <<>> => search # <<>> /\ search' \in Cursor
<1>1. CASE search = <<>> \/ table' = table
  BY <1>1 DEF Under
<1>2. CASE search # <<>> /\ table' # table
  <2>1. <<>> \in Seq(Nat)
    OBVIOUS
  <2>2. search' = [search EXCEPT !.steady = FALSE, !.found = <<>>, !.how = search'.how] /\ search'.how \in Hows
    <3>1. search' = [search EXCEPT !.steady = FALSE, !.found = <<>>, !.how = IF old' # old THEN "dangling" ELSE search.how]
      BY <1>2 DEF Under
    <3>2. search'.how = IF old' # old THEN "dangling" ELSE search.how
      BY <1>2, <3>1 DEF Cursor
    <3> QED
      BY <1>2, <3>1, <3>2 DEF Cursor, Hows
  <2> QED
    BY <1>2, <2>1, <2>2 DEF Cursor
<1> QED
  BY <1>1, <1>2

LEMMA UnderStep ==
  ASSUME "remove" \notin Calls, SearchInv, Next, Under
  PROVE  SearchInv'
<1>1. TableInv' /\ NotRound' /\ (search # <<>> => search \in Cursor)'
  BY TableStep, NotRoundStep, UnderCursor DEF SearchInv
<1>2. CASE ~Steady'
  BY <1>1, <1>2 DEF SearchInv, Undisturbed, Walking, SearchFindsAll, Steady
<1>3. CASE Steady'
  <2>1. search # <<>> /\ search'.steady
    BY <1>3, UnderCursor DEF Steady, SearchInv
  <2>2. /\ search' = search /\ UNCHANGED <<table, size, old>>
        /\ ctl' \in {"idle", "probe", "exit"} /\ (ctl' = "probe" => nw'.live)
    BY <2>1, SteadyStep
  <2>3. Undisturbed'
    BY <2>1, <2>2 DEF SearchInv, Undisturbed, Steady
  <2>4. Walking' /\ SearchFindsAll'
    BY <2>2 DEF SearchInv, Walking, Steady, WalkedSoFar, Lists, Walked, Keyed, Live, At, Home,
                SearchFindsAll
  <2> QED
    BY <1>1, <2>3, <2>4 DEF SearchInv
<1> QED
  BY <1>2, <1>3
(* SearchNew: nothing is looked at yet, and every element of the key lies  *)
(* within maxdistance.                                                     *)
LEMMA SearchBegins ==
  ASSUME SearchInv, SearchNew
  PROVE  SearchInv'
<1>1. PICK k \in SearchKeys : search' = Opened(k) /\ ctl = "idle" /\ UNCHANGED vars
  BY DEF SearchNew
<1>2. /\ UNCHANGED <<table, size, old, scan, count, maxdistance, ctl, nw, bucket, i, call, ret, deleted>>
  BY <1>1 DEF vars, locals
<1>3. k \in Keys /\ Hash[k] \in Nat
  BY SearchAssumption, TableAssumption
<1>4. /\ size \in Nat \ {0} /\ table \in [0 .. size - 1 -> Slot] /\ maxdistance \in Nat
      /\ maxdistance < size /\ old = <<>>
  BY <1>1, TableShape DEF SearchInv, TableInv, TypeOK, NotRound, Growing
<1>5. Home(Hash[k]) \in 0 .. size - 1 /\ At(Hash[k], 0) = Home(Hash[k])
  <2>1. 0 \in 0 .. size
    BY <1>4
  <2> QED
    BY <1>3, <1>4, <2>1, AtFollowing
<1>6. search' \in Cursor /\ search' # <<>>
  <2>1. <<>> \in Seq(Nat) /\ maxdistance + 1 \in Nat /\ Home(Hash[k]) \in Nat
    BY <1>4, <1>5
  <2>2. Opened(k) \in Cursor /\ Opened(k).key = k
    BY <2>1 DEF Opened, Cursor, Hows
  <2>3. Opened(k) # <<>>
    BY DEF Opened
  <2> QED
    BY <1>1, <2>2, <2>3
<1>7. Walking'
  <2>1. /\ search'.key = k /\ search'.maxscan = maxdistance + 1 /\ search'.slot = At(Hash[k], 0)
        /\ search'.found = <<>>
    BY <1>1, <1>5 DEF Opened
  <2>2. Keyed(k) \subseteq Walked(k, maxdistance + 1)
    <3> SUFFICES ASSUME NEW b \in Keyed(k)
                 PROVE  b \in Walked(k, maxdistance + 1)
      OBVIOUS
    <3>1. b \in DOMAIN table /\ b \in Live(table) /\ table[b].key = k /\ table[b] \in Slot
      BY <1>4 DEF Keyed, Live
    <3>2. table[b].dist <= maxdistance /\ b = At(Hash[k], table[b].dist) /\ table[b].dist \in Nat
      BY <3>1, SlotFields DEF SearchInv, TableInv, Placed
    <3>3. \E d \in 0 .. (maxdistance + 1) - 1 : b = At(Hash[k], d)
      BY <1>4, <3>2
    <3> QED
      BY <3>3 DEF Walked
  <2>3. Lists(<<>>, Walked(k, 0))
    BY DEF Lists, Walked
  <2>4. Walked(k, 0 + (maxdistance + 1)) = Walked(k, maxdistance + 1)
    BY <1>4
  <2>5. WalkedSoFar(0)'
    <3>1. 0 + (maxdistance + 1) <= size
      BY <1>4
    <3> QED
      BY <1>2, <2>1, <2>2, <2>3, <2>4, <3>1 DEF WalkedSoFar, Walked, Keyed, Live, At, Home
  <2> QED
    BY <2>5 DEF Walking
<1>8. TableInv' /\ NotRound'
  BY <1>2 DEF SearchInv, TableInv, TypeOK, Probing, Growing, Placed, Live, Owned, At, Home, NotRound, Back
<1>9. Undisturbed' /\ SearchFindsAll'
  BY <1>1, <1>2, <1>4 DEF Undisturbed, SearchFindsAll, Opened
<1> QED
  BY <1>6, <1>7, <1>8, <1>9 DEF SearchInv

LEMMA CursorNotNull == \A r \in Cursor : r # <<>>
<1>1. \A r \in Cursor : "key" \in DOMAIN r
  BY DEF Cursor
<1>2. DOMAIN <<>> = {}
  OBVIOUS
<1> QED
  BY <1>1, <1>2

LEMMA ListsAppend ==
  ASSUME NEW f \in Seq(Nat), NEW b, NEW S, Lists(f, S), b \notin S
  PROVE  Lists(Append(f, b), S \cup {b})
<1> DEFINE g == Append(f, b)
<1>1. /\ Len(f) \in Nat /\ DOMAIN f = 1 .. Len(f) /\ DOMAIN g = 1 .. Len(f) + 1
      /\ g[Len(f) + 1] = b /\ \A m \in 1 .. Len(f) : g[m] = f[m]
  OBVIOUS
<1> HIDE DEF g
<1>2. \A m \in 1 .. Len(f) + 1 : m \in 1 .. Len(f) \/ m = Len(f) + 1
  BY <1>1
<1>3. \A m \in 1 .. Len(f) : f[m] \in S /\ f[m] # b
  BY <1>1 DEF Lists
<1>4. {g[m] : m \in DOMAIN g} = S \cup {b}
  <2>1. \A m \in DOMAIN g : g[m] \in S \cup {b}
    BY <1>1, <1>2, <1>3
  <2>2. \A x \in S : \E m \in DOMAIN g : x = g[m]
    <3>1. \A x \in S : \E m \in 1 .. Len(f) : x = f[m]
      BY <1>1 DEF Lists
    <3>2. \A m \in 1 .. Len(f) : m \in DOMAIN g
      BY <1>1
    <3> QED
      BY <1>1, <3>1, <3>2
  <2>3. \E m \in DOMAIN g : b = g[m]
    BY <1>1
  <2> QED
    BY <2>1, <2>2, <2>3
<1>5. \A m, n \in DOMAIN g : m # n => g[m] # g[n]
  BY <1>1, <1>2, <1>3 DEF Lists
<1> QED
  BY <1>4, <1>5 DEF Lists, g

LEMMA Offset ==
  ASSUME NEW n \in Nat, NEW d \in Nat, NEW m \in Nat, NEW e \in Nat,
         d < m, ~(e < n), e < n + (d + 1)
  PROVE  e - n \in 0 .. m - 1 /\ n + (e - n) = e /\ e - n <= d
OBVIOUS

LEMMA NearestLeast ==
  ASSUME NEW ds \in SUBSET Nat, ds # {}
  PROVE  Nearest(ds) \in ds /\ \A e \in ds : Nearest(ds) <= e
<1> DEFINE R == OpToRel(<, Nat)
<1>1. IsWellFoundedOn(R, Nat)
  BY NatLessThanWellFounded, Zenon
<1>2. \A x, y \in Nat : ~(<<y, x>> \in R) => x <= y
  BY DEF OpToRel
<1> HIDE DEF R
<1>3. \E x \in ds : \A y \in ds : ~(<<y, x>> \in R)
  BY <1>1, WFMin
<1>4. \E x \in ds : \A y \in ds : x <= y
  BY <1>2, <1>3
<1> QED
  BY <1>4 DEF Nearest

(* SearchContinue, in a table that is as it was.                           *)
LEMMA SearchGoesOn ==
  ASSUME SearchInv, SearchContinue, search.steady
  PROVE  Walking' /\ SearchFindsAll' /\ search' # <<>> /\ search' \in Cursor
<1>1. /\ ctl = "idle" /\ search # <<>> /\ search.how = "open" /\ search \in Cursor /\ Steady
      /\ UNCHANGED vars
  BY DEF SearchContinue, Searching, SearchInv, Steady
<1>2. UNCHANGED <<table, size>>
  BY <1>1 DEF vars
<1> DEFINE k == search.key
           m == search.maxscan
<1>3. k \in Keys /\ Hash[k] \in Nat /\ m \in Nat /\ search.found \in Seq(Nat) /\ search.slot \in Nat
  BY <1>1, SearchAssumption, TableAssumption DEF Cursor
<1>4. PICK n \in Nat : WalkedSoFar(n)
  BY <1>1 DEF SearchInv, Walking
<1>5. size \in Nat \ {0} /\ table \in [0 .. size - 1 -> Slot] /\ n + m <= size
  BY <1>1, <1>4, TableShape DEF SearchInv, TableInv, WalkedSoFar
<1>6. \A d \in 0 .. m : After(search.slot, d) = At(Hash[k], n + d)
  BY <1>3, <1>4, <1>5, AfterAt DEF WalkedSoFar
<1>7. \A d \in 0 .. m - 1 : At(Hash[k], n + d) \in 0 .. size - 1
  <2>1. \A d \in 0 .. m - 1 : n + d \in 0 .. size
    BY <1>3, <1>5
  <2>2. \A e \in 0 .. size : At(Hash[k], e) \in 0 .. size - 1
    BY <1>3, <1>5, AtFollowing
  <2> QED
    BY <2>1, <2>2
<1>8. \A d \in 0 .. m - 1 : d \in Hits(m) <=> At(Hash[k], n + d) \in Keyed(k)
  <2> SUFFICES ASSUME NEW d \in 0 .. m - 1
               PROVE  d \in Hits(m) <=> At(Hash[k], n + d) \in Keyed(k)
    OBVIOUS
  <2>1. PICK b \in 0 .. size - 1 : b = At(Hash[k], n + d) /\ b = After(search.slot, d)
    <3>1. d \in 0 .. m
      BY <1>3
    <3> QED
      BY <1>6, <1>7, <3>1
  <2>2. table[b].live /\ table[b].key = k => table[b].hash = Hash[k]
    BY <1>5 DEF SearchInv, TableInv, Owned
  <2>3. d \in Hits(m) <=> table[b].live /\ table[b].hash = Hash[k] /\ table[b].key = k
    BY <2>1 DEF Hits
  <2>4. b \in Keyed(k) <=> table[b].live /\ table[b].key = k
    BY <1>5 DEF Keyed, Live
  <2> QED
    BY <2>1, <2>2, <2>3, <2>4
<1>9. CASE Hits(m) = {}
  <2>1. /\ search' = [search EXCEPT !.slot = After(search.slot, m), !.how = "over"]
        /\ After(search.slot, m) \in Nat
    <3>1. After(search.slot, m) = At(Hash[k], n + m)
      BY <1>3, <1>6
    <3>2. n + m \in 0 .. size
      BY <1>3, <1>5
    <3>3. After(search.slot, m) \in 0 .. size - 1
      BY <1>3, <1>5, <3>1, <3>2, AtFollowing
    <3>4. search' = [search EXCEPT !.slot = After(search.slot, m), !.how = "over"]
      BY <1>9 DEF SearchContinue
    <3> QED
      BY <3>3, <3>4
  <2>2. search' \in Cursor /\ search'.how = "over" /\ search'.found = search.found /\ search'.key = k
    BY <1>1, <2>1 DEF Cursor, Hows
  <2>3. Walked(k, n) = Keyed(k)
    <3>1. ASSUME NEW b \in Keyed(k)
          PROVE  \E e \in 0 .. n - 1 : b = At(Hash[k], e)
      <4>1. PICK e \in 0 .. (n + m) - 1 : b = At(Hash[k], e)
        BY <1>4 DEF WalkedSoFar, Walked
      <4>2. CASE e < n
        BY <4>1, <4>2
      <4>3. CASE e >= n
        <5>1. e - n \in 0 .. m - 1 /\ n + (e - n) = e
          BY <1>3, <4>3
        <5>2. e - n \in Hits(m)
          BY <1>8, <4>1, <5>1
        <5> QED
          BY <1>9, <5>2
      <4> QED
        BY <4>2, <4>3
    <3> QED
      BY <3>1 DEF Walked
  <2>4. Lists(search.found, Keyed(k))
    BY <1>4, <2>3 DEF WalkedSoFar
  <2>5. SearchFindsAll'
    BY <1>2, <2>2, <2>4 DEF SearchFindsAll, Lists, Keyed, Live
  <2>6. search' # <<>>
    BY <2>2, CursorNotNull
  <2> QED
    BY <2>2, <2>5, <2>6 DEF Walking
<1>10. CASE Hits(m) # {}
  <2>1. Hits(m) \subseteq 0 .. m - 1 /\ Hits(m) \subseteq Nat
    BY <1>3 DEF Hits
  <2>2. PICK d \in Hits(m) : d = Nearest(Hits(m)) /\ \A e \in Hits(m) : d <= e
    BY <1>10, <2>1, NearestLeast
  <2>3. d \in 0 .. m - 1 /\ d \in Nat /\ m - (d + 1) \in Nat /\ n + d \in 0 .. size - 1
        /\ d + 1 \in 0 .. m /\ n + (d + 1) \in 0 .. size
    <3>1. d \in 0 .. m - 1 /\ m \in Nat /\ size \in Nat /\ n + m <= size
      BY <1>3, <1>5, <2>1
    <3> HIDE DEF m
    <3> QED
      BY <3>1
  <2>4. d \in 0 .. m
    BY <1>3, <2>3
  <2>5. PICK b \in 0 .. size - 1 : b = At(Hash[k], n + d) /\ b = After(search.slot, d)
    BY <1>6, <1>7, <2>3, <2>4
  <2>6. PICK c \in 0 .. size - 1 : c = After(search.slot, d + 1) /\ c = At(Hash[k], n + (d + 1))
    <3>1. At(Hash[k], n + (d + 1)) \in 0 .. size - 1
      BY <1>3, <1>5, <2>3, AtFollowing
    <3> QED
      BY <1>6, <2>3, <3>1
  <2>7. search' = [search EXCEPT !.slot = c, !.maxscan = m - (d + 1),
                                 !.found = Append(search.found, b)]
    BY <1>10, <2>2, <2>5, <2>6 DEF SearchContinue, Found, Noted
  <2>8. /\ search' \in Cursor /\ search'.how = "open" /\ search'.found = Append(search.found, b)
        /\ search'.key = k /\ search'.maxscan = m - (d + 1) /\ search'.slot = c
    <3>1. c \in Nat /\ Append(search.found, b) \in Seq(Nat)
      BY <1>3, <1>5
    <3> QED
      BY <1>1, <2>3, <2>7, <3>1 DEF Cursor
  <2>9. b \in Keyed(k) /\ b \notin Walked(k, n)
    <3>1. b \in Keyed(k)
      BY <1>8, <2>3, <2>5
    <3>2. \A e \in 0 .. n - 1 : e \in 0 .. size - 1 /\ e # n + d
      BY <1>5, <2>3
    <3>3. \A e \in 0 .. n - 1 : At(Hash[k], e) # At(Hash[k], n + d)
      BY <1>3, <1>5, <2>3, <3>2, AtApart
    <3> QED
      BY <2>5, <3>1, <3>3 DEF Walked
  <2>10. Walked(k, n + (d + 1)) = Walked(k, n) \cup {b}
    <3>1. ASSUME NEW x \in Keyed(k), NEW e \in 0 .. (n + (d + 1)) - 1, x = At(Hash[k], e)
          PROVE  x \in Walked(k, n) \cup {b}
      <4>0. m \in Nat /\ n \in Nat /\ d \in Nat /\ d < m
        BY <1>3, <2>3
      <4> HIDE DEF k, m
      <4>1. CASE e < n
        <5>1. e \in 0 .. n - 1
          BY <4>1
        <5> QED
          BY <3>1, <5>1 DEF Walked
      <4>2. CASE e >= n
        <5>1. e - n \in 0 .. m - 1 /\ n + (e - n) = e /\ e - n <= d
          <6>1. e \in Nat /\ e < n + (d + 1) /\ ~(e < n)
            BY <4>0, <4>2
          <6> QED
            BY <4>0, <6>1, Offset
        <5>2. e - n \in Hits(m)
          BY <1>8, <3>1, <5>1
        <5>3. e - n = d
          BY <2>2, <2>3, <5>1, <5>2
        <5> QED
          BY <2>5, <3>1, <5>1, <5>3
      <4> QED
        BY <4>1, <4>2
    <3>2. 0 .. n - 1 \subseteq 0 .. (n + (d + 1)) - 1 /\ n + d \in 0 .. (n + (d + 1)) - 1
      BY <2>3
    <3>3. Walked(k, n) \subseteq Walked(k, n + (d + 1))
      BY <3>2 DEF Walked
    <3>4. b \in Walked(k, n + (d + 1))
      BY <2>5, <2>9, <3>2 DEF Walked
    <3>5. Walked(k, n + (d + 1)) \subseteq Walked(k, n) \cup {b}
      BY <3>1 DEF Walked
    <3> QED
      BY <3>3, <3>4, <3>5
  <2>11. Lists(Append(search.found, b), Walked(k, n + (d + 1)))
    <3>1. Lists(search.found, Walked(k, n))
      BY <1>4 DEF WalkedSoFar
    <3> QED
      BY <1>3, <2>9, <2>10, <3>1, ListsAppend
  <2>12. WalkedSoFar(n + (d + 1))'
    <3>1. (n + (d + 1)) + (m - (d + 1)) = n + m
      <4>1. \A x, y, z \in Int : (x + y) + (z - y) = x + z
        OBVIOUS
      <4>2. n \in Int /\ d + 1 \in Int /\ m \in Int
        BY <1>3, <2>3
      <4> QED
        BY <4>1, <4>2
    <3>2. Keyed(k) \subseteq Walked(k, n + m)
      BY <1>4 DEF WalkedSoFar
    <3> QED
      BY <1>2, <1>5, <2>6, <2>8, <2>11, <3>1, <3>2 DEF WalkedSoFar, Walked, Keyed, Live, At, Home
  <2>13. n + (d + 1) \in Nat
    BY <2>3
  <2>14. search' # <<>>
    BY <2>8, CursorNotNull
  <2> QED
    BY <2>8, <2>12, <2>13, <2>14 DEF Walking, SearchFindsAll
<1> QED
  BY <1>9, <1>10
(* A step of the search leaves the table as it is.                         *)
LEMMA SameTable ==
  ASSUME SearchInv, UNCHANGED vars
  PROVE  /\ TableInv' /\ NotRound'
         /\ search' # <<>> /\ (search'.steady => Steady) => Undisturbed'
<1>1. /\ UNCHANGED <<table, size, old, scan, count, maxdistance, ctl, nw, bucket, i, call, ret, deleted>>
  BY DEF vars, locals
<1>2. TableInv' /\ NotRound'
  BY <1>1 DEF SearchInv, TableInv, TypeOK, Probing, Growing, Placed, Live, Owned, At, Home, NotRound, Back
<1> QED
  BY <1>1, <1>2 DEF SearchInv, Undisturbed, Steady

(* SearchContinue, when the table has changed.                             *)
LEMMA SearchStrays ==
  ASSUME SearchInv, SearchContinue, ~search.steady
  PROVE  search' # <<>> /\ search' \in Cursor /\ ~search'.steady
<1>1. ctl = "idle" /\ search # <<>> /\ search \in Cursor
  BY DEF SearchContinue, Searching, SearchInv
<1> DEFINE m == search.maxscan
<1>2. size \in Nat \ {0} /\ m \in Nat /\ search.slot \in Nat /\ <<>> \in Seq(Nat)
  BY <1>1, TableShape DEF SearchInv, TableInv, Cursor
<1>3. \A d \in Nat : After(search.slot, d) \in Nat
  <2>1. \A x \in Nat : x % size \in Nat
    BY <1>2
  <2> QED
    BY <1>2, <2>1 DEF After
<1>4. CASE Hits(m) = {}
  <2>1. search' = [search EXCEPT !.slot = After(search.slot, m), !.how = "over"]
    BY <1>4 DEF SearchContinue
  <2>2. search' \in Cursor /\ ~search'.steady
    BY <1>1, <1>2, <1>3, <2>1 DEF Cursor, Hows
  <2> QED
    BY <2>2, CursorNotNull
<1>5. CASE Hits(m) # {}
  <2>1. Hits(m) \subseteq 0 .. m - 1 /\ Hits(m) \subseteq Nat
    BY <1>2 DEF Hits
  <2>2. PICK d \in 0 .. m - 1 : d = Nearest(Hits(m))
    BY <1>5, <2>1, NearestIn
  <2>3. m - (d + 1) \in Nat /\ d + 1 \in Nat
    BY <1>2
  <2>4. PICK c \in Nat : c = After(search.slot, d + 1)
    BY <1>3, <2>3
  <2>5. search' = [search EXCEPT !.slot = c, !.maxscan = m - (d + 1), !.found = <<>>]
    BY <1>5, <2>2, <2>4 DEF SearchContinue, Found, Noted
  <2>6. search' \in Cursor /\ ~search'.steady
    BY <1>1, <1>2, <2>3, <2>5 DEF Cursor, Hows
  <2> QED
    BY <2>6, CursorNotNull
<1> QED
  BY <1>4, <1>5

LEMMA SearchStep ==
  ASSUME "remove" \notin Calls, SearchInv, [SNext]_svars
  PROVE  SearchInv'
<1>1. CASE Proceeds /\ Next /\ Under
  BY <1>1, UnderStep
<1>2. CASE SearchNew
  BY <1>2, SearchBegins
<1>3. CASE SearchContinue
  <2>1. UNCHANGED vars /\ search # <<>>
    BY <1>3 DEF SearchContinue, Searching
  <2>2. CASE search.steady
    BY <1>3, <2>1, <2>2, SearchGoesOn, SameTable DEF SearchInv, Steady
  <2>3. CASE ~search.steady
    BY <1>3, <2>1, <2>3, SearchStrays, SameTable DEF SearchInv, Steady, Walking, SearchFindsAll
  <2> QED
    BY <2>2, <2>3
<1>4. CASE SearchBeyond \/ SearchDangling
  <2>1. PICK h \in Hows \ {"open", "over"} : search' = [search EXCEPT !.how = h]
    BY <1>4 DEF SearchBeyond, SearchDangling, Hows
  <2>2. UNCHANGED vars /\ search # <<>> /\ search \in Cursor
    BY <1>4 DEF SearchBeyond, SearchDangling, Searching, SearchInv
  <2>3. search' \in Cursor /\ search'.how = h /\ search'.steady = search.steady
    BY <2>1, <2>2 DEF Cursor
  <2> QED
    BY <2>1, <2>2, <2>3, SameTable, CursorNotNull
    DEF SearchInv, Steady, Walking, SearchFindsAll
<1>5. CASE SearchDelete
  <2>1. UNCHANGED vars /\ search' = <<>>
    BY <1>5 DEF SearchDelete
  <2> QED
    BY <2>1, SameTable DEF SearchInv, Undisturbed, Steady, Walking, SearchFindsAll
<1>6. CASE UNCHANGED svars
  <2>1. UNCHANGED vars /\ search' = search /\ UNCHANGED <<table, size>>
    BY <1>6 DEF svars, vars
  <2>2. Walking' /\ SearchFindsAll'
    BY <2>1 DEF SearchInv, Walking, Steady, WalkedSoFar, Lists, Walked, Keyed, Live, At, Home,
                SearchFindsAll
  <2>3. Undisturbed'
    BY <2>1 DEF vars, locals, SearchInv, Undisturbed, Steady
  <2> QED
    BY <2>1, <2>2, <2>3, SameTable DEF SearchInv
<1> QED
  BY <1>1, <1>2, <1>3, <1>4, <1>5, <1>6 DEF SNext

(* A search of a table that nobody changes meanwhile returns every element *)
(* of its key, and each of them once, before it returns NULL: for every    *)
(* size, hash function and content of new memory, wherever the swaps and   *)
(* the growths before it have put the elements. rbhash_search_continue     *)
(* looks at no slot twice because rbhash_swapdown never goes once round    *)
(* the table.                                                              *)
THEOREM SearchReturnsAll ==
  ASSUME "remove" \notin Calls
  PROVE  SSpec => []SearchFindsAll
<1>1. SInit => SearchInv
  <2> SUFFICES ASSUME SInit PROVE SearchInv
    OBVIOUS
  <2>1. TableInv
    BY InitTable DEF SInit
  <2>2. NotRound
    <3>1. ctl = "idle" /\ maxdistance = 0 /\ size \in Nat \ {0}
      BY TableAssumption DEF SInit, Init
    <3> QED
      BY <3>1 DEF NotRound
  <2> QED
    BY <2>1, <2>2 DEF SInit, SearchInv, Undisturbed, Steady, Walking, SearchFindsAll
<1>2. SearchInv /\ [SNext]_svars => SearchInv'
  BY SearchStep
<1>3. SearchInv => SearchFindsAll
  BY DEF SearchInv
<1> QED
  BY <1>1, <1>2, <1>3, PTL DEF SSpec
(* A search changes nothing: the table under it is a table of Rbhash, for  *)
(* which the theorems on its safety hold.                                  *)
THEOREM SearchIsPassive == SSpec => Init /\ [][Next]_vars
<1>1. SInit => Init
  BY DEF SInit
<1>2. [SNext]_svars => [Next]_vars
  BY DEF SNext, svars, SearchNew, SearchContinue, SearchBeyond, SearchDangling, SearchDelete
<1> QED
  BY <1>1, <1>2, PTL DEF SSpec
=============================================================================
