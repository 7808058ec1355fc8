-------------------------------- MODULE Rbhash --------------------------------
(***************************************************************************)
(* The robin hood hash table of core/rbhash.c. A call is one action when   *)
(* it does not loop over slots that it writes; rbhash_add_hash and the     *)
(* rbhash_upsize it may end with are one action per iteration of           *)
(* rbhash_swapdown's loop and of upsize's scan of the old table.           *)
(*                                                                         *)
(* While a table grows, `table' is the newtable of rbhash_upsize and `old' *)
(* the rbh->table it is filled from. A key is a value that stands for its  *)
(* bytes and its length (not 0, which marks a free slot); `live' stands    *)
(* for len # 0.                                                            *)
(***************************************************************************)
EXTENDS Integers, FiniteSets

CONSTANTS
  Keys,          \* the keys callers pass
  Hash,          \* rbh->hashing of each key
  Datas,         \* the data callers pass
  NULL,          \* the null pointer
  Sizes,         \* the sizes a table may have: powers of two, up to a bound
  Min,           \* rbh->min, a percentage
  Fill,          \* what the slots of a malloc'ed table may hold
  StartsWithNul, \* key bytes, of Keys or of Fill, whose key[0] is 0
  TooLong,       \* the keys of Keys longer than rbh->keySize
  MallocFails,   \* may malloc fail?
  Calls,         \* the functions callers use
  MaxCount       \* bound on the elements callers add

Slot == [live : BOOLEAN, key : Keys \cup {s.key : s \in Fill},
         hash : Nat, dist : Nat, data : Datas \cup {NULL} \cup {s.data : s \in Fill}]

ASSUME TableAssumption ==
  /\ Keys # {} /\ Hash \in [Keys -> Nat]
  /\ Sizes \subseteq Nat \ {0} /\ Sizes # {}
  /\ Min \in 0 .. 100
  /\ Fill \subseteq Slot /\ \A s \in Fill : s.live = FALSE
  /\ MallocFails \in BOOLEAN

VARIABLES
  table, size,   \* the table being filled and its size
  old, scan,     \* while it grows, the table it replaces and upsize's i
  count, maxdistance,
  ctl,           \* "idle" between calls, or where the running call is
  nw, bucket, i, \* the locals of rbhash_swapdown
  call,          \* the arguments of the running or last rbhash_add
  ret,           \* what the last call returned
  deleted        \* what rbh->del was called on by the last call that took
                 \* elements out

locals == <<nw, bucket, i>>
vars == <<table, size, old, scan, count, maxdistance, ctl, locals, call, ret, deleted>>

-----------------------------------------------------------------------------
Home(h) == h % size                                   \* rbhash_slot

MutFollowing(b) == b + 1

Following(b) == IF b + 1 = size THEN 0 ELSE b + 1     \* rbhash_slot_next

(* The slot d places after the home of h, for d up to size.                *)
At(h, d) == IF Home(h) + d < size THEN Home(h) + d ELSE Home(h) + d - size

Live(t) == {b \in DOMAIN t : t[b].live}

MutMatches(k) ==
  {d \in 0 .. maxdistance - 1 :
     LET s == table[At(Hash[k], d)] IN s.live /\ s.hash = Hash[k] /\ s.key = k}

(* rbhash_find_bucket: of the maxdistance + 1 slots it looks at, how far   *)
(* from their home are those that hold the key.                            *)
Matches(k) ==
  {d \in 0 .. maxdistance :
     LET s == table[At(Hash[k], d)] IN s.live /\ s.hash = Hash[k] /\ s.key = k}

Nearest(ds) == CHOOSE d \in ds : \A e \in ds : d <= e

BucketOf(k) == At(Hash[k], Nearest(Matches(k)))

Find(k) == IF Matches(k) = {} THEN NULL ELSE table[BucketOf(k)].data

-----------------------------------------------------------------------------
Fresh(n) == [0 .. n - 1 -> Fill]

NoLocals == nw = <<>> /\ bucket = 0 /\ i = 0

Init ==
  /\ size \in Sizes /\ table \in Fresh(size)
  /\ old = <<>> /\ scan = 0
  /\ count = 0 /\ maxdistance = 0
  /\ ctl = "idle" /\ NoLocals
  /\ call = <<>> /\ ret = 0 /\ deleted = {}

Element(k, d) == [live |-> TRUE, key |-> k, hash |-> Hash[k], dist |-> 0, data |-> d]

Returns(r) == ctl' = "idle" /\ ret' = r

(* rbhash_swapdown starts with element e.                                  *)
SwapDown(e) == ctl' = "probe" /\ nw' = e /\ bucket' = Home(e.hash) /\ i' = 0

(* rbhash_add, or rbhash_add_unique of a key that is not found.            *)
Adds(k) == "add" \in Calls \/ ("add_unique" \in Calls /\ Find(k) = NULL)

Add(k, d) ==
  /\ ctl = "idle" /\ Adds(k) /\ k \notin TooLong /\ count < MaxCount
  /\ call' = <<k, d>>
  /\ SwapDown(Element(k, d))
  /\ UNCHANGED <<table, size, old, scan, count, maxdistance, ret, deleted>>

(* EFBIG, no memory for the element, or a key that is there already.       *)
AddRefused(k) ==
  /\ ctl = "idle"
  /\ \/ Adds(k) /\ (k \in TooLong \/ MallocFails)
     \/ "add_unique" \in Calls /\ Find(k) # NULL
  /\ call' = <<>> /\ Returns(-1)
  /\ UNCHANGED <<table, size, old, scan, count, maxdistance, locals, deleted>>

-----------------------------------------------------------------------------
(* rbhash_swapdown. An element farther from its home than the one in the   *)
(* slot takes the slot, and the other one goes on.                         *)

Farther == nw.dist > table[bucket].dist

MutReach(d) == maxdistance

Reach(d) == IF d > maxdistance THEN d ELSE maxdistance

ProbeNext ==
  /\ ctl = "probe" /\ i < size /\ table[bucket].live
  /\ LET carried == IF Farther THEN table[bucket] ELSE nw
     IN  /\ nw' = [carried EXCEPT !.dist = @ + 1]
         /\ maxdistance' = Reach(nw'.dist)
  /\ table' = IF Farther THEN [table EXCEPT ![bucket] = nw] ELSE table
  /\ bucket' = Following(bucket) /\ i' = i + 1
  /\ UNCHANGED <<size, old, scan, count, ctl, call, ret, deleted>>

ProbeEnds(next) == ctl' = next /\ nw' = <<>> /\ bucket' = 0 /\ i' = 0

ProbePlace ==
  /\ ctl = "probe" /\ ~table[bucket].live
  /\ table' = [table EXCEPT ![bucket] = nw]
  /\ ProbeEnds(IF old = <<>> THEN "added" ELSE "scan")
  /\ UNCHANGED <<size, old, scan, count, maxdistance, call, ret, deleted>>

(* exit(1)                                                                 *)
ProbeFull ==
  /\ ctl = "probe" /\ i = size /\ table[bucket].live
  /\ ctl' = "exit"
  /\ UNCHANGED <<table, size, old, scan, count, maxdistance, locals, call, ret, deleted>>

-----------------------------------------------------------------------------
(* The end of rbhash_add_hash, and rbhash_upsize.                          *)

Spare(n) == (n * Min) \div 100 + 1       \* p in rbhash_upsize

MutRoundUp(n) == {s \in Sizes : s <= n /\ \A r \in Sizes : r <= n => r <= s}

RoundUp(n) == {s \in Sizes : s >= n /\ \A r \in Sizes : r >= n => s <= r}

MutKeeps == ctl = "added" /\ count' = count

Keeps == ctl = "added" /\ count' = count + 1

MutEnough(c) == Min # 0 \/ size > c + Spare(size)

Enough(c) == Min = 0 \/ size > c + Spare(size)

AddEnds ==
  /\ Keeps /\ Enough(count')
  /\ Returns(0)
  /\ UNCHANGED <<table, size, old, scan, maxdistance, locals, call, deleted>>

UpsizeFails ==
  /\ Keeps /\ ~Enough(count') /\ MallocFails
  /\ Returns(-1)
  /\ UNCHANGED <<table, size, old, scan, maxdistance, locals, call, deleted>>

Upsize ==
  /\ Keeps /\ ~Enough(count')
  /\ size' \in RoundUp(size + Spare(size)) /\ table' \in Fresh(size')
  /\ old' = table /\ scan' = 0
  /\ maxdistance' = 0
  /\ ctl' = "scan"
  /\ UNCHANGED <<locals, call, ret, deleted>>

MutScanSkip ==
  /\ ctl = "scan" /\ scan \in DOMAIN old /\ old[scan].key \in StartsWithNul
  /\ UNCHANGED vars

(* A slot is known to be empty by the first byte of its key, not by len.   *)
ScanSkip ==
  /\ ctl = "scan" /\ scan \in DOMAIN old /\ old[scan].key \in StartsWithNul
  /\ scan' = scan + 1
  /\ UNCHANGED <<table, size, old, count, maxdistance, ctl, locals, call, ret, deleted>>

MutScanMove ==
  /\ ctl = "scan" /\ scan \in DOMAIN old /\ old[scan].key \notin StartsWithNul
  /\ scan' = scan + 1
  /\ SwapDown(old[scan])
  /\ UNCHANGED <<table, size, old, count, maxdistance, call, ret, deleted>>

ScanMove ==
  /\ ctl = "scan" /\ scan \in DOMAIN old /\ old[scan].key \notin StartsWithNul
  /\ scan' = scan + 1
  /\ SwapDown([old[scan] EXCEPT !.dist = 0])
  /\ UNCHANGED <<table, size, old, count, maxdistance, call, ret, deleted>>

ScanEnds ==
  /\ ctl = "scan" /\ scan \notin DOMAIN old
  /\ old' = <<>> /\ scan' = 0
  /\ Returns(0)
  /\ UNCHANGED <<table, size, count, maxdistance, locals, call, deleted>>

-----------------------------------------------------------------------------
(* rbhash_remove. rbhash_swapup moves the next element into the free slot  *)
(* as it is, unless it is at home; it loops once, because the pointer its  *)
(* condition tests is not the one it advances.                             *)

MutFreed(s) == [s EXCEPT !.live = FALSE]

Freed(s) == [s EXCEPT !.live = FALSE, !.data = NULL]

SwapUp(b) ==
  LET n == Following(b)
  IN  IF n # b /\ table[n].live /\ table[n].dist # 0
      THEN [table EXCEPT ![b] = table[n], ![n] = Freed(table[n])]
      ELSE [table EXCEPT ![b] = Freed(@)]

Remove(k) ==
  /\ ctl = "idle" /\ "remove" \in Calls
  /\ call' = <<>>
  /\ \/ Matches(k) = {} /\ Returns(-1) /\ UNCHANGED <<table, count, deleted>>
     \/ /\ Matches(k) # {} /\ Returns(0)
        /\ deleted' = {table[BucketOf(k)].data} \ {NULL}
        /\ table' = SwapUp(BucketOf(k))
        /\ count' = count - 1
  /\ UNCHANGED <<size, old, scan, maxdistance, locals>>

(* rbhash_free                                                             *)
Occupied(t) == {b \in DOMAIN t : t[b].key \notin StartsWithNul}

Free ==
  /\ ctl = "idle" /\ "free" \in Calls
  /\ deleted' = {table[b].data : b \in Occupied(table)} \ {NULL}
  /\ count' = count - Cardinality(Occupied(table))
  /\ table' = <<>> /\ ctl' = "freed" /\ call' = <<>>
  /\ UNCHANGED <<size, old, scan, maxdistance, locals, ret>>

-----------------------------------------------------------------------------
(* What is left of a call that has begun.                                  *)
Step ==
  \/ ProbeNext \/ ProbePlace \/ ProbeFull
  \/ AddEnds \/ UpsizeFails \/ Upsize \/ ScanSkip \/ ScanMove \/ ScanEnds

Next ==
  \/ Step \/ Free
  \/ \E k \in Keys : AddRefused(k) \/ Remove(k) \/ \E d \in Datas : Add(k, d)

(* A call that has begun runs on; nobody has to make another one.          *)
Spec == Init /\ [][Next]_vars /\ WF_vars(Step)

-----------------------------------------------------------------------------
(* The tables hold slots, and the locals of rbhash_swapdown stay in range. *)
TypeOK ==
  /\ size \in Sizes
  /\ table \in [0 .. size - 1 -> Slot] \/ (ctl = "freed" /\ table = <<>>)
  /\ old = <<>> \/ \E n \in Sizes : old \in [0 .. n - 1 -> Slot]
  /\ scan \in Nat
  /\ count \in Int /\ maxdistance \in 0 .. size
  /\ ctl \in {"idle", "probe", "added", "scan", "exit", "freed"}
  /\ ctl \in {"probe", "exit"} => nw \in Slot /\ bucket \in 0 .. size - 1 /\ i \in 0 .. size
  /\ ret \in {-1, 0}

PairOf(s) == <<s.key, s.data>>

Pairs(t) == {PairOf(t[b]) : b \in Live(t)}

(* How many elements of a set the table holds: those of its live slots,    *)
(* those upsize has still to move, and the one rbhash_swapdown carries.    *)
Holding(t, elements) == {b \in Live(t) : PairOf(t[b]) \in elements}

Unmoved == [b \in {c \in DOMAIN old : c >= scan} |-> old[b]]

Carried(elements) ==
  IF ctl \in {"probe", "exit"} /\ nw.live /\ PairOf(nw) \in elements THEN 1 ELSE 0

Held(elements) ==
  Cardinality(Holding(table, elements)) + Cardinality(Holding(Unmoved, elements)) + Carried(elements)

(* Every element is as far from the home of its hash as it says, and no    *)
(* farther than maxdistance, the number of slots a find looks at, through  *)
(* all the swaps and moves of rbhash_swapdown and rbhash_upsize.           *)
Placed ==
  \A b \in Live(table) :
    LET s == table[b]
    IN  s.dist <= maxdistance /\ s.hash = Hash[s.key] /\ b = At(s.hash, s.dist)

(* rbhash.h: rbhash_find returns "user data associated to key". Between    *)
(* calls, every key that was added and not removed is found, with data     *)
(* that was added for it, and no other key is.                             *)
FindsStored ==
  ctl = "idle" =>
    \A k \in Keys :
      IF \E d \in Datas : <<k, d>> \in Pairs(table)
      THEN Matches(k) # {} /\ <<k, Find(k)>> \in Pairs(table)
      ELSE Matches(k) = {}

(* rbhash.h: count is the "bucket used".                                   *)
CountsLive == ctl = "idle" => count = Cardinality(Live(table))

(* rbhash.h: min is the "percentage min need to be available". When an     *)
(* rbhash_add has returned 0, that share of the table is free. (After a    *)
(* growth that failed, the next one makes up for it only if it asks for    *)
(* less than half of the table.)                                           *)
KeepsMin ==
  /\ Min # 0 /\ (MallocFails => 2 * Min < 100)
  /\ ctl = "idle" /\ call # <<>> /\ ret = 0
  => size - count > (size * Min) \div 100

(* rbhash.h says of rbhash_add that it returns -1, "fail if no space left".*)
(* The code ends the process instead when every slot is taken. With a      *)
(* share to keep free it does so only where allocations fail, in an add    *)
(* that comes right after a call that has returned -1, and never while it  *)
(* moves elements to a larger table: no add that returned 0 has filled the *)
(* last slot.                                                              *)
ExitsForewarned == ctl = "exit" /\ Min # 0 => MallocFails /\ ret = -1 /\ old = <<>>

(* rbhash_add_unique never adds a key twice, as long as no element was     *)
(* removed: after that a find may miss a key, and it is added again.       *)
KeysUnique ==
  deleted = {} => \A b, c \in Live(table) : b # c => table[b].key # table[c].key

(* Whatever its slots look like, the table is the collection of elements   *)
(* of RbhashStore: an add adds one element, a remove takes out one, free   *)
(* all of them, the delete function is called on theirs alone, and all the *)
(* swapping, growing and refusing adds or loses nothing.                   *)
Store == INSTANCE RbhashStore WITH stored <- [e \in Keys \X Datas |-> Held({e})]

ImplementsStore == Store!Spec

(* A call returns, or exits: no probe and no growth goes on for ever.      *)
Terminates == ctl \in {"probe", "added", "scan"} ~> ctl \in {"idle", "exit"}
=============================================================================
