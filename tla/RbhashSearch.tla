----------------------------- MODULE RbhashSearch -----------------------------
(***************************************************************************)
(* rbhash_search_new, _continue and _delete of core/rbhash.c: a cursor over *)
(* the elements of one key, which a table without add_unique may hold       *)
(* several times. The cursor is a private object of the caller; the table   *)
(* does not know of it and changes under it. (Nobody in the program calls   *)
(* them; rbhash.h offers them.)                                             *)
(***************************************************************************)
EXTENDS Rbhash, Sequences

CONSTANTS
  SearchKeys,   \* the keys that are searched for
  SearchFrom    \* bound: searches begin on tables of as many elements

ASSUME SearchAssumption == SearchKeys \subseteq Keys

VARIABLE search   \* <<>>, or the rbhashSearch_s of the one open search

svars == <<vars, search>>

MutOpened(k) ==
  [key |-> k, slot |-> Home(Hash[k]), maxscan |-> maxdistance, how |-> "open",
   found |-> <<>>, steady |-> TRUE]

(* found and steady are history: is the table still the one that the       *)
(* search began on, and if so the slots returned from it.                  *)
Opened(k) ==
  [key |-> k, slot |-> Home(Hash[k]), maxscan |-> maxdistance + 1, how |-> "open",
   found |-> <<>>, steady |-> TRUE]

After(b, d) == (b + d) % size

(* How many slots on, of the n it may look at, the search meets its key.   *)
Hits(n) ==
  {d \in 0 .. n - 1 :
     LET s == table[After(search.slot, d)]
     IN  s.live /\ s.hash = Hash[search.key] /\ s.key = search.key}

Searching(how) == ctl = "idle" /\ search # <<>> /\ search.how = how

SearchNew ==
  /\ ctl = "idle" /\ search = <<>> /\ count >= SearchFrom
  /\ \E k \in SearchKeys : search' = Opened(k)
  /\ UNCHANGED vars

Noted(b) == IF search.steady THEN Append(search.found, b) ELSE <<>>

Found(d) ==
  search' = [search EXCEPT !.slot = After(@, d + 1), !.maxscan = @ - (d + 1),
                           !.found = Noted(After(search.slot, d))]

SearchContinue ==
  /\ Searching("open")
  /\ LET hits == Hits(search.maxscan)
     IN  IF hits = {}
         THEN search' = [search EXCEPT !.slot = After(@, search.maxscan), !.how = "over"]
         ELSE Found(Nearest(hits))
  /\ UNCHANGED vars

(* A search that said NULL and is continued decrements maxscan at 0, to    *)
(* 2^64 - 1, and has no limit any more: it returns what it returned        *)
(* before, or does not come back if the key is not there at all.           *)
SearchBeyond ==
  /\ Searching("over")
  /\ search' = [search EXCEPT !.how = IF Hits(size) = {} THEN "spins" ELSE "again"]
  /\ UNCHANGED vars

(* search->table points into the table that a growth has freed.            *)
SearchDangling ==
  /\ Searching("dangling")
  /\ search' = [search EXCEPT !.how = "undef"]
  /\ UNCHANGED vars

SearchDelete ==
  /\ ctl = "idle" /\ search # <<>> /\ search.how \notin {"undef", "spins"}
  /\ search' = <<>>
  /\ UNCHANGED vars

(* What the steps of the other calls leave of the search.                  *)
Under ==
  search' = IF search = <<>> \/ table' = table THEN search
            ELSE [search EXCEPT !.steady = FALSE, !.found = <<>>,
                                !.how = IF old' # old THEN "dangling" ELSE @]

Proceeds == search # <<>> => search.how \notin {"undef", "spins"}

SInit == Init /\ search = <<>>

SNext ==
  \/ Proceeds /\ Next /\ Under
  \/ SearchNew \/ SearchContinue \/ SearchBeyond \/ SearchDangling \/ SearchDelete

SSpec == SInit /\ [][SNext]_svars /\ WF_svars(Proceeds /\ Step /\ Under)

-----------------------------------------------------------------------------
(* rbhash.h: "with search can get duplicate key in hash". A search of a    *)
(* table that nobody changes meanwhile returns each element of its key     *)
(* once before it returns NULL, wherever swaps and growths have put them.  *)
SearchFindsAll ==
  search # <<>> /\ search.steady /\ search.how = "over" =>
    /\ {search.found[n] : n \in DOMAIN search.found} =
         {b \in Live(table) : table[b].key = search.key}
    /\ \A m, n \in DOMAIN search.found : m # n => search.found[m] # search.found[n]
=============================================================================
