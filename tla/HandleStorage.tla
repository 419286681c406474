---------------------------- MODULE HandleStorage ----------------------------
(***************************************************************************)
(* The handle table of skynet_handle.c: an open hash of contexts indexed   *)
(* by the low bits of their handles, which doubles when it is full, and    *)
(* the sorted table of local names. Every operation under the read-write   *)
(* lock is one step. Two things happen outside it: skynet_context_new      *)
(* stores the handle in the context only after skynet_handle_register has  *)
(* given up the lock, so that a registered context has handle 0 for a      *)
(* while, and skynet_handle_retireall takes the lock anew for every slot.  *)
(* The references to a context are the subject of module Kernel.           *)
(***************************************************************************)
EXTENDS Integers, Sequences, FiniteSets, FiniteSetsExt

CONSTANTS
  Contexts,         \* memory for contexts, used again after a release
  Launchers,        \* threads that run skynet_context_new
  Null,
  DefaultSlotSize,  \* DEFAULT_SLOT_SIZE, a power of two
  HandleCount,      \* HANDLE_MASK + 1, a power of two
  Harbors,          \* what harbor << HANDLE_REMOTE_SHIFT may be
  Names             \* local names, as numbers in the order of strcmp

Handles == {h + i : h \in Harbors \cup {0}, i \in 0..(HandleCount - 1)}

ASSUME HandleAssumption ==
  /\ IsFiniteSet(Contexts)
  /\ Null \notin Contexts \cup [ctx : Contexts, handle : Handles]
  /\ DefaultSlotSize \in Nat \ {0} /\ HandleCount \in Nat \ {0}
  /\ HandleCount % DefaultSlotSize = 0
  (* A power of two: what divides it can be doubled until it is reached.   *)
  /\ \A d \in 1..(HandleCount - 1) :
       HandleCount % d = 0 => HandleCount % (2 * d) = 0
  /\ \A h \in Harbors : h \in Nat /\ h % HandleCount = 0
  /\ Names \subseteq Nat \ {0}
  (* The assert on slot_size in skynet_handle_register: there is a handle  *)
  (* for every context there can be.                                       *)
  /\ Cardinality(Contexts) <= HandleCount

VARIABLES
  harbor, handle_index, slot,   \* handle_storage, slot from 0
  name,                         \* its name table
  handle,                       \* skynet_context.handle
  launch,      \* per launcher: the context and the handle it was given
  sweep,       \* where skynet_handle_retireall is: pc, i, handle, n
  before,      \* contexts that had a handle when its last pass began
  crashed      \* the assert on new_slot has failed

vars == <<harbor, handle_index, slot, name, handle, launch, sweep, before,
          crashed>>

slot_size == Cardinality(DOMAIN slot)
registered == {c \in Contexts : \E k \in DOMAIN slot : slot[k] = c}
pending(c) == \E l \in Launchers : launch[l] # Null /\ launch[l].ctx = c
settled == {c \in registered : ~pending(c)}

(* The type of the variables.                                              *)
TypeOK ==
  /\ harbor \in Harbors /\ handle_index \in 1..HandleCount
  /\ slot \in [0..(slot_size - 1) -> Contexts \cup {Null}]
  /\ name \in Seq([name : Names, handle : Handles])
  /\ handle \in [Contexts -> Handles]
  /\ launch \in [Launchers -> [ctx : Contexts, handle : Handles] \cup {Null}]
  /\ sweep \in [pc : {"none", "look", "retire", "done"},
                i : 0..HandleCount, handle : Handles, n : 0..HandleCount]
  /\ before \subseteq Contexts /\ crashed \in BOOLEAN

(* skynet_handle_init.                                                     *)
Init ==
  /\ harbor \in Harbors /\ handle_index = 1
  /\ slot = [k \in 0..(DefaultSlotSize - 1) |-> Null]
  /\ name = <<>>
  /\ handle = [c \in Contexts |-> 0]
  /\ launch = [l \in Launchers |-> Null]
  /\ sweep = [pc |-> "none", i |-> 0, handle |-> 0, n |-> 0]
  /\ before = {} /\ crashed = FALSE

-----------------------------------------------------------------------------
(* The slot of handle h in a table of size n: h & (n - 1).                 *)
hash(h, n) == h % n

(* The new table of a registration that finds no free slot.                *)
Mut_rehash(h, n) == hash(h, n \div 2)
rehash(h, n) == hash(h, n)
moved(k) == {i \in DOMAIN slot : rehash(handle[slot[i]], 2 * slot_size) = k}
new_slot == [k \in 0..(2 * slot_size - 1) |->
               IF moved(k) = {} THEN Null ELSE slot[Min(moved(k))]]

(* The i-th handle a registration tries.                                   *)
tried(i) == (i + handle_index) % HandleCount

(* skynet_handle_register, after skynet_context_new has set the handle of  *)
(* its new context to 0.                                                   *)
Register(l, c) ==
  /\ launch[l] = Null /\ c \notin registered /\ ~pending(c)
  /\ LET full  == \A k \in DOMAIN slot : slot[k] # Null
         table == IF full THEN new_slot ELSE slot
         size  == IF full THEN 2 * slot_size ELSE slot_size
         free  == {i \in 0..(size - 1) : table[hash(tried(i), size)] = Null}
         first == Min(free)
     IN  /\ slot' = [table EXCEPT ![hash(tried(first), size)] = c]
         /\ handle_index' = tried(first) + 1
         /\ launch' = [launch EXCEPT ![l] =
              [ctx |-> c, handle |-> tried(first) + harbor]]
         /\ crashed' = (full /\ \E k \in DOMAIN new_slot :
                                    Cardinality(moved(k)) > 1)
  /\ UNCHANGED <<harbor, name, handle, sweep, before>>

(* skynet_context_new stores the handle it was given.                      *)
Assign(l) ==
  /\ launch[l] # Null
  /\ handle' = [handle EXCEPT ![launch[l].ctx] = launch[l].handle]
  /\ launch' = [launch EXCEPT ![l] = Null]
  /\ UNCHANGED <<harbor, handle_index, slot, name, sweep, before, crashed>>

(* skynet_handle_grab: what a search for handle h finds.                   *)
grab(h) ==
  LET c == slot[hash(h, slot_size)]
  IN  IF c # Null /\ handle[c] = h THEN c ELSE Null

(* skynet_handle_retire of the handle of c: its slot is cleared, its names *)
(* are squeezed out of the table.                                          *)
Mut_unnamed(h) ==
  LET hits == {i \in DOMAIN name : name[i].handle = h}
  IN  IF hits = {} THEN name ELSE SubSeq(name, 1, Min(hits) - 1) \o
                                  SubSeq(name, Min(hits) + 1, Len(name))
unnamed(h) ==
  LET kept[i \in 0..Len(name)] ==
        IF i = 0 THEN <<>>
        ELSE IF name[i].handle = h THEN kept[i - 1]
        ELSE Append(kept[i - 1], name[i])
  IN  kept[Len(name)]

retire(c) ==
  /\ slot' = [slot EXCEPT ![hash(handle[c], slot_size)] = Null]
  /\ name' = unnamed(handle[c])
  /\ handle' = [handle EXCEPT ![c] = 0]
  /\ before' = before \ {c}

(* A service exits or is killed.                                           *)
Retire(c) ==
  /\ c \in settled /\ grab(handle[c]) = c
  /\ retire(c)
  /\ UNCHANGED <<harbor, handle_index, launch, sweep, crashed>>

-----------------------------------------------------------------------------
(* skynet_handle_retireall, which ABORT runs. It skips handle 0, and reads *)
(* the size of the table again before every slot.                          *)
Mut_last_slot == DefaultSlotSize - 1
last_slot == slot_size - 1

has_handle == {c \in settled : handle[c] # 0}

SweepPass ==
  /\ \/ sweep.pc \in {"none", "done"}
     \/ sweep.pc = "look" /\ sweep.i > last_slot
  /\ IF sweep.pc = "look" /\ sweep.n = 0
     THEN sweep' = [sweep EXCEPT !.pc = "done"] /\ UNCHANGED before
     ELSE /\ sweep' = [pc |-> "look", i |-> 0, handle |-> 0, n |-> 0]
          /\ before' = has_handle
  /\ UNCHANGED <<harbor, handle_index, slot, name, handle, launch, crashed>>

SweepLook ==
  /\ sweep.pc = "look" /\ sweep.i <= last_slot
  /\ LET c == slot[sweep.i]
         h == IF c = Null THEN 0 ELSE handle[c]
     IN  sweep' = IF h = 0 THEN [sweep EXCEPT !.i = @ + 1]
                  ELSE [sweep EXCEPT !.pc = "retire", !.handle = h]
  /\ UNCHANGED <<harbor, handle_index, slot, name, handle, launch, before,
                 crashed>>

SweepRetire ==
  /\ sweep.pc = "retire"
  /\ LET c == grab(sweep.handle)
     IN  /\ sweep' = [pc |-> "look", i |-> sweep.i + 1, handle |-> 0,
                      n |-> IF c = Null THEN sweep.n ELSE sweep.n + 1]
         /\ IF c = Null THEN UNCHANGED <<slot, name, handle, before>>
                        ELSE retire(c)
  /\ UNCHANGED <<harbor, handle_index, launch, crashed>>

-----------------------------------------------------------------------------
(* The binary search of skynet_handle_findname and _insert_name: where it  *)
(* stops, and whether it found the name there.                             *)
search(n) ==
  LET step[w \in [begin : 1..(Len(name) + 1), end : 0..Len(name)]] ==
        LET mid == (w.begin + w.end - 2) \div 2 + 1
        IN  IF w.begin > w.end THEN [found |-> FALSE, at |-> w.begin]
            ELSE IF name[mid].name = n THEN [found |-> TRUE, at |-> mid]
            ELSE IF name[mid].name < n THEN step[[w EXCEPT !.begin = mid + 1]]
            ELSE step[[w EXCEPT !.end = mid - 1]]
  IN  step[[begin |-> 1, end |-> Len(name)]]

skynet_handle_findname(n) ==
  IF search(n).found THEN name[search(n).at].handle ELSE 0

(* _insert_name_before.                                                    *)
Mut_inserted(e, at) == Append(name, e)
inserted(e, at) ==
  SubSeq(name, 1, at - 1) \o <<e>> \o SubSeq(name, at, Len(name))

(* skynet_handle_namehandle: REG of a service, or NAME with any handle it  *)
(* knows, of a dead service too. A name that is taken stays as it is.      *)
NameHandle(h, n) ==
  /\ ~search(n).found
  /\ name' = inserted([name |-> n, handle |-> h], search(n).at)
  /\ UNCHANGED <<harbor, handle_index, slot, handle, launch, sweep, before,
                 crashed>>

Next ==
  \/ \E l \in Launchers, c \in Contexts : Register(l, c)
  \/ \E l \in Launchers : Assign(l)
  \/ \E c \in Contexts : Retire(c)
  \/ SweepPass \/ SweepLook \/ SweepRetire
  \/ \E h \in harbor..(harbor + HandleCount - 1), n \in Names :
       h # 0 /\ NameHandle(h, n)

Spec == Init /\ [][Next]_vars

-----------------------------------------------------------------------------
(* A search finds every context under the handle its launcher was or will  *)
(* be told, whatever doubling and wrapping came between: no service is in  *)
(* the table and out of reach, no two have the same handle, and no two     *)
(* move to one slot when the table doubles (the assert on new_slot).       *)
Findable ==
  /\ ~crashed
  /\ \A c \in settled : grab(handle[c]) = c
  /\ \A l \in Launchers : launch[l] # Null =>
       slot[hash(launch[l].handle, slot_size)] = launch[l].ctx

(* When skynet_handle_retireall returns, every service that had its handle *)
(* when the last pass began is gone, though services are launched and the  *)
(* table doubles under its feet.                                           *)
SweepComplete == sweep.pc = "done" => before = {}

(* The binary search finds exactly the names in the table, after any       *)
(* sequence of insertions and of squeezing out by retired services.        *)
NameFound ==
  \A n \in Names : skynet_handle_findname(n) =
    IF \E i \in DOMAIN name : name[i].name = n
    THEN (CHOOSE e \in {name[i] : i \in DOMAIN name} : e.name = n).handle
    ELSE 0

(* A retired service leaves no name behind, and takes no other's with it.  *)
RetiredUnnamed ==
  [][\A c \in settled : c \notin registered' =>
       {name'[i] : i \in DOMAIN name'} =
       {e \in {name[i] : i \in DOMAIN name} : e.handle # handle[c]}]_vars
=============================================================================
