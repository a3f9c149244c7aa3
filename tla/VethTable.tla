------------------------------ MODULE VethTable -----------------------------
(***************************************************************************)
(* The table of the ports (src/lib/veth_list.c) and the hash table it is   *)
(* made of (src/lib/uthash.h): the entries in the order of their addition, *)
(* and a chain of entries for each bucket, newest first.  The buckets are  *)
(* doubled when a chain grows too long.                                    *)
(*                                                                         *)
(* An entry keeps the first 15 characters of its prefix; Cut says what is  *)
(* left of a prefix.  Any function may be the hash function.  One thread   *)
(* at a time uses the table (UnloadsAlone in module Daemon).               *)
(***************************************************************************)
EXTENDS Integers, Sequences, Functions, FiniteSetsExt

Sq == INSTANCE SequencesExt

CONSTANTS
  Prefixes,                   \* the prefixes that clients send
  Cut,                        \* Cut[p]: what an entry keeps of a prefix
  HASH_FUNCTION,              \* HASH_FUNCTION[p]: the hash of a prefix
  Entries,                    \* the blocks that malloc may return
  HASH_INITIAL_NUM_BUCKETS,   \* 32
  HASH_BKT_CAPACITY_THRESH    \* 10

NULL == "NULL"

ASSUME VethTableAssumption ==
  /\ Cut \in [Prefixes -> Prefixes] /\ \A p \in Prefixes : Cut[Cut[p]] = Cut[p]
  /\ HASH_FUNCTION \in [Prefixes -> Nat]
  /\ HASH_INITIAL_NUM_BUCKETS \in Nat \ {0} /\ HASH_BKT_CAPACITY_THRESH \in Nat \ {0}
  /\ NULL \notin Entries \cup Prefixes

VARIABLES
  veths,     \* the table
  prefix,    \* prefix[e]: the key that entry e holds
  mode,      \* "serve", "unload" while unload_list runs, then "exited"
  current,   \* the entry unload_list is at
  tmp,       \* the one it goes to next
  last       \* the call that returned last, and its result

vars == <<veths, prefix, mode, current, tmp, last>>

-----------------------------------------------------------------------------
(* The hash table.                                                         *)

\* The buckets of a table with n of them that has no entries.
HASH_MAKE_TABLE ==
  LET Buckets == 0 .. HASH_INITIAL_NUM_BUCKETS - 1 IN
  [list |-> <<>>, num_buckets |-> HASH_INITIAL_NUM_BUCKETS,
   chain |-> [b \in Buckets |-> <<>>], expand_mult |-> [b \in Buckets |-> 0],
   ideal_chain_maxlen |-> 0, ineff_expands |-> 0, noexpand |-> FALSE]

HASH_TO_BKT(p, num_buckets) == HASH_FUNCTION[p] % num_buckets

\* The newest entry with key p.
HASH_FIND(t, p) ==
  LET chain == t.chain[HASH_TO_BKT(p, t.num_buckets)]
      found == {i \in DOMAIN chain : prefix[chain[i]] = p}
  IN IF found = {} THEN NULL ELSE chain[Min(found)]

\* Entry e goes to the front of a bucket, whose threshold is raised when it gets
\* more than its share, ideal, and as many times it as was granted before.
Put(bkt, e, ideal) ==
  LET count == Len(bkt.chain) + 1
  IN [chain |-> <<e>> \o bkt.chain,
      expand_mult |-> IF count > ideal /\ count > bkt.expand_mult * ideal
                      THEN bkt.expand_mult + 1 ELSE bkt.expand_mult]

\* What bucket b of n gets of an old chain, which is walked from its front.
Moved(chain, key, n, b, ideal) ==
  LET bkt[i \in 0 .. Len(chain)] ==
        IF i = 0 THEN [chain |-> <<>>, expand_mult |-> 0]
        ELSE IF HASH_TO_BKT(key[chain[i]], n) = b THEN Put(bkt[i - 1], chain[i], ideal)
        ELSE bkt[i - 1]
  IN bkt[Len(chain)]

\* How many entries are more than their buckets' share.
NonidealItems(bkts, ideal) ==
  MapThenSumSet(LAMBDA b : Max({0, Len(bkts[b].chain) - ideal}), DOMAIN bkts)

\* Twice as many buckets; when that did not help two times in a row, it is not
\* done again.
HASH_EXPAND_BUCKETS(t, key) ==
  LET n == 2 * t.num_buckets
      items == Len(t.list)
      ideal == (items \div n) + (IF items % n # 0 THEN 1 ELSE 0)
      bkts == [b \in 0 .. n - 1 |-> Moved(t.chain[b % t.num_buckets], key, n, b, ideal)]
      ineff == IF NonidealItems(bkts, ideal) > items \div 2 THEN t.ineff_expands + 1 ELSE 0
  IN [list |-> t.list, num_buckets |-> n,
      chain |-> [b \in 0 .. n - 1 |-> bkts[b].chain],
      expand_mult |-> [b \in 0 .. n - 1 |-> bkts[b].expand_mult],
      ideal_chain_maxlen |-> ideal, ineff_expands |-> ineff, noexpand |-> ineff > 1]

\* Mutant of HASH_ADD: an entry that makes the buckets double keeps the bucket
\* it was put into.
HASH_ADD_StaysPut(t, key, e) ==
  LET b == HASH_TO_BKT(key[e], t.num_buckets)
      added == [t EXCEPT !.list = Append(@, e), !.chain[b] = <<e>> \o @]
      full == Len(added.chain[b]) >= (t.expand_mult[b] + 1) * HASH_BKT_CAPACITY_THRESH
      grown == HASH_EXPAND_BUCKETS([t EXCEPT !.list = Append(@, e)], key)
  IN IF full /\ ~t.noexpand THEN [grown EXCEPT !.chain[b] = <<e>> \o @] ELSE added

\* Mutant of HASH_ADD: no chain is ever too long.
HASH_ADD_NeverGrows(t, key, e) ==
  LET b == HASH_TO_BKT(key[e], t.num_buckets)
  IN [t EXCEPT !.list = Append(@, e), !.chain[b] = <<e>> \o @]

\* Entry e goes to the end of the list and to the front of its chain, which may
\* then be too long.
HASH_ADD(t, key, e) ==
  LET b == HASH_TO_BKT(key[e], t.num_buckets)
      added == [t EXCEPT !.list = Append(@, e), !.chain[b] = <<e>> \o @]
      full == Len(added.chain[b]) >= (t.expand_mult[b] + 1) * HASH_BKT_CAPACITY_THRESH
  IN IF full /\ ~t.noexpand THEN HASH_EXPAND_BUCKETS(added, key) ELSE added

Position(s, e) == CHOOSE i \in DOMAIN s : s[i] = e
Without(s, e) == Sq!RemoveAt(s, Position(s, e))

\* Entry e leaves the list and its chain; with the last entry the table goes.
HASH_DEL(t, e) ==
  IF t.list = <<e>>
  THEN HASH_MAKE_TABLE
  ELSE [t EXCEPT !.list = Without(@, e),
                 !.chain[HASH_TO_BKT(prefix[e], t.num_buckets)] = Without(@, e)]

\* HASH_ITER: the entry after e in the order of addition.
Successor(t, e) ==
  LET i == Position(t.list, e)
  IN IF i = Len(t.list) THEN NULL ELSE t.list[i + 1]

-----------------------------------------------------------------------------
(* The calls of the daemon.                                                *)

Live == Range(veths.list)

Init ==
  /\ veths = HASH_MAKE_TABLE
  /\ prefix = [e \in Entries |-> NULL]
  /\ mode = "serve"
  /\ current = NULL /\ tmp = NULL
  /\ last = [op |-> "none"]

Return(op, p, ret) == last' = [op |-> op, prefix |-> p, ret |-> ret]

\* Mutant of veth_list_add: veth_list_add does not look for the prefix first.
veth_list_add_Again(p) ==
  /\ mode = "serve"
  /\ \E e \in Entries \ Live :
       /\ prefix' = [prefix EXCEPT ![e] = Cut[p]]
       /\ veths' = HASH_ADD(veths, prefix', e)
  /\ Return("add", p, 0)
  /\ UNCHANGED <<mode, current, tmp>>

\* veth_list_add: there may be no memory for the entry.
veth_list_add(p) ==
  /\ mode = "serve"
  /\ \/ /\ HASH_FIND(veths, p) = NULL
        /\ \E e \in Entries \ Live :
             /\ prefix' = [prefix EXCEPT ![e] = Cut[p]]
             /\ veths' = HASH_ADD(veths, prefix', e)
        /\ Return("add", p, 0)
     \/ Return("add", p, -1) /\ UNCHANGED <<veths, prefix>>
  /\ UNCHANGED <<mode, current, tmp>>

\* veth_list_remove, whoever calls it: the entry found is deleted and freed.
RemoveFound(p) ==
  LET e == HASH_FIND(veths, p)
  IN IF e = NULL
     THEN Return("remove", p, -1) /\ UNCHANGED <<veths, prefix>>
     ELSE /\ veths' = HASH_DEL(veths, e)
          /\ prefix' = [prefix EXCEPT ![e] = NULL]
          /\ Return("remove", p, 0)

\* veth_list_remove for delete_port.
veth_list_remove(p) ==
  /\ mode = "serve"
  /\ RemoveFound(p)
  /\ UNCHANGED <<mode, current, tmp>>

\* uthash exits when it gets no memory for a table or for its buckets.
OutOfMemory ==
  /\ mode = "serve"
  /\ mode' = "exited"
  /\ UNCHANGED <<veths, prefix, current, tmp, last>>

\* unload_list begins.
Unload ==
  /\ mode = "serve"
  /\ mode' = "unload"
  /\ current' = IF veths.list = <<>> THEN NULL ELSE Head(veths.list)
  /\ tmp' = IF current' = NULL THEN NULL ELSE Successor(veths, current')
  /\ UNCHANGED <<veths, prefix, last>>

\* Mutant of UnloadNext: the next entry is looked up after the deletion, in
\* the entry that was deleted.
UnloadNextLate ==
  /\ mode = "unload" /\ current \in Live
  /\ RemoveFound(prefix[current])
  /\ current' = current /\ tmp' = NULL
  /\ UNCHANGED mode

\* delete_port on the entry, which is freed, then on to the next.  What a freed
\* entry says of its successor, or of its prefix, is anything.
UnloadNext ==
  /\ mode = "unload" /\ current \in Live
  /\ RemoveFound(prefix[current])
  /\ current' = tmp
  /\ tmp' \in IF tmp = NULL THEN {NULL}
              ELSE IF tmp \in Range(veths'.list) THEN {Successor(veths', tmp)}
              ELSE Entries \cup {NULL}
  /\ UNCHANGED mode

Unloaded ==
  /\ mode = "unload" /\ current = NULL
  /\ mode' = "exited"
  /\ UNCHANGED <<veths, prefix, current, tmp, last>>

\* Nothing follows the exit, and nothing is known of what follows the use of a
\* freed entry.
Over ==
  /\ mode = "exited" \/ (mode = "unload" /\ current \notin Live \cup {NULL})
  /\ UNCHANGED vars

Next ==
  \/ \E p \in Prefixes : veth_list_add(p) \/ veth_list_remove(p)
  \/ OutOfMemory \/ Unload \/ UnloadNext \/ Unloaded \/ Over

Spec == Init /\ [][Next]_vars
-----------------------------------------------------------------------------
(* Properties.                                                             *)

Buckets == 0 .. veths.num_buckets - 1

\* The type of every variable.
TypeOK ==
  /\ veths.list \in Seq(Entries)
  /\ veths.num_buckets \in Nat \ {0}
  /\ veths.chain \in [Buckets -> Seq(Entries)]
  /\ veths.expand_mult \in [Buckets -> Nat]
  /\ veths.ideal_chain_maxlen \in Nat
  /\ veths.ineff_expands \in 0 .. 2 /\ veths.noexpand \in BOOLEAN
  /\ prefix \in [Entries -> Prefixes \cup {NULL}]
  /\ mode \in {"serve", "unload", "exited"}
  /\ {current, tmp} \subseteq Entries \cup {NULL}

\* What HASH_FSCK asserts, and more: list and chains hold the same entries, each
\* once, in the bucket of its key, whatever was added, deleted and redistributed.
Consistent ==
  /\ TypeOK
  /\ IsInjective(veths.list)
  /\ \A b \in Buckets :
       /\ IsInjective(veths.chain[b])
       /\ Range(veths.chain[b]) =
            {e \in Live : HASH_TO_BKT(prefix[e], veths.num_buckets) = b}

\* A chain may get longer than the threshold only as far as its share of the
\* entries was when the buckets were last doubled, and by the multiple granted
\* to its bucket: "longer yet-still-bounded", until doubling is given up.
ChainsBounded ==
  ~veths.noexpand =>
    \A b \in Buckets :
      Len(veths.chain[b]) <= (veths.expand_mult[b] + 1)
                               * Max({HASH_BKT_CAPACITY_THRESH, veths.ideal_chain_maxlen})

\* unload_list, which deletes the entries it walks over, never touches one that
\* it has freed: it is at the first entry that is left, goes on to the second,
\* and is over only when none is left.
WalkInStep ==
  mode = "unload" =>
    /\ current = (IF veths.list = <<>> THEN NULL ELSE Head(veths.list))
    /\ tmp = (IF current = NULL THEN NULL ELSE Successor(veths, current))

\* The table of prefixes that the daemon is written against.
Ports == INSTANCE PortTable WITH
  ports <- [i \in DOMAIN veths.list |-> prefix[veths.list[i]]]

\* veth_list_add and veth_list_remove are the operations of that table.
IsPortTable == Ports!Spec
=============================================================================
