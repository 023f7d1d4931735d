-------------------------------- MODULE Dict --------------------------------
(***************************************************************************)
(* The hash table of hiredis-vip (dict.c): a table of chains that doubles  *)
(* when it is full.  It holds the callbacks of the subscriptions of an     *)
(* asynchronous context; the order in which it is iterated is the order in *)
(* which these are called when the context is freed.                       *)
(*                                                                         *)
(* A table is a function from 0 .. size - 1 to chains of entries.          *)
(***************************************************************************)
EXTENDS Integers, SequencesExt, FiniteSetsExt

CONSTANTS hash(_),                \* dictGenHashFunction
          DICT_HT_INITIAL_SIZE    \* 4

ASSUME DictConstants == DICT_HT_INITIAL_SIZE \in Nat \ {0}

dictCreate == [size |-> 0, used |-> 0, table |-> <<>>]

Index(key, size) == hash(key) % size
Chain(ht, key) == ht.table[Index(key, ht.size)]

\* the entries in the order in which dictNext gives them
Entries(ht) == FlattenSeq([i \in 1 .. ht.size |-> ht.table[i - 1]])

\* mutant: an entry stays at the index that it had
dictExpand_Index(ht, size) ==
    LET old == Reverse(Entries(ht))
    IN  [size |-> size, used |-> ht.used,
         table |-> [i \in 0 .. size - 1 |-> SelectSeq(old, LAMBDA e : Index(e.key, ht.size) = i)]]

\* every entry is put at the head of its new chain
dictExpand(ht, size) ==
    LET old == Reverse(Entries(ht))
    IN  [size |-> size, used |-> ht.used,
         table |-> [i \in 0 .. size - 1 |-> SelectSeq(old, LAMBDA e : Index(e.key, size) = i)]]

_dictExpandIfNeeded(ht) ==
    IF ht.size = 0 THEN dictExpand(ht, DICT_HT_INITIAL_SIZE)
    ELSE IF ht.used = ht.size THEN dictExpand(ht, 2 * ht.size)
    ELSE ht

\* the entries with a key, as dictFind meets them: at most one
dictFind(ht, key) == IF ht.size = 0 THEN <<>> ELSE SelectSeq(Chain(ht, key), LAMBDA e : e.key = key)

\* the table may grow before the key is found to be there
dictAdd(ht, key, val) ==
    LET n == _dictExpandIfNeeded(ht)
    IN  IF dictFind(n, key) # <<>> THEN n
        ELSE [n EXCEPT !.table[Index(key, n.size)] = <<[key |-> key, val |-> val]>> \o @,
                       !.used = @ + 1]

dictReplace(ht, key, val) ==
    LET n == dictAdd(ht, key, val)
    IN  [n EXCEPT !.table[Index(key, n.size)] =
            [i \in DOMAIN @ |-> IF @[i].key = key THEN [key |-> key, val |-> val] ELSE @[i]]]

dictDelete(ht, key) ==
    IF dictFind(ht, key) = <<>> THEN ht
    ELSE [ht EXCEPT !.table[Index(key, ht.size)] = SelectSeq(@, LAMBDA e : e.key # key),
                    !.used = @ - 1]
=============================================================================
