------------------------------ MODULE FileStore ------------------------------
(***************************************************************************)
(* What a file system promises its callers, with no tables, counters or    *)
(* blocks: a set of entries, each with a name, a parent, a type and        *)
(* contents.  Creating adds an empty entry under an identifier nobody      *)
(* uses, writing replaces the contents of one file and of no other, and    *)
(* removing takes one childless entry away.  BkFS implements it as long as *)
(* no write has run out of blocks.                                         *)
(***************************************************************************)
EXTENDS Integers, Sequences

CONSTANTS Ids, Names, Data, Sizes, BLOCK_SIZE, BootEntries

VARIABLES entries,   \* from the identifiers in use to their entries
          cwd        \* the working directory

store_vars == <<entries, cwd>>

\* The text d cut into blocks: s bytes take so many chunks, in order.
Contents(d, s) ==
  [size |-> s,
   data |-> [i \in 1..((s + BLOCK_SIZE - 1) \div BLOCK_SIZE)
                |-> [data |-> d, chunk |-> i]]]

Nothing == [size |-> 0, data |-> << >>]

StoreInit == entries = BootEntries /\ cwd = 1

StoreCreate(id, name, type) ==
  /\ id \notin DOMAIN entries
  /\ \A e \in DOMAIN entries :
       entries[e].parent = cwd => entries[e].name # name
  /\ entries' = [e \in DOMAIN entries \cup {id} |->
                   IF e = id THEN [name |-> name, parent |-> cwd,
                                   type |-> type, contents |-> Nothing]
                   ELSE entries[e]]
  /\ UNCHANGED cwd

StoreRemove(id) ==
  /\ id \in DOMAIN entries
  /\ entries[id].parent = cwd
  /\ \A e \in DOMAIN entries : entries[e].parent # id
  /\ entries' = [e \in DOMAIN entries \ {id} |-> entries[e]]
  /\ UNCHANGED cwd

StoreWrite(id, d, s) ==
  /\ id \in DOMAIN entries
  /\ entries[id].parent = cwd /\ entries[id].type = "regular"
  /\ entries' = [entries EXCEPT ![id].contents = Contents(d, s)]
  /\ UNCHANGED cwd

StoreChangeDir(id) ==
  /\ id \in DOMAIN entries /\ entries[id].type = "dir"
  /\ cwd' = id
  /\ UNCHANGED entries

StoreNext ==
  \/ \E id \in Ids, name \in Names, type \in {"regular", "dir"} :
       StoreCreate(id, name, type)
  \/ \E id \in Ids : StoreRemove(id) \/ StoreChangeDir(id)
  \/ \E id \in Ids, d \in Data, s \in Sizes : StoreWrite(id, d, s)

StoreSpec == StoreInit /\ [][StoreNext]_store_vars
=============================================================================
