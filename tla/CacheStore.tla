----------------------------- MODULE CacheStore -----------------------------
(***************************************************************************)
(* The artifact cache as two lossy stores: the index, which holds what a   *)
(* Put was told of an artifact, and the directory, which holds its bytes.  *)
(* Nothing ties a row to the file beside it, so each is a store of its own.*)
(***************************************************************************)
EXTENDS ArtifactCache

Offering(t, pcs, v) == IF pc[t] \in pcs THEN {<<ref[t], v>>} ELSE {}

BeforeRename == PutPCs \cup {"put_create"}
BeforeInsert == BeforeRename \cup {"put_clock", "put_insert"}

\* The row of a reference, without its timestamps.
Told(e) == IF e = NoRow THEN {} ELSE {[src |-> e.src, clean |-> e.clean]}

Listed     == [r \in Refs |-> Told(row[r])]
ListedSafe == [r \in Refs |-> Told(durable[r])]
Listing    == [t \in Threads |-> Offering(t, BeforeInsert, arg[t])]
Shown      == [t \in Threads |-> {<<ref[t], v>> : v \in Told(ent[t])}]

Index == INSTANCE LossyStore WITH
  Keys <- Refs, Values <- Arg, Clients <- Threads,
  shelf <- Listed, safe <- ListedSafe, offer <- Listing, got <- Shown

\* The file of a reference, and whether all its bytes are there.
Whole(f) == IF f = NoFile THEN {} ELSE {<<f.src, f.bytes # "partial">>}

Stored     == [r \in Refs |-> Whole(file[r])]
StoredSafe == [r \in Refs |-> Whole(disk[r])]
Copying    == [t \in Threads |-> Offering(t, BeforeRename, <<arg[t].src, TRUE>>)]

\* Nobody looks at the directory: a hit hands the path to its caller.
Directory == INSTANCE LossyStore WITH
  Keys <- Refs, Values <- Contents \X {TRUE}, Clients <- Threads,
  shelf <- Stored, safe <- StoredSafe, offer <- Copying, got <- [t \in Threads |-> {}]

\* A row says what some Put was called with under that reference, or is gone: no
\* update of a timestamp, eviction, repair or restart writes one that no Put
\* asked for, and Get returns what the row said while Get ran (index.go).
IndexIsStore == Index!Spec

\* A final path holds, in full, the bytes some Put was called with under that
\* reference, or nothing, after any failure and any crash (LocalCache.Put).
DirectoryIsStore == Directory!Spec
=============================================================================
