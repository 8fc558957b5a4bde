------------------------------ MODULE Chunker ------------------------------
(***************************************************************************)
(* The chunked allocator of src/modules/sparkler/chunker.c, which sparkler *)
(* takes its particles and its octree's nodes from.  A chunk is handed out *)
(* from its start to its end, is never compacted, and is reused only       *)
(* when nothing of it is allocated any more.                               *)
(*                                                                         *)
(* A chunker is a record, and an operation the chunker it leaves behind:   *)
(* chunk is the one allocated from (0 if none), free_chunks a list; what   *)
(* is neither free nor not yet asked of libc is pinned.                    *)
(***************************************************************************)
EXTENDS Integers, Sequences, FiniteSets

chunker_new(chunks) ==
    [chunk |-> 0, free_chunks |-> <<>>,
     n_refs |-> [c \in chunks |-> 0], next_offset |-> [c \in chunks |-> 0]]

(* chunks that malloc() has yet to return: those that were never given out *)
Unasked(k) ==
    {c \in DOMAIN k.n_refs :
        k.n_refs[c] = 0 /\ c # k.chunk /\ \A i \in 1 .. Len(k.free_chunks) : k.free_chunks[i] # c}

(* the last reference gone, a chunk is free: it is listed first *)
BugUnref(k, c) ==
    LET n == k.n_refs[c] - 1 IN
    [k EXCEPT !.n_refs[c] = n, !.free_chunks = IF n = 1 THEN <<c>> \o @ ELSE @]
chunk_unref(k, c) ==
    LET n == k.n_refs[c] - 1 IN
    [k EXCEPT !.n_refs[c] = n, !.free_chunks = IF n = 0 THEN <<c>> \o @ ELSE @]

(* the chunk allocated from is retired, and a free one taken before libc is
   asked; the chunker's own reference keeps it pinned while it is in use *)
chunker_new_chunk(k) ==
    LET r == IF k.chunk = 0 THEN k ELSE chunk_unref(k, k.chunk)
        c == IF r.free_chunks # <<>> THEN Head(r.free_chunks)
             ELSE CHOOSE u \in Unasked(r) : \A v \in Unasked(r) : u <= v
    IN  [r EXCEPT !.chunk = c, !.n_refs[c] = 1, !.next_offset[c] = 0,
                  !.free_chunks = IF @ = <<>> THEN @ ELSE Tail(@)]

(* where the allocation is, and the chunker that holds it *)
chunker_alloc(k, size, chunk_size) ==
    LET r == IF k.chunk = 0 \/ k.next_offset[k.chunk] + size > chunk_size
             THEN chunker_new_chunk(k) ELSE k
    IN  [chunker |-> [r EXCEPT !.n_refs[r.chunk] = @ + 1, !.next_offset[r.chunk] = @ + size],
         mem |-> <<r.chunk, r.next_offset[r.chunk]>>]

chunker_free(k, mem) == chunk_unref(k, mem[1])

(* what a chunker must keep of the allocations that are live: each in a chunk
   that counts it, below the offset that is handed out next, and no two in
   the same place *)
Holds(k, live, size(_)) ==
    /\ \A c \in DOMAIN k.n_refs :
          k.n_refs[c] = Cardinality({m \in live : m[1] = c}) + (IF c = k.chunk THEN 1 ELSE 0)
    /\ \A i \in 1 .. Len(k.free_chunks) : k.n_refs[k.free_chunks[i]] = 0
    /\ \A m \in live : m[2] + size(m) <= k.next_offset[m[1]]
    /\ \A m, n \in live : m[1] = n[1] /\ m[2] < n[2] => m[2] + size(m) <= n[2]
=============================================================================
