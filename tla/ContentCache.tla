---------------------------- MODULE ContentCache ----------------------------
(***************************************************************************)
(* The small-I/O cache of one file descriptor: ContentManager::FdCache in  *)
(* src/src/labios/content_manager.cpp and the operations on it.            *)
(*                                                                         *)
(* Data is abstracted to the number of the write that produced it: all     *)
(* bytes of write w are w, and 0 is a byte nobody wrote.  A cache holds    *)
(* the path of the first write since it was created, the regions keyed by  *)
(* their offset, and the running count total_bytes.                        *)
(***************************************************************************)
EXTENDS Integers, Sequences, SequencesExt, FiniteSetsExt

CONSTANTS
    LabelMinSize,   \* min_label_size_, in bytes
    ReadPolicy,     \* "read-through" or "write-only"
    NoFile          \* the empty path of a cache that does not exist

NoRegions == [off \in {} |-> 0]

Absent == [filepath |-> NoFile, regions |-> NoRegions, total_bytes |-> 0]

Extent(off, len) == off .. off + len - 1

(* The keys of a std::map, in its order. *)
Ascending(S) ==
    CHOOSE s \in SetToSeqs(S) : \A j, k \in DOMAIN s : j < k => s[j] < s[k]

(* The regions of a cache as FlushRegions, in the order of the std::map. *)
FlushRegions(c) ==
    LET offs == Ascending(DOMAIN c.regions)
    IN  [i \in 1 .. Len(offs) |->
           [file |-> c.filepath, off |-> offs[i],
            len |-> c.regions[offs[i]].len, id |-> c.regions[offs[i]].id]]

flush_locked(c) == [c EXCEPT !.regions = NoRegions, !.total_bytes = 0]

(* Assigning a region replaces what was cached at that very offset, all of *)
(* it, whatever the two lengths.                                           *)
stored_in(c, file, off, len, id) ==
    LET old == IF off \in DOMAIN c.regions THEN c.regions[off].len ELSE 0
        new == [o \in DOMAIN c.regions \cup {off} |->
                  IF o = off THEN [len |-> len, id |-> id] ELSE c.regions[o]]
    IN  [filepath |-> IF c.filepath = NoFile THEN file ELSE c.filepath,
         regions |-> new,
         total_bytes |-> c.total_bytes - old + len]

(* Seeded fault: the cache is flushed one byte too late. *)
cache_write_late(c, file, off, len, id) ==
    LET s == stored_in(c, file, off, len, id)
    IN  IF s.total_bytes > LabelMinSize
        THEN [cache |-> flush_locked(s), flushed |-> FlushRegions(s)]
        ELSE [cache |-> s, flushed |-> <<>>]

(* What a write leaves in the cache, and what it hands to its caller. *)
cache_write(c, file, off, len, id) ==
    LET s == stored_in(c, file, off, len, id)
    IN  IF s.total_bytes >= LabelMinSize
        THEN [cache |-> flush_locked(s), flushed |-> FlushRegions(s)]
        ELSE [cache |-> s, flushed |-> <<>>]

(* The regions cache_read looks at: from the last one that starts at or    *)
(* before the offset, or else from the first one, up to the end asked for. *)
Scanned(c, off, size) ==
    LET before == {o \in DOMAIN c.regions : o <= off}
        from == IF before = {} THEN 0 ELSE Max(before)
    IN  {o \in DOMAIN c.regions :
           /\ from <= o
           /\ o < off + size
           /\ off < o + c.regions[o].len}

(* The bytes copied, a later offset over an earlier one, and whether the   *)
(* sum of the overlaps passes for a full hit.                              *)
cache_read(c, off, size) ==
    LET scan == Scanned(c, off, size)
        within(o) == Extent(o, c.regions[o].len) \cap Extent(off, size)
        covered == MapThenSumSet(LAMBDA o : Cardinality(within(o)), scan)
        copied(b) == {o \in scan : b \in within(o)}
    IN  [hit |-> ReadPolicy # "write-only" /\ covered # 0 /\ covered >= size,
         data |-> [b \in Extent(off, size) |->
                     IF copied(b) = {} THEN 0 ELSE c.regions[Max(copied(b))].id]]
=============================================================================
