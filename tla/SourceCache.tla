----------------------------- MODULE SourceCache -----------------------------
(***************************************************************************)
(* hosaka/cache.py: SourceCache, the RAM-hot and disk-durable cache of an  *)
(* RvcEngine's source audio, with the PcmCache that is its RAM tier.       *)
(*                                                                         *)
(* A value is abstracted to its size and to the version of the source      *)
(* generation that made it; generation is not deterministic, so a key may  *)
(* be stored again with another size.  Both tiers are sequences, least     *)
(* recently used first: on disk that is the order of mtimes, the clock     *)
(* being taken as monotonic.  The process may restart between any two      *)
(* steps, with another version; what is on disk stays.  Temporary files    *)
(* are left out: nothing reads one, and a blob appears by its rename.      *)
(***************************************************************************)
EXTENDS Naturals, Sequences, SequencesExt

CONSTANTS
    Worker,      \* worker threads, which the server serializes and the lock need not
    Key,         \* cache keys
    Version,     \* SourceCache versions over time
    RamMax,      \* ram_max_bytes
    DiskMax,     \* disk_max_bytes
    MaxSize      \* bound: size of a value

ASSUME CacheAssumption ==
    /\ Key # {}
    /\ RamMax \in Nat
    /\ DiskMax \in Nat \ {0}
    /\ MaxSize \in Nat \ {0}

VARIABLES
    ram,         \* PcmCache._store
    ramBytes,    \* PcmCache._bytes
    disk,        \* the *.f32 blobs
    lock,        \* SourceCache._lock: the set of its holder
    version,     \* of the running process
    pc,          \* where each worker is in _source_pcm
    key,         \* the key it is about
    val,         \* the value it has read or generated
    victims      \* the names _evict_disk has yet to unlink, oldest first

tiers == <<ram, ramBytes, disk>>
vars == <<tiers, lock, version, pc, key, val, victims>>

Value == [made : Version, size : 1..MaxSize]
Name == Version \X Key

PC == {"idle", "read", "touch", "fill", "make", "put", "store", "rename", "scan", "unlink"}

\* The number of bytes of a tier.
Total(s) ==
    LET sum[i \in 0..Len(s)] == IF i = 0 THEN 0 ELSE sum[i - 1] + s[i].val.size
    IN  sum[Len(s)]

TypeOK ==
    /\ ram \in Seq([key : Key, val : Value])
    /\ ramBytes \in 0..RamMax
    /\ disk \in Seq([name : Name, val : Value])
    /\ lock \subseteq Worker
    /\ version \in Version
    /\ pc \in [Worker -> PC]
    /\ key \in [Worker -> Key]
    /\ val \in [Worker -> Value]
    /\ victims \in [Worker -> Seq(Name)]

\* What a local variable holds when it holds nothing.
AnyKey == CHOOSE k \in Key : TRUE
AnyValue == CHOOSE v \in Value : TRUE

Init ==
    /\ ram = <<>>
    /\ ramBytes = 0
    /\ disk = <<>>
    /\ lock = {}
    /\ version \in Version
    /\ pc = [w \in Worker |-> "idle"]
    /\ key = [w \in Worker |-> AnyKey]
    /\ val = [w \in Worker |-> AnyValue]
    /\ victims = [w \in Worker |-> <<>>]

-----------------------------------------------------------------------------
(* PcmCache: one operation is one step, under its own lock                 *)

InRam(k) == \E i \in DOMAIN ram : ram[i].key = k
RamPlace(k) == CHOOSE i \in DOMAIN ram : ram[i].key = k
RamEntry(k) == ram[RamPlace(k)]
RamWithout(k) == IF InRam(k) THEN RemoveAt(ram, RamPlace(k)) ELSE ram

\* get() of a present key: most recently used from now on.
RamTouch(k) ==
    /\ ram' = Append(RamWithout(k), RamEntry(k))
    /\ UNCHANGED ramBytes

\* A fault: a replaced value's bytes stay counted.
ReplacedBytesKept(k) == 0

\* The bytes a put() of k takes out first.
ReplacedBytes(k) == IF InRam(k) THEN RamEntry(k).val.size ELSE 0

\* put(): replace, then evict least recently used entries while over budget.
RamPut(k, v) ==
    IF v.size > RamMax
      THEN UNCHANGED <<ram, ramBytes>>
      ELSE LET store == Append(RamWithout(k), [key |-> k, val |-> v])
               bytes == ramBytes - ReplacedBytes(k) + v.size
               Left(i) == bytes - Total(SubSeq(store, 1, i))
               Enough(i) == Left(i) <= RamMax \/ i = Len(store) - 1
               n == CHOOSE i \in 0..(Len(store) - 1) :
                        Enough(i) /\ \A j \in 0..(i - 1) : ~Enough(j)
           IN  /\ ram' = SubSeq(store, n + 1, Len(store))
               /\ ramBytes' = Left(n)

-----------------------------------------------------------------------------
(* SourceCache                                                             *)

\* A fault: the version is left out of the hash.
PathIgnoresVersion(k) == <<CHOOSE v \in Version : TRUE, k>>

PathFor(k) == <<version, k>>

OnDisk(n) == \E i \in DOMAIN disk : disk[i].name = n
DiskPlace(n) == CHOOSE i \in DOMAIN disk : disk[i].name = n
Blob(n) == disk[DiskPlace(n)]
DiskWithout(n) == IF OnDisk(n) THEN RemoveAt(disk, DiskPlace(n)) ELSE disk

Go(w, where) == pc' = [pc EXCEPT ![w] = where] /\ UNCHANGED <<key, val>>

\* The worker has its value, or has stored it; its locals are gone.
Done(w) ==
    /\ pc' = [pc EXCEPT ![w] = "idle"]
    /\ key' = [key EXCEPT ![w] = AnyKey]
    /\ val' = [val EXCEPT ![w] = AnyValue]

\* get(): the RAM tier answers.
GetHot(w, k) ==
    /\ pc[w] = "idle"
    /\ InRam(k)
    /\ RamTouch(k)
    /\ UNCHANGED <<disk, lock, version, pc, key, val, victims>>

GetCold(w, k) ==
    /\ pc[w] = "idle"
    /\ ~InRam(k)
    /\ pc' = [pc EXCEPT ![w] = "read"]
    /\ key' = [key EXCEPT ![w] = k]
    /\ UNCHANGED <<tiers, lock, version, val, victims>>

\* read_bytes(): the blob, or a miss.
Read(w) ==
    /\ pc[w] = "read"
    /\ IF OnDisk(PathFor(key[w]))
         THEN /\ pc' = [pc EXCEPT ![w] = "touch"]
              /\ val' = [val EXCEPT ![w] = Blob(PathFor(key[w])).val]
              /\ UNCHANGED key
         ELSE Go(w, "make")
    /\ UNCHANGED <<tiers, lock, version, victims>>

\* utime(), which fails silently if the blob has been evicted meanwhile.
Touch(w) ==
    /\ pc[w] = "touch"
    /\ LET n == PathFor(key[w])
       IN  disk' = IF OnDisk(n) THEN Append(DiskWithout(n), Blob(n)) ELSE disk
    /\ Go(w, "fill")
    /\ UNCHANGED <<ram, ramBytes, lock, version, victims>>

Fill(w) ==
    /\ pc[w] = "fill"
    /\ RamPut(key[w], val[w])
    /\ Done(w)
    /\ UNCHANGED <<disk, lock, version, victims>>

\* _source_pcm after a miss: the source engine makes a value, or raises or
\* makes none.
Generate(w) ==
    /\ pc[w] = "make"
    /\ \/ Done(w)
       \/ /\ \E n \in 1..MaxSize : val' = [val EXCEPT ![w] = [made |-> version, size |-> n]]
          /\ pc' = [pc EXCEPT ![w] = "put"]
          /\ UNCHANGED key
    /\ UNCHANGED <<tiers, lock, version, victims>>

\* put(): the RAM tier, and the disk tier's size check.
Put(w) ==
    /\ pc[w] = "put"
    /\ RamPut(key[w], val[w])
    /\ IF val[w].size > DiskMax THEN Done(w) ELSE Go(w, "store")
    /\ UNCHANGED <<disk, lock, version, victims>>

\* Under the lock: the temporary file.
Store(w) ==
    /\ pc[w] = "store"
    /\ lock = {}
    /\ lock' = {w}
    /\ Go(w, "rename")
    /\ UNCHANGED <<ram, ramBytes, disk, version, victims>>

\* write_bytes() or replace() fails (a full disk): give up quietly.
StoreFails(w) ==
    /\ pc[w] = "rename"
    /\ lock' = {}
    /\ Done(w)
    /\ UNCHANGED <<tiers, version, victims>>

Rename(w) ==
    /\ pc[w] = "rename"
    /\ LET n == PathFor(key[w])
       IN  disk' = Append(DiskWithout(n), [name |-> n, val |-> val[w]])
    /\ Go(w, "scan")
    /\ UNCHANGED <<ram, ramBytes, lock, version, victims>>

\* _evict_disk(): list the blobs by mtime, unless they fit.
Scan(w) ==
    /\ pc[w] = "scan"
    /\ IF Total(disk) <= DiskMax
         THEN Done(w) /\ lock' = {} /\ UNCHANGED victims
         ELSE /\ victims' = [victims EXCEPT ![w] = [i \in DOMAIN disk |-> disk[i].name]]
              /\ Go(w, "unlink")
              /\ UNCHANGED lock
    /\ UNCHANGED <<tiers, version>>

\* A fault: one blob is unlinked, and no more.
UnlinkOne(w) ==
    /\ pc[w] = "unlink"
    /\ disk' = DiskWithout(Head(victims[w]))
    /\ victims' = [victims EXCEPT ![w] = <<>>]
    /\ Done(w)
    /\ lock' = {}
    /\ UNCHANGED <<ram, ramBytes, version>>

Unlink(w) ==
    /\ pc[w] = "unlink"
    /\ disk' = DiskWithout(Head(victims[w]))
    /\ IF Total(disk') <= DiskMax \/ Tail(victims[w]) = <<>>
         THEN Done(w) /\ lock' = {} /\ victims' = [victims EXCEPT ![w] = <<>>]
         ELSE victims' = [victims EXCEPT ![w] = Tail(@)] /\ UNCHANGED <<pc, lock, key, val>>
    /\ UNCHANGED <<ram, ramBytes, version>>

\* The process ends, at any point, and another one starts.
Restart ==
    /\ version' \in Version
    /\ ram' = <<>>
    /\ ramBytes' = 0
    /\ lock' = {}
    /\ pc' = [w \in Worker |-> "idle"]
    /\ victims' = [w \in Worker |-> <<>>]
    /\ key' = [w \in Worker |-> AnyKey]
    /\ val' = [w \in Worker |-> AnyValue]
    /\ UNCHANGED disk

WorkerStep(w) ==
    \/ \E k \in Key : GetHot(w, k) \/ GetCold(w, k)
    \/ Read(w) \/ Touch(w) \/ Fill(w)
    \/ Generate(w)
    \/ Put(w) \/ Store(w) \/ StoreFails(w) \/ Rename(w) \/ Scan(w) \/ Unlink(w)

Next == (\E w \in Worker : WorkerStep(w)) \/ Restart

Spec == Init /\ [][Next]_vars

-----------------------------------------------------------------------------
\* PcmCache counts its bytes exactly and keeps to its budget, a key replaced
\* and entries evicted in one put() included.
RamBudget ==
    /\ ramBytes = Total(ram)
    /\ ramBytes <= RamMax

\* What a worker gets is what the running version makes: a blob of another
\* version is never addressed, in RAM or on disk, after any restart.
VersionsApart ==
    /\ \A w \in Worker : pc[w] \in {"touch", "fill"} => val[w].made = version
    /\ \A i \in DOMAIN ram : ram[i].val.made = version

\* A put() that completes leaves the disk tier within its budget, however far
\* over it restarts in mid-put had left it, and never empties it: eviction
\* stops at the first blob that fits.  (The value just stored may be the
\* victim when another thread's get() touches every older blob in between.)
PutLeavesRoom ==
    [][\A w \in Worker :
          (Scan(w) \/ Unlink(w)) /\ pc'[w] = "idle"
          => Total(disk') <= DiskMax /\ disk' # <<>>]_vars
=============================================================================
